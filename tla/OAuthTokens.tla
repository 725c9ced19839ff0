------------------------------ MODULE OAuthTokens ------------------------------
(***************************************************************************)
(* The OAuth token endpoint over auth.PostgresRepository: an authorization *)
(* code is exchanged once for an access and a refresh token, and a refresh *)
(* token is rotated: its row is revoked and a new row inserted.  Requests  *)
(* of all API processes run at the same time; each transaction first locks *)
(* the row it spends ("for update").  Every start of the API command saves *)
(* the fixture code again, which makes it unconsumed: a new grant.         *)
(*                                                                         *)
(* A row of oauth_tokens holds an access token and its refresh token; it   *)
(* is one element of Tokens here.  A request with another client or        *)
(* redirect URI than the row's is refused and changes nothing.             *)
(***************************************************************************)
EXTENDS Naturals

CONSTANTS
    Requests,  \* token requests that may be in progress at the same time
    Codes,     \* authorization codes
    Tokens,    \* rows of oauth_tokens
    None,      \* no row, no request
    MaxSeeds   \* bound on the starts of the API command

Rows == Codes \cup Tokens

\* An issue of a code: what all the rows descend from that rotate its tokens.
Grants == [code : Codes, seed : Nat]

ASSUME TokenAssumption ==
    /\ Codes \cap Tokens = {}
    /\ None \notin Rows \cup Grants
    /\ None \notin Requests
    /\ MaxSeeds \in Nat

VARIABLES
    seeds,      \* seeds[c]: how often code c was saved; 0 is no row
    consumed,   \* codes with consumed_at
    grant,      \* grant[t]: the code row t descends from and its seed, or None
    parent,     \* parent[t]: the row t was exchanged for, or None
    revoked,    \* rows of Tokens with revoked_at
    expired,    \* codes and refresh tokens whose expiry has passed
    lock,       \* lock[x]: the request whose transaction locks row x, or None
    pc,         \* pc[r]: the next step of request r
    source,     \* source[r]: the code or refresh token r presents
    inTime      \* requests whose issuedAt precedes the expiry of their source

vars == <<seeds, consumed, grant, parent, revoked, expired, lock, pc, source, inTime>>

Init ==
    /\ seeds = [c \in Codes |-> 0]
    /\ consumed = {}
    /\ grant = [t \in Tokens |-> None]
    /\ parent = [t \in Tokens |-> None]
    /\ revoked = {}
    /\ expired = {}
    /\ lock = [x \in Rows |-> None]
    /\ pc = [r \in Requests |-> "idle"]
    /\ source = [r \in Requests |-> None]
    /\ inTime = {}

-----------------------------------------------------------------------------
Exists(x) == IF x \in Codes THEN seeds[x] > 0 ELSE grant[x] # None

\* The second exchange of a code, and of a refresh token.
Spent(x) == x \in consumed \cup revoked

\* The refresh token of a row may still be exchanged, and until its hour is over
\* ReadOAuthAccessTokenPrincipal takes the row's access token.
Live(t) == grant[t] # None /\ t \notin revoked

\* Mutant of RowFree: the row is read without "for update".
RowFreeOrNot(x) == TRUE

RowFree(x) == lock[x] = None

\* Mutant of SaveOAuthAuthorizationCode: the upsert leaves consumed_at alone.
SaveWithoutReset(c) ==
    /\ RowFree(c)
    /\ seeds[c] < MaxSeeds
    /\ seeds' = [seeds EXCEPT ![c] = @ + 1]
    /\ UNCHANGED <<consumed, grant, parent, revoked, expired, lock, pc, source, inTime>>

\* SaveOAuthAuthorizationCode: the upsert waits for the row lock and resets
\* consumed_at.
SaveOAuthAuthorizationCode(c) ==
    /\ RowFree(c)
    /\ seeds[c] < MaxSeeds
    /\ seeds' = [seeds EXCEPT ![c] = @ + 1]
    /\ consumed' = consumed \ {c}
    /\ UNCHANGED <<grant, parent, revoked, expired, lock, pc, source, inTime>>

\* The hour of an access token plays no part in what a request writes.
Expire(x) ==
    /\ Exists(x)
    /\ expired' = expired \cup {x}
    /\ UNCHANGED <<seeds, consumed, grant, parent, revoked, lock, pc, source, inTime>>

\* ExchangeOAuthToken has validated the request and taken issuedAt.
ExchangeOAuthToken(r, x) ==
    /\ pc[r] = "idle"
    /\ Exists(x)
    /\ pc' = [pc EXCEPT ![r] = "read"]
    /\ source' = [source EXCEPT ![r] = x]
    /\ inTime' = IF x \in expired THEN inTime ELSE inTime \cup {r}
    /\ UNCHANGED <<seeds, consumed, grant, parent, revoked, expired, lock>>

Finish(r) ==
    /\ pc' = [pc EXCEPT ![r] = "idle"]
    /\ source' = [source EXCEPT ![r] = None]
    /\ inTime' = inTime \ {r}

\* Mutant of Exchangeable: only the expiry is checked.
ExchangeableInTime(r) == r \in inTime

Exchangeable(r) == ~Spent(source[r]) /\ r \in inTime

\* readOAuthAuthorizationCodeTx, readOAuthRefreshTokenTx and the checks.
ReadAccepts(r) ==
    /\ pc[r] = "read"
    /\ RowFree(source[r])
    /\ Exchangeable(r)
    /\ lock' = [lock EXCEPT ![source[r]] = r]
    /\ pc' = [pc EXCEPT ![r] = "write"]
    /\ UNCHANGED <<seeds, consumed, grant, parent, revoked, expired, source, inTime>>

ReadRefuses(r) ==
    /\ pc[r] = "read"
    /\ RowFree(source[r])
    /\ ~Exchangeable(r)
    /\ Finish(r)
    /\ UNCHANGED <<seeds, consumed, grant, parent, revoked, expired, lock>>

\* The new row of a transaction.
Insert(t, g, x) ==
    /\ grant[t] = None
    /\ grant' = [grant EXCEPT ![t] = g]
    /\ parent' = [parent EXCEPT ![t] = x]

Unlock(r) == lock' = [lock EXCEPT ![source[r]] = None]

\* Mutant of ExchangeOAuthAuthorizationCode: consumed_at is not set.
ExchangeWithoutConsuming(r) ==
    LET c == source[r]
    IN  /\ pc[r] = "write"
        /\ c \in Codes
        /\ \E t \in Tokens : Insert(t, [code |-> c, seed |-> seeds[c]], c)
        /\ Unlock(r)
        /\ Finish(r)
        /\ UNCHANGED <<seeds, consumed, revoked, expired>>

ExchangeOAuthAuthorizationCode(r) ==
    LET c == source[r]
    IN  /\ pc[r] = "write"
        /\ c \in Codes
        /\ \E t \in Tokens : Insert(t, [code |-> c, seed |-> seeds[c]], c)
        /\ consumed' = consumed \cup {c}
        /\ Unlock(r)
        /\ Finish(r)
        /\ UNCHANGED <<seeds, revoked, expired>>

\* Mutant of ExchangeOAuthRefreshToken: the old token is marked in the table of
\* codes.
RotateAsCode(r) ==
    LET old == source[r]
    IN  /\ pc[r] = "write"
        /\ old \in Tokens
        /\ \E t \in Tokens : Insert(t, grant[old], old)
        /\ consumed' = consumed \cup {old}
        /\ Unlock(r)
        /\ Finish(r)
        /\ UNCHANGED <<seeds, revoked, expired>>

ExchangeOAuthRefreshToken(r) ==
    LET old == source[r]
    IN  /\ pc[r] = "write"
        /\ old \in Tokens
        /\ \E t \in Tokens : Insert(t, grant[old], old)
        /\ revoked' = revoked \cup {old}
        /\ Unlock(r)
        /\ Finish(r)
        /\ UNCHANGED <<seeds, consumed, expired>>

\* A statement fails or the process dies: the transaction rolls back.
Fail(r) ==
    /\ pc[r] # "idle"
    /\ lock' = [x \in Rows |-> IF lock[x] = r THEN None ELSE lock[x]]
    /\ Finish(r)
    /\ UNCHANGED <<seeds, consumed, grant, parent, revoked, expired>>

Next ==
    \/ \E c \in Codes : SaveOAuthAuthorizationCode(c)
    \/ \E x \in Rows : Expire(x)
    \/ \E r \in Requests, x \in Rows : ExchangeOAuthToken(r, x)
    \/ \E r \in Requests :
          \/ ReadAccepts(r)
          \/ ReadRefuses(r)
          \/ ExchangeOAuthAuthorizationCode(r)
          \/ ExchangeOAuthRefreshToken(r)
          \/ Fail(r)

Spec == Init /\ [][Next]_vars

-----------------------------------------------------------------------------
(* Properties *)

TokensTypeOK ==
    /\ seeds \in [Codes -> 0..MaxSeeds]
    /\ consumed \subseteq Codes
    /\ grant \in [Tokens -> Grants \cup {None}]
    /\ parent \in [Tokens -> Rows \cup {None}]
    /\ revoked \subseteq Tokens
    /\ expired \subseteq Rows
    /\ lock \in [Rows -> Requests \cup {None}]
    /\ pc \in [Requests -> {"idle", "read", "write"}]
    /\ source \in [Requests -> Rows \cup {None}]
    /\ inTime \subseteq Requests

\* Of all the rows that descend from one issue of a code, exactly one can be
\* used: never two, however many requests present the same code or refresh token
\* at the same time (a rotation ends the old access token with the refresh
\* token), and never none, whatever fails between the two halves of a rotation.
OneLiveTokenPerGrant ==
    \A t \in Tokens : grant[t] # None =>
        \E u \in Tokens : {v \in Tokens : Live(v) /\ grant[v] = grant[t]} = {u}

\* "exchanges that code atomically", "rotates refresh tokens ... in one
\* transaction": nothing is exchanged for two rows of one grant, and a token
\* is revoked exactly when a row has replaced it, in the same grant.
RotationIsLinear ==
    /\ \A t, u \in Tokens :
         t # u /\ grant[t] # None /\ grant[t] = grant[u] => parent[t] # parent[u]
    /\ \A t \in Tokens :
         t \in revoked <=> \E u \in Tokens : parent[u] = t /\ grant[u] = grant[t]

\* A code is consumed exactly when a token has been issued for its current
\* issue: no request spends it for nothing and none gets a token and leaves it.
ConsumedMeansIssued ==
    \A c \in Codes : seeds[c] > 0 =>
        (c \in consumed <=> \E t \in Tokens : grant[t] = [code |-> c, seed |-> seeds[c]])

-----------------------------------------------------------------------------
(* The abstract specification *)

\* What a client of the service sees of the tables.
OpenCodes == {c \in Codes : seeds[c] > 0 /\ c \notin consumed}
LiveTokens == [t \in Tokens |-> IF t \in revoked THEN None ELSE grant[t]]
GivenTokens == {t \in Tokens : grant[t] # None}

Memory == INSTANCE TokenService
    WITH issue <- seeds, codes <- OpenCodes, tokens <- LiveTokens, given <- GivenTokens

\* The database, with its locks, its requests in progress and its rollbacks,
\* does nothing that the service with one mutex over two maps could not do: each
\* transaction takes effect at its commit, whole or not at all.
ImplementsTokenService == Memory!Spec
=============================================================================
