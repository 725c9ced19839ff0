-------------------------- MODULE OAuthTokens_proofs --------------------------
(***************************************************************************)
(* The token endpoint for any number of requests, codes and tokens.  The   *)
(* invariant has two parts: what the tables say of one another, and what   *)
(* the lock of a row gives the transaction that holds it.                  *)
(***************************************************************************)
EXTENDS OAuthTokens, TLAPS

\* The tables.  A grant names an issue of its code that has happened; the row
\* a token was exchanged for exists.
TableTypeOK ==
    /\ seeds \in [Codes -> 0..MaxSeeds]
    /\ consumed \subseteq Codes
    /\ grant \in [Tokens -> Grants \cup {None}]
    /\ parent \in [Tokens -> Rows \cup {None}]
    /\ revoked \subseteq Tokens

\* The two halves of OneLiveTokenPerGrant.
NoTwoLive ==
    \A t, u \in Tokens : t # u /\ Live(t) /\ Live(u) => grant[t] # grant[u]

SomeLive ==
    \A t \in Tokens : grant[t] # None =>
        \E u \in Tokens : Live(u) /\ grant[u] = grant[t]

TableInv ==
    /\ TableTypeOK
    /\ \A t \in Tokens : grant[t] # None => grant[t].seed \in 1..seeds[grant[t].code]
    /\ \A t \in Tokens : grant[t] = None => parent[t] = None /\ t \notin revoked
    /\ \A t \in Tokens : parent[t] \in Tokens => grant[parent[t]] # None
    /\ NoTwoLive
    /\ SomeLive
    /\ RotationIsLinear
    /\ ConsumedMeansIssued

RequestTypeOK ==
    /\ expired \subseteq Rows
    /\ lock \in [Rows -> Requests \cup {None}]
    /\ pc \in [Requests -> {"idle", "read", "write"}]
    /\ source \in [Requests -> Rows \cup {None}]
    /\ inTime \subseteq Requests

\* The requests.  One that writes has locked its source, which is unspent.
RequestInv ==
    /\ RequestTypeOK
    /\ \A r \in Requests : pc[r] # "idle" => source[r] \in Rows /\ Exists(source[r])
    /\ \A r \in Requests, x \in Rows : lock[x] = r <=> pc[r] = "write" /\ source[r] = x
    /\ \A r \in Requests : pc[r] = "write" => ~Spent(source[r])

TokenInv == TableInv /\ RequestInv

-----------------------------------------------------------------------------
(* The tables *)

\* A code is exchanged: its row is unspent, so no token has its current issue.
LEMMA ExchangeTableInv ==
  ASSUME TableInv, NEW c \in Codes, NEW t \in Tokens,
         seeds[c] > 0, c \notin consumed,
         Insert(t, [code |-> c, seed |-> seeds[c]], c),
         consumed' = consumed \cup {c}, UNCHANGED <<seeds, revoked>>
  PROVE  TableInv'
  <1> DEFINE g == [code |-> c, seed |-> seeds[c]]
  <1>1. /\ g \in Grants
        /\ g # None
        /\ c \notin Tokens
        /\ c # None
    BY TokenAssumption DEF TableInv, TableTypeOK, Grants, Rows
  <1>2. /\ grant[t] = None
        /\ \A u \in Tokens : grant'[u] = IF u = t THEN g ELSE grant[u]
        /\ \A u \in Tokens : parent'[u] = IF u = t THEN c ELSE parent[u]
    BY DEF Insert, TableInv, TableTypeOK
  <1>3. TableTypeOK'
    BY <1>1 DEF TableInv, TableTypeOK, Insert, Rows
  <1>4. \A u \in Tokens : grant[u] # g
    BY DEF TableInv, ConsumedMeansIssued
  <1>5. \A u \in Tokens : grant'[u] # None => grant'[u].seed \in 1..seeds'[grant'[u].code]
    BY <1>2 DEF TableInv, TableTypeOK
  <1>6. /\ \A u \in Tokens : grant'[u] = None => parent'[u] = None /\ u \notin revoked'
        /\ \A u \in Tokens : parent'[u] \in Tokens => grant'[parent'[u]] # None
    BY <1>1, <1>2 DEF TableInv
  <1>7. NoTwoLive'
    BY <1>2, <1>4 DEF TableInv, NoTwoLive, Live
  <1>10. SomeLive'
    BY <1>2 DEF TableInv, SomeLive, Live
  <1>8. RotationIsLinear'
    <2>1. ASSUME NEW u \in Tokens, NEW v \in Tokens,
                 u # v, grant'[u] # None, grant'[u] = grant'[v]
          PROVE  parent'[u] # parent'[v]
      BY <1>2, <1>4, <2>1 DEF TableInv, RotationIsLinear
    <2>2. ASSUME NEW u \in Tokens
          PROVE  u \in revoked' <=> \E v \in Tokens : parent'[v] = u /\ grant'[v] = grant'[u]
      <3>1. CASE u = t
        BY <1>1, <1>2, <3>1 DEF TableInv
      <3>2. CASE u # t
        <4>1. u \in revoked <=> \E v \in Tokens : parent[v] = u /\ grant[v] = grant[u]
          BY DEF TableInv, RotationIsLinear
        <4>2. parent[t] # u /\ parent'[t] # u
          BY <1>1, <1>2, TokenAssumption DEF TableInv, Rows
        <4> QED
          BY <1>2, <3>2, <4>1, <4>2
      <3> QED
        BY <3>1, <3>2
    <2> QED
      BY <2>1, <2>2 DEF RotationIsLinear
  <1>9. ConsumedMeansIssued'
    <2> SUFFICES ASSUME NEW d \in Codes, seeds[d] > 0
                 PROVE  d \in consumed' <=>
                          \E u \in Tokens : grant'[u] = [code |-> d, seed |-> seeds[d]]
      BY DEF ConsumedMeansIssued
    <2>1. CASE d = c
      BY <1>2, <2>1
    <2>2. CASE d # c
      <3>1. d \in consumed <=> \E u \in Tokens : grant[u] = [code |-> d, seed |-> seeds[d]]
        BY DEF TableInv, ConsumedMeansIssued
      <3>2. g # [code |-> d, seed |-> seeds[d]] /\ grant[t] # [code |-> d, seed |-> seeds[d]]
        <4>1. [code |-> d, seed |-> seeds[d]] \in Grants
          BY DEF TableInv, TableTypeOK, Grants
        <4> QED
          BY <1>2, <2>2, <4>1, TokenAssumption
      <3> QED
        BY <1>2, <2>2, <3>1, <3>2
    <2> QED
      BY <2>1, <2>2
  <1> QED
    BY <1>3, <1>5, <1>6, <1>7, <1>8, <1>9, <1>10 DEF TableInv

\* A refresh token is rotated: it was the usable row of its grant, and now the
\* new row is.
LEMMA RotateTableInv ==
  ASSUME TableInv, NEW old \in Tokens, NEW t \in Tokens,
         grant[old] # None, old \notin revoked,
         Insert(t, grant[old], old),
         revoked' = revoked \cup {old}, UNCHANGED <<seeds, consumed>>
  PROVE  TableInv'
  <1>1. /\ grant[old] \in Grants
        /\ old # None
        /\ t # old
    BY TokenAssumption DEF TableInv, TableTypeOK, Rows, Insert
  <1>2. /\ grant[t] = None
        /\ \A u \in Tokens : grant'[u] = IF u = t THEN grant[old] ELSE grant[u]
        /\ \A u \in Tokens : parent'[u] = IF u = t THEN old ELSE parent[u]
    BY DEF Insert, TableInv, TableTypeOK
  <1>3. TableTypeOK'
    BY <1>1 DEF TableInv, TableTypeOK, Insert, Rows
  <1>4. \A u \in Tokens : u # old /\ grant[u] = grant[old] => u \in revoked
    BY DEF TableInv, NoTwoLive, Live
  <1>5. \A u \in Tokens : grant'[u] # None => grant'[u].seed \in 1..seeds'[grant'[u].code]
    BY <1>2 DEF TableInv, TableTypeOK
  <1>6. /\ \A u \in Tokens : grant'[u] = None => parent'[u] = None /\ u \notin revoked'
        /\ \A u \in Tokens : parent'[u] \in Tokens => grant'[parent'[u]] # None
    BY <1>1, <1>2 DEF TableInv
  <1>7. NoTwoLive'
    BY <1>2, <1>4 DEF TableInv, NoTwoLive, Live
  <1>10. SomeLive'
    BY <1>1, <1>2, <1>4 DEF TableInv, SomeLive, Live
  <1>8. RotationIsLinear'
    <2>1. \A u \in Tokens : grant[u] = grant[old] => parent[u] # old
      BY DEF TableInv, RotationIsLinear
    <2>2. ASSUME NEW u \in Tokens, NEW v \in Tokens,
                 u # v, grant'[u] # None, grant'[u] = grant'[v]
          PROVE  parent'[u] # parent'[v]
      BY <1>2, <2>1, <2>2 DEF TableInv, RotationIsLinear
    <2>3. ASSUME NEW u \in Tokens
          PROVE  u \in revoked' <=> \E v \in Tokens : parent'[v] = u /\ grant'[v] = grant'[u]
      <3>1. CASE u = t
        BY <1>1, <1>2, <3>1 DEF TableInv
      <3>2. CASE u = old
        BY <1>1, <1>2, <3>2
      <3>3. CASE u # t /\ u # old
        <4>1. u \in revoked <=> \E v \in Tokens : parent[v] = u /\ grant[v] = grant[u]
          BY DEF TableInv, RotationIsLinear
        <4>2. parent[t] # u /\ parent'[t] # u
          BY <1>1, <1>2, <3>3, TokenAssumption DEF TableInv, Rows
        <4> QED
          BY <1>2, <3>3, <4>1, <4>2
      <3> QED
        BY <3>1, <3>2, <3>3
    <2> QED
      BY <2>2, <2>3 DEF RotationIsLinear
  <1>9. ConsumedMeansIssued'
    <2> SUFFICES ASSUME NEW d \in Codes, seeds[d] > 0
                 PROVE  d \in consumed' <=>
                          \E u \in Tokens : grant'[u] = [code |-> d, seed |-> seeds[d]]
      BY DEF ConsumedMeansIssued
    <2>1. d \in consumed <=> \E u \in Tokens : grant[u] = [code |-> d, seed |-> seeds[d]]
      BY DEF TableInv, ConsumedMeansIssued
    <2>2. grant[t] # [code |-> d, seed |-> seeds[d]]
      <3>1. [code |-> d, seed |-> seeds[d]] \in Grants
        BY DEF TableInv, TableTypeOK, Grants
      <3> QED
        BY <1>2, <3>1, TokenAssumption
    <2> QED
      BY <1>1, <1>2, <2>1, <2>2
  <1> QED
    BY <1>3, <1>5, <1>6, <1>7, <1>8, <1>9, <1>10 DEF TableInv

\* A code is saved again: no token has the new issue yet.
LEMMA SeedTableInv ==
  ASSUME TableInv, NEW c \in Codes, SaveOAuthAuthorizationCode(c)
  PROVE  TableInv'
  <1>1. /\ seeds' = [seeds EXCEPT ![c] = seeds[c] + 1]
        /\ seeds[c] < MaxSeeds
        /\ consumed' = consumed \ {c}
        /\ UNCHANGED <<grant, parent, revoked>>
    BY DEF SaveOAuthAuthorizationCode
  <1>2. /\ \A d \in Codes : seeds'[d] = IF d = c THEN seeds[c] + 1 ELSE seeds[d]
        /\ \A d \in Codes : seeds[d] \in Nat
    BY <1>1, TokenAssumption DEF TableInv, TableTypeOK
  <1>3. TableTypeOK'
    BY <1>1, TokenAssumption DEF TableInv, TableTypeOK
  <1>4. \A t \in Tokens : grant[t] # None => grant[t].seed \in 1..seeds'[grant[t].code]
    BY <1>2 DEF TableInv, TableTypeOK, Grants
  <1>5. ConsumedMeansIssued'
    <2> SUFFICES ASSUME NEW d \in Codes, seeds'[d] > 0
                 PROVE  d \in consumed' <=>
                          \E t \in Tokens : grant[t] = [code |-> d, seed |-> seeds'[d]]
      BY <1>1 DEF ConsumedMeansIssued
    <2>1. CASE d = c
      <3>1. ASSUME NEW t \in Tokens, grant[t] = [code |-> c, seed |-> seeds[c] + 1]
            PROVE  FALSE
        <4>1. grant[t] \in Grants
          BY <1>2, <3>1 DEF Grants
        <4>2. seeds[c] + 1 \in 1..seeds[c]
          BY <3>1, <4>1, TokenAssumption DEF TableInv
        <4> QED
          BY <1>2, <4>2
      <3> QED
        BY <1>1, <1>2, <2>1, <3>1
    <2>2. CASE d # c
      BY <1>1, <1>2, <2>2 DEF TableInv, ConsumedMeansIssued
    <2> QED
      BY <2>1, <2>2
  <1> QED
    BY <1>1, <1>3, <1>4, <1>5
    DEF TableInv, NoTwoLive, SomeLive, Live, RotationIsLinear

LEMMA SameTableInv ==
  ASSUME TableInv, UNCHANGED <<seeds, consumed, grant, parent, revoked>>
  PROVE  TableInv'
  BY DEF TableInv, TableTypeOK, NoTwoLive, SomeLive, Live, RotationIsLinear,
         ConsumedMeansIssued

-----------------------------------------------------------------------------
(* The requests *)

\* A request ends and its lock with it.  What the others wait for still exists
\* and what they have locked is still unspent.
LEMMA FinishRequestInv ==
  ASSUME RequestInv, NEW r \in Requests, Finish(r), UNCHANGED expired,
         lock' \in [Rows -> Requests \cup {None}],
         \A x \in Rows : lock'[x] = IF lock[x] = r THEN None ELSE lock[x],
         \A x \in Rows : Exists(x) => Exists(x)',
         \A x \in Rows : ~Spent(x) /\ lock[x] # r => ~Spent(x)'
  PROVE  RequestInv'
  <1>1. /\ RequestTypeOK
        /\ \A q \in Requests : pc'[q] = IF q = r THEN "idle" ELSE pc[q]
        /\ \A q \in Requests : source'[q] = IF q = r THEN None ELSE source[q]
    BY DEF RequestInv, RequestTypeOK, Finish
  <1>2. RequestTypeOK'
    BY DEF RequestInv, RequestTypeOK, Finish
  <1>3. \A q \in Requests : pc'[q] # "idle" => source'[q] \in Rows /\ Exists(source[q])'
    <2> SUFFICES ASSUME NEW q \in Requests, pc'[q] # "idle"
                 PROVE  source'[q] \in Rows /\ Exists(source[q])'
      OBVIOUS
    <2>1. pc[q] # "idle" /\ source'[q] = source[q]
      BY <1>1
    <2>2. source[q] \in Rows /\ Exists(source[q])
      BY <2>1 DEF RequestInv
    <2>3. ASSUME NEW y \in Rows, y = source'[q], Exists(y)' PROVE Exists(source[q])'
      BY <2>3 DEF Exists
    <2> QED
      BY <2>1, <2>2, <2>3
  <1>4. \A q \in Requests, x \in Rows : lock'[x] = q <=> pc'[q] = "write" /\ source'[q] = x
    BY <1>1, TokenAssumption DEF RequestInv
  <1>5. \A q \in Requests : pc'[q] = "write" => ~Spent(source[q])'
    <2> SUFFICES ASSUME NEW q \in Requests, pc'[q] = "write"
                 PROVE  ~Spent(source[q])'
      OBVIOUS
    <2>1. q # r /\ pc[q] = "write" /\ source'[q] = source[q]
      BY <1>1
    <2>2. source[q] \in Rows /\ ~Spent(source[q]) /\ lock[source[q]] = q
      BY <2>1 DEF RequestInv
    <2>3. ASSUME NEW y \in Rows, y = source'[q], ~Spent(y)' PROVE ~Spent(source[q])'
      BY <2>3 DEF Spent
    <2> QED
      BY <2>1, <2>2, <2>3
  <1> QED
    BY <1>2, <1>3, <1>4, <1>5 DEF RequestInv

\* An insert makes no row absent.
LEMMA InsertKeepsRows ==
  ASSUME TableInv, NEW t \in Tokens, NEW g \in Grants, NEW x, Insert(t, g, x),
         UNCHANGED seeds
  PROVE  \A y \in Rows : Exists(y) => Exists(y)'
  BY TokenAssumption DEF Insert, Exists, TableInv, TableTypeOK, Rows

\* Releasing the lock a writing request holds.
LEMMA UnlockReleases ==
  ASSUME RequestInv, NEW r \in Requests, pc[r] = "write", Unlock(r)
  PROVE  /\ lock' \in [Rows -> Requests \cup {None}]
         /\ \A x \in Rows : lock'[x] = IF lock[x] = r THEN None ELSE lock[x]
  BY DEF RequestInv, RequestTypeOK, Unlock

LEMMA ExchangeInv ==
  ASSUME TokenInv, NEW r \in Requests, ExchangeOAuthAuthorizationCode(r)
  PROVE  TokenInv'
  <1> DEFINE c == source[r]
  <1>1. /\ pc[r] = "write"
        /\ c \in Codes
        /\ consumed' = consumed \cup {c}
        /\ Unlock(r)
        /\ Finish(r)
        /\ UNCHANGED <<seeds, revoked, expired>>
    BY DEF ExchangeOAuthAuthorizationCode
  <1>2. PICK t \in Tokens : Insert(t, [code |-> c, seed |-> seeds[c]], c)
    BY DEF ExchangeOAuthAuthorizationCode
  <1>3. /\ c \in Rows
        /\ seeds[c] > 0
        /\ c \notin consumed
        /\ lock[c] = r
    BY <1>1 DEF TokenInv, RequestInv, Exists, Spent
  <1>4. [code |-> c, seed |-> seeds[c]] \in Grants
    BY <1>1 DEF TokenInv, TableInv, TableTypeOK, Grants
  <1>5. TableInv'
    BY <1>1, <1>2, <1>3, ExchangeTableInv DEF TokenInv
  <1>6. \A x \in Rows : Exists(x) => Exists(x)'
    BY <1>1, <1>2, <1>4, InsertKeepsRows DEF TokenInv
  <1>7. \A x \in Rows : ~Spent(x) /\ lock[x] # r => ~Spent(x)'
    BY <1>1, <1>3 DEF Spent
  <1>8. /\ lock' \in [Rows -> Requests \cup {None}]
        /\ \A x \in Rows : lock'[x] = IF lock[x] = r THEN None ELSE lock[x]
    BY <1>1, UnlockReleases DEF TokenInv
  <1>9. RequestInv'
    BY <1>1, <1>6, <1>7, <1>8, FinishRequestInv DEF TokenInv
  <1> QED
    BY <1>5, <1>9 DEF TokenInv

LEMMA RotateInv ==
  ASSUME TokenInv, NEW r \in Requests, ExchangeOAuthRefreshToken(r)
  PROVE  TokenInv'
  <1> DEFINE old == source[r]
  <1>1. /\ pc[r] = "write"
        /\ old \in Tokens
        /\ revoked' = revoked \cup {old}
        /\ Unlock(r)
        /\ Finish(r)
        /\ UNCHANGED <<seeds, consumed, expired>>
    BY DEF ExchangeOAuthRefreshToken
  <1>2. PICK t \in Tokens : Insert(t, grant[old], old)
    BY DEF ExchangeOAuthRefreshToken
  <1>3. /\ old \in Rows
        /\ old \notin Codes
        /\ grant[old] # None
        /\ old \notin revoked
        /\ lock[old] = r
    BY <1>1, TokenAssumption DEF TokenInv, RequestInv, Exists, Spent
  <1>4. grant[old] \in Grants
    BY <1>1, <1>3 DEF TokenInv, TableInv, TableTypeOK
  <1>5. TableInv'
    BY <1>1, <1>2, <1>3, RotateTableInv DEF TokenInv
  <1>6. \A x \in Rows : Exists(x) => Exists(x)'
    BY <1>1, <1>2, <1>4, InsertKeepsRows DEF TokenInv
  <1>7. \A x \in Rows : ~Spent(x) /\ lock[x] # r => ~Spent(x)'
    BY <1>1, <1>3 DEF Spent
  <1>8. /\ lock' \in [Rows -> Requests \cup {None}]
        /\ \A x \in Rows : lock'[x] = IF lock[x] = r THEN None ELSE lock[x]
    BY <1>1, UnlockReleases DEF TokenInv
  <1>9. RequestInv'
    BY <1>1, <1>6, <1>7, <1>8, FinishRequestInv DEF TokenInv
  <1> QED
    BY <1>5, <1>9 DEF TokenInv

\* The steps that leave the tables alone.
LEMMA ReadInv ==
  ASSUME TokenInv, NEW r \in Requests,
         ReadAccepts(r) \/ ReadRefuses(r) \/ Fail(r) \/ \E x \in Rows : ExchangeOAuthToken(r, x)
  PROVE  TokenInv'
  <1>1. UNCHANGED <<seeds, consumed, grant, parent, revoked, expired>>
    BY DEF ReadAccepts, ReadRefuses, Fail, ExchangeOAuthToken
  <1>2. TableInv'
    BY <1>1, SameTableInv DEF TokenInv
  <1>3. \A x \in Rows : /\ Exists(x) => Exists(x)'
                        /\ ~Spent(x) => ~Spent(x)'
    BY <1>1 DEF Exists, Spent
  <1>4. RequestInv /\ RequestTypeOK
    BY DEF TokenInv, RequestInv
  <1>5. CASE ReadAccepts(r)
    BY <1>1, <1>2, <1>4, <1>5, TokenAssumption
    DEF ReadAccepts, RowFree, Exchangeable, TokenInv, RequestInv, RequestTypeOK, Exists, Spent
  <1>6. CASE ReadRefuses(r)
    <2>1. /\ Finish(r)
          /\ lock' = lock
          /\ pc[r] = "read"
      BY <1>6 DEF ReadRefuses
    <2>2. /\ lock' \in [Rows -> Requests \cup {None}]
          /\ \A x \in Rows : lock'[x] = IF lock[x] = r THEN None ELSE lock[x]
      BY <1>4, <2>1 DEF RequestInv, RequestTypeOK
    <2> QED
      BY <1>1, <1>2, <1>3, <1>4, <2>1, <2>2, FinishRequestInv DEF TokenInv
  <1>7. CASE Fail(r)
    <2>1. /\ Finish(r)
          /\ lock' = [x \in Rows |-> IF lock[x] = r THEN None ELSE lock[x]]
      BY <1>7 DEF Fail
    <2>2. /\ lock' \in [Rows -> Requests \cup {None}]
          /\ \A x \in Rows : lock'[x] = IF lock[x] = r THEN None ELSE lock[x]
      BY <1>4, <2>1 DEF RequestTypeOK
    <2> QED
      BY <1>1, <1>2, <1>3, <1>4, <2>1, <2>2, FinishRequestInv DEF TokenInv
  <1>8. ASSUME NEW x \in Rows, ExchangeOAuthToken(r, x)
        PROVE  TokenInv'
    BY <1>1, <1>2, <1>4, <1>8
    DEF ExchangeOAuthToken, TokenInv, RequestInv, RequestTypeOK, Exists, Spent
  <1> QED
    BY <1>5, <1>6, <1>7, <1>8

LEMMA SeedInv ==
  ASSUME TokenInv, NEW c \in Codes, SaveOAuthAuthorizationCode(c)
  PROVE  TokenInv'
  <1>1. TableInv'
    BY SeedTableInv DEF TokenInv
  <1>2. \A x \in Rows : /\ Exists(x) => Exists(x)'
                        /\ ~Spent(x) => ~Spent(x)'
    BY TokenAssumption
    DEF SaveOAuthAuthorizationCode, TokenInv, TableInv, TableTypeOK, Exists, Spent
  <1>3. UNCHANGED <<expired, lock, pc, source, inTime>>
    BY DEF SaveOAuthAuthorizationCode
  <1>4. RequestTypeOK'
    BY <1>3 DEF TokenInv, RequestInv, RequestTypeOK
  <1>5. \A r \in Requests : /\ pc'[r] # "idle" => source'[r] \in Rows /\ Exists(source[r])'
                            /\ pc'[r] = "write" => ~Spent(source[r])'
    BY <1>2, <1>3 DEF TokenInv, RequestInv
  <1>6. RequestInv'
    BY <1>3, <1>4, <1>5 DEF TokenInv, RequestInv
  <1> QED
    BY <1>1, <1>6 DEF TokenInv

LEMMA ExpireInv ==
  ASSUME TokenInv, UNCHANGED <<seeds, consumed, grant, parent, revoked, lock, pc, source, inTime>>,
         expired' \subseteq Rows
  PROVE  TokenInv'
  <1>1. TableInv'
    BY SameTableInv DEF TokenInv
  <1>2. RequestInv'
    BY DEF TokenInv, RequestInv, RequestTypeOK, Exists, Spent
  <1> QED
    BY <1>1, <1>2 DEF TokenInv

LEMMA InitTokenInv == Init => TokenInv
  <1> SUFFICES ASSUME Init
               PROVE  TokenInv
    OBVIOUS
  <1>1. TableInv
    BY TokenAssumption
    DEF Init, TableInv, TableTypeOK, NoTwoLive, SomeLive, Live, RotationIsLinear,
        ConsumedMeansIssued, Rows
  <1>2. RequestInv
    BY TokenAssumption DEF Init, RequestInv, RequestTypeOK, Exists, Spent
  <1> QED
    BY <1>1, <1>2 DEF TokenInv

-----------------------------------------------------------------------------
(* Theorems *)

\* The invariant holds in every reachable state.
THEOREM TokenInvariance == Spec => []TokenInv
  <1>1. TokenInv /\ [Next]_vars => TokenInv'
    <2> SUFFICES ASSUME TokenInv, [Next]_vars
                 PROVE  TokenInv'
      OBVIOUS
    <2>1. ASSUME NEW c \in Codes, SaveOAuthAuthorizationCode(c)
          PROVE  TokenInv'
      BY <2>1, SeedInv
    <2>2. ASSUME NEW x \in Rows, Expire(x)
          PROVE  TokenInv'
      <3>1. expired' \subseteq Rows
        BY <2>2 DEF Expire, TokenInv, RequestInv, RequestTypeOK
      <3> QED
        BY <2>2, <3>1, ExpireInv DEF Expire
    <2>3. ASSUME NEW r \in Requests, NEW x \in Rows, ExchangeOAuthToken(r, x)
          PROVE  TokenInv'
      BY <2>3, ReadInv
    <2>4. ASSUME NEW r \in Requests, ReadAccepts(r) \/ ReadRefuses(r) \/ Fail(r)
          PROVE  TokenInv'
      BY <2>4, ReadInv
    <2>5. ASSUME NEW r \in Requests, ExchangeOAuthAuthorizationCode(r)
          PROVE  TokenInv'
      BY <2>5, ExchangeInv
    <2>6. ASSUME NEW r \in Requests, ExchangeOAuthRefreshToken(r)
          PROVE  TokenInv'
      BY <2>6, RotateInv
    <2>7. CASE UNCHANGED vars
      <3>1. expired' \subseteq Rows
        BY <2>7 DEF vars, TokenInv, RequestInv, RequestTypeOK
      <3> QED
        BY <2>7, <3>1, ExpireInv DEF vars
    <2> QED
      BY <2>1, <2>2, <2>3, <2>4, <2>5, <2>6, <2>7 DEF Next
  <1> QED
    BY <1>1, InitTokenInv, PTL DEF Spec

\* Types.
THEOREM TokensTypeCorrect == Spec => []TokensTypeOK
  <1>1. TokenInv => TokensTypeOK
    BY DEF TokenInv, TableInv, RequestInv, TableTypeOK, RequestTypeOK, TokensTypeOK
  <1> QED
    BY <1>1, TokenInvariance, PTL

LEMMA ExactlyOneLive == NoTwoLive /\ SomeLive => OneLiveTokenPerGrant
  <1> SUFFICES ASSUME NoTwoLive, SomeLive, NEW t \in Tokens, grant[t] # None
               PROVE  \E u \in Tokens : {v \in Tokens : Live(v) /\ grant[v] = grant[t]} = {u}
    BY DEF OneLiveTokenPerGrant
  <1>1. PICK u \in Tokens : Live(u) /\ grant[u] = grant[t]
    BY DEF SomeLive
  <1>2. \A v \in Tokens : Live(v) /\ grant[v] = grant[t] => v = u
    BY <1>1 DEF NoTwoLive
  <1>3. {v \in Tokens : Live(v) /\ grant[v] = grant[t]} = {u}
    BY <1>1, <1>2
  <1> QED
    BY <1>3

\* However many requests present the same code or refresh tokens, and whatever
\* fails, a grant has exactly one usable row.
THEOREM OneLiveToken == Spec => []OneLiveTokenPerGrant
  <1>1. TokenInv => OneLiveTokenPerGrant
    BY ExactlyOneLive DEF TokenInv, TableInv
  <1> QED
    BY <1>1, TokenInvariance, PTL DEF Spec

\* A usable row stops being usable only in the step that inserts its successor,
\* of the same grant: no other step ends the access of a client.
TokensPassOn ==
    [][\A t \in Tokens : Live(t) /\ ~Live(t)' =>
         \E u \in Tokens : /\ grant[u] = None
                           /\ parent'[u] = t
                           /\ grant'[u] = grant[t]
                           /\ Live(u)']_vars

\* The rows of a grant form one chain of rotations.
THEOREM LinearRotation == Spec => []RotationIsLinear
  <1>1. TokenInv => RotationIsLinear
    BY DEF TokenInv, TableInv
  <1> QED
    BY <1>1, TokenInvariance, PTL

\* A code is consumed exactly when its current issue has yielded a token.
THEOREM CodeBuysToken == Spec => []ConsumedMeansIssued
  <1>1. TokenInv => ConsumedMeansIssued
    BY DEF TokenInv, TableInv
  <1> QED
    BY <1>1, TokenInvariance, PTL

\* A usable row ends only when it is handed on.
THEOREM RotationHandsOn == Spec => TokensPassOn
  <1> DEFINE HandedOn == \A t \in Tokens : Live(t) /\ ~Live(t)' =>
                           \E u \in Tokens : /\ grant[u] = None
                                             /\ parent'[u] = t
                                             /\ grant'[u] = grant[t]
                                             /\ Live(u)'
  <1>1. TokenInv /\ [Next]_vars => HandedOn
    <2> SUFFICES ASSUME TokenInv, [Next]_vars, NEW t \in Tokens, Live(t), ~Live(t)'
                 PROVE  \E u \in Tokens : /\ grant[u] = None
                                          /\ parent'[u] = t
                                          /\ grant'[u] = grant[t]
                                          /\ Live(u)'
      OBVIOUS
    <2>1. PICK r \in Requests :
             ExchangeOAuthAuthorizationCode(r) \/ ExchangeOAuthRefreshToken(r)
      BY DEF Next, vars, Live, SaveOAuthAuthorizationCode, Expire, ExchangeOAuthToken,
             ReadAccepts, ReadRefuses, Fail
    <2>2. grant \in [Tokens -> Grants \cup {None}] /\ parent \in [Tokens -> Rows \cup {None}]
      BY DEF TokenInv, TableInv, TableTypeOK
    <2>3. CASE ExchangeOAuthAuthorizationCode(r)
      BY <2>2, <2>3 DEF ExchangeOAuthAuthorizationCode, Insert, Live
    <2>4. CASE ExchangeOAuthRefreshToken(r)
      <3>1. /\ source[r] \in Tokens
            /\ revoked' = revoked \cup {source[r]}
        BY <2>4 DEF ExchangeOAuthRefreshToken
      <3>2. PICK u \in Tokens : Insert(u, grant[source[r]], source[r])
        BY <2>4 DEF ExchangeOAuthRefreshToken
      <3>3. t = source[r]
        BY <2>2, <3>1, <3>2 DEF Insert, Live
      <3>4. /\ grant[u] = None /\ parent'[u] = t /\ grant'[u] = grant[t]
            /\ u # t
        BY <2>2, <3>2, <3>3 DEF Insert, Live
      <3>5. u \notin revoked
        BY <3>4 DEF TokenInv, TableInv
      <3> QED
        BY <3>1, <3>3, <3>4, <3>5 DEF Live
    <2> QED
      BY <2>1, <2>3, <2>4
  <1> HIDE DEF HandedOn
  <1>2. Spec => [][HandedOn]_vars
    BY <1>1, TokenInvariance, PTL DEF Spec
  <1> QED
    BY <1>2 DEF TokensPassOn, HandedOn

-----------------------------------------------------------------------------
(* Refinement *)

\* A new row for one grant, seen through LiveTokens.
LEMMA InsertIsGiven ==
  ASSUME TableInv, NEW t \in Tokens, NEW g \in Grants, NEW x, Insert(t, g, x)
  PROVE  /\ t \in Tokens \ GivenTokens
         /\ GivenTokens' = GivenTokens \cup {t}
         /\ \A u \in Tokens : grant'[u] = IF u = t THEN g ELSE grant[u]
         /\ t \notin revoked
  BY TokenAssumption DEF TableInv, TableTypeOK, Insert, GivenTokens

\* The commit of an exchange is the exchange of the service with the mutex.
LEMMA ExchangeRefines ==
  ASSUME TokenInv, NEW r \in Requests, ExchangeOAuthAuthorizationCode(r)
  PROVE  Memory!Next
  <1> DEFINE c == source[r]
             g == [code |-> c, seed |-> seeds[c]]
  <1>1. /\ pc[r] = "write"
        /\ c \in Codes
        /\ consumed' = consumed \cup {c}
        /\ UNCHANGED <<seeds, revoked>>
    BY DEF ExchangeOAuthAuthorizationCode
  <1>2. PICK t \in Tokens : Insert(t, g, c)
    BY DEF ExchangeOAuthAuthorizationCode
  <1>3. g \in Grants
    BY <1>1 DEF TokenInv, TableInv, TableTypeOK, Grants
  <1>4. /\ t \in Tokens \ GivenTokens
        /\ GivenTokens' = GivenTokens \cup {t}
        /\ \A u \in Tokens : grant'[u] = IF u = t THEN g ELSE grant[u]
        /\ t \notin revoked
    BY <1>2, <1>3, InsertIsGiven DEF TokenInv
  <1>5. c \in OpenCodes
    BY <1>1 DEF TokenInv, RequestInv, Exists, Spent, OpenCodes
  <1>6. OpenCodes' = OpenCodes \ {c}
    BY <1>1 DEF OpenCodes
  <1>7. LiveTokens' = [LiveTokens EXCEPT ![t] = g]
    BY <1>1, <1>4 DEF LiveTokens
  <1> QED
    BY <1>1, <1>4, <1>5, <1>6, <1>7
    DEF Memory!Next, Memory!ExchangeFixtureOAuthAuthorizationCode

\* The commit of a rotation.
LEMMA RotateRefines ==
  ASSUME TokenInv, NEW r \in Requests, ExchangeOAuthRefreshToken(r)
  PROVE  Memory!Next
  <1> DEFINE old == source[r]
  <1>1. /\ pc[r] = "write"
        /\ old \in Tokens
        /\ revoked' = revoked \cup {old}
        /\ UNCHANGED <<seeds, consumed>>
    BY DEF ExchangeOAuthRefreshToken
  <1>2. PICK t \in Tokens : Insert(t, grant[old], old)
    BY DEF ExchangeOAuthRefreshToken
  <1>3. old \notin Codes /\ grant[old] # None /\ old \notin revoked
    BY <1>1, TokenAssumption DEF TokenInv, RequestInv, Exists, Spent
  <1>4. grant[old] \in Grants
    BY <1>1, <1>3 DEF TokenInv, TableInv, TableTypeOK
  <1>5. /\ t \in Tokens \ GivenTokens
        /\ GivenTokens' = GivenTokens \cup {t}
        /\ \A u \in Tokens : grant'[u] = IF u = t THEN grant[old] ELSE grant[u]
        /\ t \notin revoked
    BY <1>2, <1>4, InsertIsGiven DEF TokenInv
  <1>6. t # old
    BY <1>1, <1>3, <1>5 DEF GivenTokens
  <1>7. LiveTokens[old] = grant[old]
    BY <1>1, <1>3 DEF LiveTokens
  <1>8. LiveTokens' = [LiveTokens EXCEPT ![old] = None, ![t] = LiveTokens[old]]
    BY <1>1, <1>3, <1>5, <1>6, <1>7 DEF LiveTokens
  <1>9. UNCHANGED <<seeds, OpenCodes>>
    BY <1>1 DEF OpenCodes
  <1> QED
    BY <1>1, <1>3, <1>5, <1>7, <1>8, <1>9
    DEF Memory!Next, Memory!ExchangeFixtureOAuthRefreshToken

\* A start of the API is a start of the service that finds its tokens again.
LEMMA SeedRefines ==
  ASSUME TokenInv, NEW c \in Codes, SaveOAuthAuthorizationCode(c)
  PROVE  Memory!Next
  <1>1. /\ seeds' = [seeds EXCEPT ![c] = @ + 1]
        /\ consumed' = consumed \ {c}
        /\ UNCHANGED <<grant, revoked>>
        /\ seeds \in [Codes -> Nat]
    BY TokenAssumption DEF SaveOAuthAuthorizationCode, TokenInv, TableInv, TableTypeOK
  <1>2. OpenCodes' = OpenCodes \cup {c}
    BY <1>1 DEF OpenCodes
  <1>3. UNCHANGED <<LiveTokens, GivenTokens>>
    BY <1>1 DEF LiveTokens, GivenTokens
  <1>4. LiveTokens' = [t \in Tokens |-> IF t \in Tokens THEN LiveTokens[t] ELSE None]
    BY <1>3 DEF LiveTokens
  <1> QED
    BY <1>1, <1>2, <1>3, <1>4 DEF Memory!Next, Memory!NewService

\* The tables, whoever works on them, implement the service that one mutex guards.
THEOREM TablesImplementService == Spec => ImplementsTokenService
  <1>1. Init => Memory!Init
    BY DEF Init, Memory!Init, OpenCodes, LiveTokens, GivenTokens
  <1>2. TokenInv /\ [Next]_vars => [Memory!Next]_Memory!vars
    <2> SUFFICES ASSUME TokenInv, [Next]_vars
                 PROVE  Memory!Next \/ UNCHANGED Memory!vars
      OBVIOUS
    <2>1. ASSUME UNCHANGED <<seeds, consumed, grant, parent, revoked>>
          PROVE  UNCHANGED Memory!vars
      BY <2>1 DEF Memory!vars, OpenCodes, LiveTokens, GivenTokens
    <2>2. ASSUME NEW c \in Codes, SaveOAuthAuthorizationCode(c)
          PROVE  Memory!Next
      BY <2>2, SeedRefines
    <2>3. ASSUME NEW r \in Requests, ExchangeOAuthAuthorizationCode(r)
          PROVE  Memory!Next
      BY <2>3, ExchangeRefines
    <2>4. ASSUME NEW r \in Requests, ExchangeOAuthRefreshToken(r)
          PROVE  Memory!Next
      BY <2>4, RotateRefines
    <2>5. ASSUME NEW x \in Rows, Expire(x)
          PROVE  UNCHANGED Memory!vars
      BY <2>1, <2>5 DEF Expire
    <2>6. ASSUME NEW r \in Requests,
                 ReadAccepts(r) \/ ReadRefuses(r) \/ Fail(r)
                   \/ \E x \in Rows : ExchangeOAuthToken(r, x)
          PROVE  UNCHANGED Memory!vars
      BY <2>1, <2>6 DEF ReadAccepts, ReadRefuses, Fail, ExchangeOAuthToken
    <2>7. CASE UNCHANGED vars
      BY <2>1, <2>7 DEF vars
    <2> QED
      BY <2>2, <2>3, <2>4, <2>5, <2>6, <2>7 DEF Next
  <1> QED
    BY <1>1, <1>2, TokenInvariance, PTL DEF Spec, ImplementsTokenService, Memory!Spec
=============================================================================
