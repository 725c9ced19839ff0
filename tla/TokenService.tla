----------------------------- MODULE TokenService -----------------------------
(***************************************************************************)
(* auth.Service without a repository: codes and tokens are maps of one     *)
(* process, and its mutex makes every exchange one step.  It is what the   *)
(* token endpoint promises a client; OAuthTokens, where requests of many   *)
(* processes share tables and locks, is shown to implement it.             *)
(*                                                                         *)
(* A token stands for an access token and its refresh token, which enter   *)
(* and leave their two maps together.  Expiry only refuses a request and   *)
(* is left to OAuthTokens.                                                 *)
(***************************************************************************)
EXTENDS Naturals

CONSTANTS
    Codes,   \* authorization codes
    Tokens,  \* pairs of an access and a refresh token that may be generated
    None     \* no grant

VARIABLES
    issue,   \* issue[c]: how often code c was handed to a service
    codes,   \* keys of fixtureOAuthCodes
    tokens,  \* tokens[t]: the code and issue of t in fixtureOAuthTokens and
             \* fixtureOAuthRefresh, or None
    given    \* tokens that were generated; randomOAuthToken repeats none

vars == <<issue, codes, tokens, given>>

Init ==
    /\ issue = [c \in Codes |-> 0]
    /\ codes = {}
    /\ tokens = [t \in Tokens |-> None]
    /\ given = {}

\* A start offers the code again.  A new process has no tokens; of a service
\* that stores them it may find any again.
NewService(c) ==
    /\ issue' = [issue EXCEPT ![c] = @ + 1]
    /\ codes' = codes \cup {c}
    /\ \E kept \in SUBSET Tokens :
          tokens' = [t \in Tokens |-> IF t \in kept THEN tokens[t] ELSE None]
    /\ UNCHANGED given

\* The code leaves its map before the tokens are generated: if that fails, the
\* client has neither.
ExchangeFixtureOAuthAuthorizationCode(c) ==
    /\ c \in codes
    /\ codes' = codes \ {c}
    /\ \/ UNCHANGED <<tokens, given>>
       \/ \E t \in Tokens \ given :
             /\ tokens' = [tokens EXCEPT ![t] = [code |-> c, seed |-> issue[c]]]
             /\ given' = given \cup {t}
    /\ UNCHANGED issue

ExchangeFixtureOAuthRefreshToken(old) ==
    /\ tokens[old] # None
    /\ \/ tokens' = [tokens EXCEPT ![old] = None] /\ UNCHANGED given
       \/ \E t \in Tokens \ given :
             /\ tokens' = [tokens EXCEPT ![old] = None, ![t] = tokens[old]]
             /\ given' = given \cup {t}
    /\ UNCHANGED <<issue, codes>>

Next ==
    \/ \E c \in Codes : NewService(c) \/ ExchangeFixtureOAuthAuthorizationCode(c)
    \/ \E old \in Tokens : ExchangeFixtureOAuthRefreshToken(old)

Spec == Init /\ [][Next]_vars
=============================================================================
