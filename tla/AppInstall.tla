------------------------------ MODULE AppInstall ------------------------------
(***************************************************************************)
(* apps.Store over apps.PostgresRepository: how a user installs an app     *)
(* through an external provider.  An install intent asks for a handoff     *)
(* session (the opaque state given to the provider); the session is        *)
(* consumed, a callback is recorded for it, then a provider exchange, then *)
(* the completion and the installation of the intent.  A process holds     *)
(* Store.mu for a whole operation and keeps no row in memory, but an       *)
(* operation reads the intent on one connection and writes in a later      *)
(* transaction: another process may act in between.                        *)
(*                                                                         *)
(* A request that names an intent of another user, or a session of another *)
(* intent, finds no row and changes nothing.  The app catalog is fixed.    *)
(***************************************************************************)
EXTENDS Naturals

CONSTANTS
    Procs,     \* API and worker processes that share the database
    Intents,   \* install_intent_ref values
    Sessions,  \* handoff_state_ref values
    None       \* no intent, no session

ASSUME InstallAssumption ==
    /\ None \notin Intents
    /\ None \notin Sessions

VARIABLES
    intent,      \* intent[i]: status of the intent, "absent" before its row
    owner,       \* owner[s]: the intent session s was created for, or None
    expired,     \* sessions whose expires_at has passed
    consumed,    \* sessions with consumed_at
    previews,    \* sessions with an authorization preview
    callback,    \* callback[s]: callback_status of its preflight, or "none"
    exchange,    \* exchange[s]: exchange_status of that preflight, or "none"
    secrets,     \* sessions whose provider tokens are stored
    credentials, \* sessions whose credential metadata is stored
    completion,  \* completion[i]: completion_status, or "none"
    completedBy, \* completedBy[i]: session of the completed exchange, or None
    installed,   \* intents with an installation
    pc,          \* pc[p]: the next database or provider step of p
    job          \* job[p]: the session p works on and whether it was unexpired

tables == <<intent, owner, expired, consumed, previews, callback, exchange,
            secrets, credentials, completion, completedBy, installed>>
vars == <<tables, pc, job>>

NoJob == [session |-> None, intent |-> None, fresh |-> FALSE]

Init ==
    /\ intent = [i \in Intents |-> "absent"]
    /\ owner = [s \in Sessions |-> None]
    /\ expired = {}
    /\ consumed = {}
    /\ previews = {}
    /\ callback = [s \in Sessions |-> "none"]
    /\ exchange = [s \in Sessions |-> "none"]
    /\ secrets = {}
    /\ credentials = {}
    /\ completion = [i \in Intents |-> "none"]
    /\ completedBy = [i \in Intents |-> None]
    /\ installed = {}
    /\ pc = [p \in Procs |-> "idle"]
    /\ job = [p \in Procs |-> NoJob]

-----------------------------------------------------------------------------
(* Steps of a process *)

Idle(p) == pc[p] = "idle"

Goto(p, step) ==
    /\ pc' = [pc EXCEPT ![p] = step]
    /\ UNCHANGED job

Return(p) ==
    /\ pc' = [pc EXCEPT ![p] = "idle"]
    /\ job' = [job EXCEPT ![p] = NoJob]

\* findInstallIntentLocked finds the intent waiting for external auth; Store.now
\* is read at the same time, for the expiry check of the transaction.
IntentReady(i) == intent[i] = "requires_external_auth"

Start(p, step, i, s) ==
    /\ Idle(p)
    /\ IntentReady(i)
    /\ pc' = [pc EXCEPT ![p] = step]
    /\ job' = [job EXCEPT ![p] =
                 [session |-> s, intent |-> i, fresh |-> s \notin expired]]
    /\ UNCHANGED tables

StartForSession(p, step, s) ==
    /\ owner[s] # None
    /\ Start(p, step, owner[s], s)

-----------------------------------------------------------------------------
(* The intent *)

CreateInstallIntent(p, i) ==
    /\ Idle(p)
    /\ intent[i] = "absent"
    /\ intent' = [intent EXCEPT ![i] = "pending"]
    /\ UNCHANGED <<owner, expired, consumed, previews, callback, exchange, secrets,
                   credentials, completion, completedBy, installed, pc, job>>

\* Mutant of MayRequireAuth: the update has no condition on the status.
MayRequireAuthAlways(status) == status # "absent"

MayRequireAuth(status) == status \in {"pending", "requires_external_auth"}

MarkInstallIntentRequiresExternalAuth(p, i) ==
    /\ Idle(p)
    /\ MayRequireAuth(intent[i])
    /\ intent' = [intent EXCEPT ![i] = "requires_external_auth"]
    /\ UNCHANGED <<owner, expired, consumed, previews, callback, exchange, secrets,
                   credentials, completion, completedBy, installed, pc, job>>

-----------------------------------------------------------------------------
(* The handoff session *)

\* ReadExternalAuthDescriptor creates a session each time it is called.
StartDescriptor(p, i) == Start(p, "saveSession", i, None)

SaveExternalAuthSession(p) ==
    /\ pc[p] = "saveSession"
    /\ \E s \in Sessions :
          /\ owner[s] = None
          /\ owner' = [owner EXCEPT ![s] = job[p].intent]
    /\ Return(p)
    /\ UNCHANGED <<intent, expired, consumed, previews, callback, exchange, secrets,
                   credentials, completion, completedBy, installed>>

\* Ten minutes pass.
Expire(s) ==
    /\ owner[s] # None
    /\ expired' = expired \cup {s}
    /\ UNCHANGED <<intent, owner, consumed, previews, callback, exchange, secrets,
                   credentials, completion, completedBy, installed, pc, job>>

\* One update; the intent is not looked at.
ConsumeExternalAuthSession(p, s) ==
    /\ Idle(p)
    /\ owner[s] # None
    /\ s \notin consumed \cup expired
    /\ consumed' = consumed \cup {s}
    /\ UNCHANGED <<intent, owner, expired, previews, callback, exchange, secrets,
                   credentials, completion, completedBy, installed, pc, job>>

StartPreview(p, s) == StartForSession(p, "savePreview", s)

\* Mutant of Unconsumed: "consumed_at is null" is missing.
UnconsumedOrNot(s) == TRUE

Unconsumed(s) == s \notin consumed

\* The same update, and the preview in the same transaction.
SaveExternalAuthAuthorizationPreview(p) ==
    LET s == job[p].session
    IN  /\ pc[p] = "savePreview"
        /\ job[p].fresh
        /\ Unconsumed(s)
        /\ s \notin previews
        /\ consumed' = consumed \cup {s}
        /\ previews' = previews \cup {s}
        /\ Return(p)
        /\ UNCHANGED <<intent, owner, expired, callback, exchange, secrets,
                       credentials, completion, completedBy, installed>>

StartPreflight(p, s) == StartForSession(p, "savePreflight", s)

\* An unexpired session takes one callback, whether it was consumed or not.
SaveExternalAuthCallbackPreflight(p) ==
    LET s == job[p].session
    IN  /\ pc[p] = "savePreflight"
        /\ job[p].fresh
        /\ callback[s] = "none"
        /\ \E status \in {"provider_authorized", "provider_denied"} :
              callback' = [callback EXCEPT ![s] = status]
        /\ consumed' = consumed \cup {s}
        /\ Return(p)
        /\ UNCHANGED <<intent, owner, expired, previews, exchange, secrets,
                       credentials, completion, completedBy, installed>>

-----------------------------------------------------------------------------
(* The provider exchange *)

StartExchange(p, s) ==
    /\ callback[s] # "none"
    /\ StartForSession(p, "saveExchange", s)

\* Mutant of SimulatedStatus: a denied callback is queued too.
SimulatedAlwaysQueued(status) == "queued"

SimulatedStatus(status) ==
    IF status = "provider_denied" THEN "blocked" ELSE "queued"

\* SaveExternalAuthProviderExchange in the simulated mode.
SaveSimulatedExchange(p) ==
    LET s == job[p].session
    IN  /\ pc[p] = "saveExchange"
        /\ exchange[s] = "none"
        /\ exchange' = [exchange EXCEPT ![s] = SimulatedStatus(callback[s])]
        /\ Return(p)
        /\ UNCHANGED <<intent, owner, expired, consumed, previews, callback, secrets,
                       credentials, completion, completedBy, installed>>

\* ExchangeExternalAuthProviderOAuth and HandleProviderOAuthCallback: the
\* callback, which does not change once it is there, was authorized.
StartProviderOAuth(p, s) ==
    /\ callback[s] = "provider_authorized"
    /\ StartForSession(p, "checkExchange", s)

\* hasExternalAuthProviderExchangeByPreflightLocked
CheckNotExchanged(p) ==
    /\ pc[p] = "checkExchange"
    /\ IF exchange[job[p].session] = "none" THEN Goto(p, "callProvider") ELSE Return(p)
    /\ UNCHANGED tables

\* The provider trades the authorization code for tokens.
CallProvider(p) ==
    /\ pc[p] = "callProvider"
    /\ Goto(p, "storeSecret")
    /\ UNCHANGED tables

\* Mutant of StoreTokenPayload: the metadata is written later, by nobody.
StoreTokenPayloadOnly(p) ==
    /\ pc[p] = "storeSecret"
    /\ secrets' = secrets \cup {job[p].session}
    /\ Goto(p, "saveOAuthExchange")
    /\ UNCHANGED <<intent, owner, expired, consumed, previews, callback, exchange,
                   credentials, completion, completedBy, installed>>

\* StoreProviderCredentialSecret writes the sealed tokens, then the metadata,
\* in two statements.
StoreTokenPayload(p) ==
    /\ pc[p] = "storeSecret"
    /\ secrets' = secrets \cup {job[p].session}
    /\ Goto(p, "saveMetadata")
    /\ UNCHANGED <<intent, owner, expired, consumed, previews, callback, exchange,
                   credentials, completion, completedBy, installed>>

SaveCredentialMetadata(p) ==
    /\ pc[p] = "saveMetadata"
    /\ credentials' = credentials \cup {job[p].session}
    /\ Goto(p, "saveOAuthExchange")
    /\ UNCHANGED <<intent, owner, expired, consumed, previews, callback, exchange,
                   secrets, completion, completedBy, installed>>

\* SaveExternalAuthProviderExchange in the provider_oauth mode.
SaveOAuthExchange(p) ==
    LET s == job[p].session
    IN  /\ pc[p] = "saveOAuthExchange"
        /\ exchange[s] = "none"
        /\ exchange' = [exchange EXCEPT ![s] = "credential_ready"]
        /\ Return(p)
        /\ UNCHANGED <<intent, owner, expired, consumed, previews, callback, secrets,
                       credentials, completion, completedBy, installed>>

-----------------------------------------------------------------------------
(* Completion and installation, one transaction each *)

\* Mutant of CompletionStatus: the exchange status is copied.
CompletionStatusCopied(s) == exchange[s]

CompletionStatus(s) == IF exchange[s] = "blocked" THEN "blocked" ELSE "installed"

\* Both rows are locked; one completion for an exchange and for an intent.
CompleteAppInstall(p, s) ==
    LET i == owner[s]
    IN  /\ Idle(p)
        /\ exchange[s] # "none"
        /\ completion[i] = "none"
        /\ IntentReady(i)
        /\ completion' = [completion EXCEPT ![i] = CompletionStatus(s)]
        /\ completedBy' = [completedBy EXCEPT ![i] = s]
        /\ intent' = [intent EXCEPT ![i] = CompletionStatus(s)]
        /\ UNCHANGED <<owner, expired, consumed, previews, callback, exchange,
                       secrets, credentials, installed, pc, job>>

MayActivate(i) == intent[i] = "installed" /\ completion[i] = "installed"

ActivateAppInstallation(p, i) ==
    /\ Idle(p)
    /\ MayActivate(i)
    /\ i \notin installed
    /\ installed' = installed \cup {i}
    /\ UNCHANGED <<intent, owner, expired, consumed, previews, callback, exchange,
                   secrets, credentials, completion, completedBy, pc, job>>

-----------------------------------------------------------------------------
\* The transaction refuses, a statement or the provider fails, or the process
\* dies: what was committed before stays.
Fail(p) ==
    /\ ~Idle(p)
    /\ Return(p)
    /\ UNCHANGED tables

IntentRequest(p, i) ==
    \/ CreateInstallIntent(p, i)
    \/ MarkInstallIntentRequiresExternalAuth(p, i)
    \/ StartDescriptor(p, i)
    \/ ActivateAppInstallation(p, i)

SessionRequest(p, s) ==
    \/ ConsumeExternalAuthSession(p, s)
    \/ StartPreview(p, s)
    \/ StartPreflight(p, s)
    \/ StartExchange(p, s)
    \/ StartProviderOAuth(p, s)
    \/ CompleteAppInstall(p, s)

Continue(p) ==
    \/ SaveExternalAuthSession(p)
    \/ SaveExternalAuthAuthorizationPreview(p)
    \/ SaveExternalAuthCallbackPreflight(p)
    \/ SaveSimulatedExchange(p)
    \/ CheckNotExchanged(p)
    \/ CallProvider(p)
    \/ StoreTokenPayload(p)
    \/ SaveCredentialMetadata(p)
    \/ SaveOAuthExchange(p)
    \/ Fail(p)

Next ==
    \/ \E s \in Sessions : Expire(s)
    \/ \E p \in Procs, i \in Intents : IntentRequest(p, i)
    \/ \E p \in Procs, s \in Sessions : SessionRequest(p, s)
    \/ \E p \in Procs : Continue(p)

Spec == Init /\ [][Next]_vars

-----------------------------------------------------------------------------
(* Properties *)

IntentStatuses == {"absent", "pending", "requires_external_auth", "installed", "blocked"}
Callbacks == {"none", "provider_authorized", "provider_denied"}
Exchanges == {"none", "queued", "blocked", "credential_ready"}
Steps == {"idle", "saveSession", "savePreview", "savePreflight", "saveExchange",
          "checkExchange", "callProvider", "storeSecret", "saveMetadata",
          "saveOAuthExchange"}

InstallTypeOK ==
    /\ intent \in [Intents -> IntentStatuses]
    /\ owner \in [Sessions -> Intents \cup {None}]
    /\ expired \subseteq Sessions
    /\ consumed \subseteq Sessions
    /\ previews \subseteq Sessions
    /\ callback \in [Sessions -> Callbacks]
    /\ exchange \in [Sessions -> Exchanges]
    /\ secrets \subseteq Sessions
    /\ credentials \subseteq Sessions
    /\ completion \in [Intents -> {"none", "installed", "blocked"}]
    /\ completedBy \in [Intents -> Sessions \cup {None}]
    /\ installed \subseteq Intents
    /\ pc \in [Procs -> Steps]
    /\ job \in [Procs -> [session : Sessions \cup {None},
                          intent : Intents \cup {None}, fresh : BOOLEAN]]

\* The status of an intent and its completion agree at every moment: no late
\* request for external auth takes a completed intent back, and none is closed
\* without a completion.
StatusMatchesCompletion ==
    \A i \in Intents :
        /\ completion[i] # "none" => intent[i] = completion[i]
        /\ intent[i] \in {"installed", "blocked"} => completion[i] # "none"

\* An app is installed only through a session of the same intent, which the
\* provider sent back authorized and which was spent; a denial leads to a
\* blocked intent and never to an installation.
InstalledWasAuthorized ==
    \A i \in Intents :
        /\ i \in installed => completion[i] = "installed"
        /\ completion[i] # "none" =>
              LET s == completedBy[i]
              IN  /\ owner[s] = i
                  /\ s \in consumed
                  /\ completion[i] = "installed" <=> callback[s] = "provider_authorized"

\* An exchange reported as credential_ready has its tokens and its credential
\* metadata in the database, although three transactions write them.
CredentialReadyHasCredential ==
    \A s \in Sessions :
        exchange[s] = "credential_ready" => s \in secrets /\ s \in credentials

\* "consumes that state exactly once": a state that was consumed, by whatever
\* request, no longer yields an authorization preview.
ConsumedStateIsSpent ==
    [][\A s \in consumed : s \in previews' => s \in previews]_vars

\* "rejects replay before calling the provider exchange port": the provider is
\* not called for a callback whose exchange is recorded.
ReplayStopsBeforeProvider ==
    [][\A p \in Procs : CallProvider(p) => exchange[job[p].session] = "none"]_vars

\* An intent that is installed or blocked is closed: no session, preview,
\* callback or exchange is added to it.
ClosedIntentIsQuiet ==
    [][\A s \in Sessions :
         LET i == owner'[s]
         IN  i # None /\ intent[i] \in {"installed", "blocked"} =>
               /\ owner'[s] = owner[s]
               /\ s \in previews' => s \in previews
               /\ callback'[s] = callback[s]
               /\ exchange'[s] = exchange[s]]_vars
=============================================================================
