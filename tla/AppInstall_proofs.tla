--------------------------- MODULE AppInstall_proofs ---------------------------
(***************************************************************************)
(* The install flow keeps its promises for any number of processes,        *)
(* intents and sessions: InstallInv is inductive.  Two more promises hold  *)
(* when one process runs, because it then holds Store.mu between the       *)
(* reading of an intent and the last write that relies on it.              *)
(***************************************************************************)
EXTENDS AppInstall, TLAPS

ProviderSteps == {"checkExchange", "callProvider", "storeSecret", "saveMetadata",
                  "saveOAuthExchange"}

\* What a process knows of its session between two of its steps.
StepOK(p) ==
    LET s == job[p].session
    IN  /\ pc[p] # "idle" => job[p].intent \in Intents
        /\ pc[p] \notin {"idle", "saveSession"} =>
              s \in Sessions /\ owner[s] = job[p].intent
        /\ pc[p] = "saveExchange" => callback[s] # "none"
        /\ pc[p] \in ProviderSteps => callback[s] = "provider_authorized"
        /\ pc[p] \in {"saveMetadata", "saveOAuthExchange"} => s \in secrets
        /\ pc[p] = "saveOAuthExchange" => s \in credentials

\* An exchange has a callback, a callback a spent session of some intent, and
\* the exchange is blocked exactly when the callback was a denial.
SessionOK(s) ==
    /\ callback[s] # "none" => owner[s] # None /\ s \in consumed
    /\ exchange[s] # "none" => callback[s] # "none"
    /\ exchange[s] # "none" => (exchange[s] = "blocked" <=> callback[s] = "provider_denied")

\* A completion names the recorded exchange it was made from.
CompletionOK(i) ==
    completion[i] # "none" =>
        completedBy[i] \in Sessions /\ exchange[completedBy[i]] # "none"

InstallInv ==
    /\ InstallTypeOK
    /\ StatusMatchesCompletion
    /\ InstalledWasAuthorized
    /\ CredentialReadyHasCredential
    /\ \A p \in Procs : StepOK(p)
    /\ \A s \in Sessions : SessionOK(s)
    /\ \A i \in Intents : CompletionOK(i)

\* What every step does to the sessions: their columns are written once.
SessionsGrow ==
    /\ consumed \subseteq consumed'
    /\ secrets \subseteq secrets'
    /\ credentials \subseteq credentials'
    /\ \A s \in Sessions :
          /\ owner[s] # None => owner'[s] = owner[s]
          /\ callback[s] # "none" => callback'[s] = callback[s]
          /\ exchange[s] # "none" => exchange'[s] = exchange[s]

\* What a step that completes and activates nothing does to the intents.
IntentsKept ==
    /\ UNCHANGED <<completion, completedBy, installed>>
    /\ \A i \in Intents :
          /\ completion[i] # "none" => intent'[i] = intent[i]
          /\ intent'[i] \in {"installed", "blocked"} => intent[i] = intent'[i]

-----------------------------------------------------------------------------
LEMMA InitInstallInv == Init => InstallInv
  BY DEF Init, InstallInv, InstallTypeOK, IntentStatuses, Callbacks, Exchanges, Steps,
         NoJob, StatusMatchesCompletion, InstalledWasAuthorized,
         CredentialReadyHasCredential, StepOK, SessionOK, CompletionOK, ProviderSteps

\* A process that does not move keeps what it knows.
LEMMA OtherStepsOK ==
  ASSUME InstallInv, SessionsGrow, NEW q \in Procs,
         pc'[q] = pc[q], job'[q] = job[q]
  PROVE  StepOK(q)'
  <1>1. StepOK(q)
    BY DEF InstallInv
  <1>2. /\ None \notin Intents
        /\ job[q].session = job'[q].session
        /\ job[q].intent = job'[q].intent
    BY InstallAssumption
  <1> QED
    BY <1>1, <1>2 DEF StepOK, SessionsGrow, ProviderSteps

\* The completions survive any growth of the sessions.
LEMMA CompletionsKept ==
  ASSUME InstallInv, SessionsGrow, IntentsKept
  PROVE  /\ StatusMatchesCompletion'
         /\ InstalledWasAuthorized'
         /\ \A i \in Intents : CompletionOK(i)'
  <1>1. \A i \in Intents : CompletionOK(i)'
    BY DEF InstallInv, CompletionOK, SessionsGrow, IntentsKept
  <1>2. StatusMatchesCompletion'
    BY DEF InstallInv, StatusMatchesCompletion, IntentsKept
  <1>3. InstalledWasAuthorized'
    <2> SUFFICES ASSUME NEW i \in Intents, completion[i] # "none"
                 PROVE  LET s == completedBy[i]
                        IN  /\ owner'[s] = i
                            /\ s \in consumed'
                            /\ completion[i] = "installed" <=> callback'[s] = "provider_authorized"
      BY DEF InstalledWasAuthorized, IntentsKept, InstallInv
    <2> DEFINE s == completedBy[i]
    <2>1. s \in Sessions /\ exchange[s] # "none"
      BY DEF InstallInv, CompletionOK
    <2>2. callback[s] # "none"
      BY <2>1 DEF InstallInv, SessionOK
    <2>3. /\ owner[s] = i
          /\ s \in consumed
          /\ completion[i] = "installed" <=> callback[s] = "provider_authorized"
      BY DEF InstallInv, InstalledWasAuthorized
    <2>4. owner[s] # None
      BY <2>3, InstallAssumption
    <2> QED
      BY <2>1, <2>2, <2>3, <2>4 DEF SessionsGrow
  <1> QED
    BY <1>1, <1>2, <1>3

\* The frame of a step of process p that completes nothing.
LEMMA ProcessStep ==
  ASSUME InstallInv, InstallTypeOK', SessionsGrow, IntentsKept,
         CredentialReadyHasCredential', \A s \in Sessions : SessionOK(s)',
         NEW p \in Procs, StepOK(p)',
         \A q \in Procs : q # p => pc'[q] = pc[q] /\ job'[q] = job[q]
  PROVE  InstallInv'
  <1>1. \A q \in Procs : StepOK(q)'
    BY OtherStepsOK
  <1> QED
    BY <1>1, CompletionsKept DEF InstallInv

\* A step that changes no session leaves what holds of the sessions.
LEMMA SessionsKept ==
  ASSUME InstallInv,
         UNCHANGED <<owner, consumed, callback, exchange, secrets, credentials>>
  PROVE  /\ SessionsGrow
         /\ CredentialReadyHasCredential'
         /\ \A s \in Sessions : SessionOK(s)'
  BY DEF InstallInv, SessionsGrow, CredentialReadyHasCredential, SessionOK

\* A process that is idle after the step knows nothing.
LEMMA IdleOK ==
  ASSUME NEW p \in Procs, pc'[p] = "idle"
  PROVE  StepOK(p)'
  BY DEF StepOK, ProviderSteps

\* The step changes no intent.
LEMMA IntentsUntouched ==
  ASSUME UNCHANGED <<intent, completion, completedBy, installed>>
  PROVE  IntentsKept
  BY DEF IntentsKept

-----------------------------------------------------------------------------
(* Requests *)

LEMMA CreateInv ==
  ASSUME InstallInv, NEW p \in Procs, NEW i \in Intents,
         CreateInstallIntent(p, i) \/ MarkInstallIntentRequiresExternalAuth(p, i)
  PROVE  InstallInv'
  <1>1. InstallTypeOK'
    BY DEF InstallInv, InstallTypeOK, IntentStatuses, CreateInstallIntent,
           MarkInstallIntentRequiresExternalAuth
  <1>2. UNCHANGED <<owner, consumed, callback, exchange, secrets, credentials, pc, job>>
    BY DEF CreateInstallIntent, MarkInstallIntentRequiresExternalAuth
  <1>3. /\ intent[i] \in {"absent", "pending", "requires_external_auth"}
        /\ \A j \in Intents : j # i => intent'[j] = intent[j]
        /\ intent'[i] \in {"pending", "requires_external_auth"}
    BY DEF InstallInv, InstallTypeOK, CreateInstallIntent, MayRequireAuth,
           MarkInstallIntentRequiresExternalAuth
  <1>4. completion[i] = "none"
    BY <1>3 DEF InstallInv, StatusMatchesCompletion, InstallTypeOK
  <1>5. IntentsKept
    BY <1>3, <1>4 DEF IntentsKept, CreateInstallIntent,
                      MarkInstallIntentRequiresExternalAuth
  <1>6. StepOK(p)'
    BY <1>2, SessionsKept, OtherStepsOK
  <1> QED
    BY <1>1, <1>2, <1>5, <1>6, SessionsKept, ProcessStep

LEMMA StartInv ==
  ASSUME InstallInv, NEW p \in Procs, NEW step \in Steps, NEW i \in Intents,
         NEW s \in Sessions \cup {None}, Start(p, step, i, s),
         step \notin {"idle", "saveSession"} => s \in Sessions /\ owner[s] = i,
         step = "saveExchange" => callback[s] # "none",
         step \in ProviderSteps => step = "checkExchange"
                                   /\ callback[s] = "provider_authorized"
  PROVE  InstallInv'
  <1>1. InstallTypeOK'
    BY DEF InstallInv, InstallTypeOK, Start, tables
  <1>2. UNCHANGED tables
    BY DEF Start
  <1>3. /\ pc'[p] = step
        /\ job'[p].session = s
        /\ job'[p].intent = i
        /\ \A q \in Procs : q # p => pc'[q] = pc[q] /\ job'[q] = job[q]
    BY DEF InstallInv, InstallTypeOK, Start
  <1>4. StepOK(p)'
    BY <1>2, <1>3 DEF StepOK, tables, ProviderSteps
  <1>5. IntentsKept
    BY <1>2, IntentsUntouched DEF tables
  <1> QED
    BY <1>1, <1>2, <1>3, <1>4, <1>5, SessionsKept, ProcessStep DEF tables

LEMMA StartsInv ==
  ASSUME InstallInv, NEW p \in Procs, NEW s \in Sessions,
         \/ StartPreview(p, s)
         \/ StartPreflight(p, s)
         \/ StartExchange(p, s)
         \/ StartProviderOAuth(p, s)
  PROVE  InstallInv'
  <1>1. owner[s] # None
    BY DEF StartPreview, StartPreflight, StartExchange, StartProviderOAuth, StartForSession
  <1>2. owner[s] \in Intents
    BY <1>1 DEF InstallInv, InstallTypeOK
  <1>3. CASE StartPreview(p, s)
    BY <1>2, <1>3, StartInv DEF StartPreview, StartForSession, Steps, ProviderSteps
  <1>4. CASE StartPreflight(p, s)
    BY <1>2, <1>4, StartInv DEF StartPreflight, StartForSession, Steps, ProviderSteps
  <1>5. CASE StartExchange(p, s)
    BY <1>2, <1>5, StartInv DEF StartExchange, StartForSession, Steps, ProviderSteps
  <1>6. CASE StartProviderOAuth(p, s)
    BY <1>2, <1>6, StartInv DEF StartProviderOAuth, StartForSession, Steps, ProviderSteps
  <1> QED
    BY <1>3, <1>4, <1>5, <1>6

LEMMA StartDescriptorInv ==
  ASSUME InstallInv, NEW p \in Procs, NEW i \in Intents, StartDescriptor(p, i)
  PROVE  InstallInv'
  BY StartInv DEF StartDescriptor, Steps, ProviderSteps

LEMMA ConsumeInv ==
  ASSUME InstallInv, NEW p \in Procs, NEW s \in Sessions,
         ConsumeExternalAuthSession(p, s)
  PROVE  InstallInv'
  <1>1. InstallTypeOK'
    BY DEF InstallInv, InstallTypeOK, ConsumeExternalAuthSession
  <1>2. SessionsGrow
    BY DEF SessionsGrow, ConsumeExternalAuthSession
  <1>3. CredentialReadyHasCredential'
    BY DEF InstallInv, CredentialReadyHasCredential, ConsumeExternalAuthSession
  <1>4. \A x \in Sessions : SessionOK(x)'
    BY DEF InstallInv, SessionOK, ConsumeExternalAuthSession
  <1>5. IntentsKept
    BY IntentsUntouched DEF ConsumeExternalAuthSession
  <1>6. pc' = pc /\ job' = job
    BY DEF ConsumeExternalAuthSession
  <1> QED
    BY <1>1, <1>2, <1>3, <1>4, <1>5, <1>6, OtherStepsOK, ProcessStep

LEMMA ExpireInv ==
  ASSUME InstallInv, NEW s \in Sessions, Expire(s)
  PROVE  InstallInv'
  <1>1. InstallTypeOK'
    BY DEF InstallInv, InstallTypeOK, Expire
  <1>2. UNCHANGED <<owner, consumed, callback, exchange, secrets, credentials, pc, job>>
    BY DEF Expire
  <1>3. IntentsKept
    BY IntentsUntouched DEF Expire
  <1>4. \A q \in Procs : StepOK(q)'
    BY <1>2, SessionsKept, OtherStepsOK
  <1> QED
    BY <1>1, <1>2, <1>3, <1>4, SessionsKept, CompletionsKept DEF InstallInv

-----------------------------------------------------------------------------
(* The steps of an operation *)

LEMMA SaveSessionInv ==
  ASSUME InstallInv, NEW p \in Procs, SaveExternalAuthSession(p)
  PROVE  InstallInv'
  <1>1. PICK s \in Sessions : /\ owner[s] = None
                              /\ owner' = [owner EXCEPT ![s] = job[p].intent]
    BY DEF SaveExternalAuthSession
  <1>2. job[p].intent \in Intents
    BY DEF InstallInv, StepOK, SaveExternalAuthSession
  <1>3. InstallTypeOK'
    <2>1. owner' \in [Sessions -> Intents \cup {None}]
      BY <1>1, <1>2 DEF InstallInv, InstallTypeOK
    <2>2. pc' \in [Procs -> Steps]
      BY DEF InstallInv, InstallTypeOK, SaveExternalAuthSession, Return, Steps
    <2>3. job' \in [Procs -> [session : Sessions \cup {None},
                              intent : Intents \cup {None}, fresh : BOOLEAN]]
      BY DEF InstallInv, InstallTypeOK, SaveExternalAuthSession, Return, NoJob
    <2> QED
      BY <2>1, <2>2, <2>3 DEF InstallInv, InstallTypeOK, SaveExternalAuthSession
  <1>4. UNCHANGED <<intent, consumed, callback, exchange, secrets, credentials,
                    completion, completedBy, installed>>
    BY DEF SaveExternalAuthSession
  <1>5. /\ \A x \in Sessions : owner[x] # None => owner'[x] = owner[x]
        /\ \A x \in Sessions : owner[x] # None => owner'[x] # None
    BY <1>1, <1>2, InstallAssumption DEF InstallInv, InstallTypeOK
  <1>6. SessionsGrow
    BY <1>4, <1>5 DEF SessionsGrow
  <1>7. CredentialReadyHasCredential'
    BY <1>4 DEF InstallInv, CredentialReadyHasCredential
  <1>8. \A x \in Sessions : SessionOK(x)'
    BY <1>4, <1>5 DEF InstallInv, SessionOK
  <1>9. /\ pc'[p] = "idle"
        /\ \A q \in Procs : q # p => pc'[q] = pc[q] /\ job'[q] = job[q]
    BY DEF InstallInv, InstallTypeOK, SaveExternalAuthSession, Return
  <1> QED
    BY <1>3, <1>4, <1>6, <1>7, <1>8, <1>9, IdleOK, IntentsUntouched, ProcessStep

LEMMA SavePreviewInv ==
  ASSUME InstallInv, NEW p \in Procs, SaveExternalAuthAuthorizationPreview(p)
  PROVE  InstallInv'
  <1> DEFINE s == job[p].session
  <1>1. s \in Sessions
    BY DEF InstallInv, StepOK, SaveExternalAuthAuthorizationPreview
  <1>2. /\ consumed' = consumed \cup {s}
        /\ UNCHANGED <<intent, owner, callback, exchange, secrets, credentials,
                       completion, completedBy, installed>>
    BY DEF SaveExternalAuthAuthorizationPreview
  <1>3. InstallTypeOK'
    BY <1>1 DEF InstallInv, InstallTypeOK, Return, NoJob, Steps,
                SaveExternalAuthAuthorizationPreview
  <1>4. SessionsGrow /\ CredentialReadyHasCredential'
    BY <1>2 DEF InstallInv, SessionsGrow, CredentialReadyHasCredential
  <1>5. \A x \in Sessions : SessionOK(x)'
    BY <1>2 DEF InstallInv, SessionOK
  <1>6. /\ pc'[p] = "idle"
        /\ \A q \in Procs : q # p => pc'[q] = pc[q] /\ job'[q] = job[q]
    BY DEF InstallInv, InstallTypeOK, SaveExternalAuthAuthorizationPreview, Return
  <1> QED
    BY <1>2, <1>3, <1>4, <1>5, <1>6, IdleOK, IntentsUntouched, ProcessStep

LEMMA SavePreflightInv ==
  ASSUME InstallInv, NEW p \in Procs, SaveExternalAuthCallbackPreflight(p)
  PROVE  InstallInv'
  <1> DEFINE s == job[p].session
  <1>1. s \in Sessions /\ owner[s] # None /\ callback[s] = "none"
    BY InstallAssumption DEF InstallInv, StepOK, SaveExternalAuthCallbackPreflight
  <1>2. PICK status \in {"provider_authorized", "provider_denied"} :
           callback' = [callback EXCEPT ![s] = status]
    BY DEF SaveExternalAuthCallbackPreflight
  <1>3. /\ consumed' = consumed \cup {s}
        /\ UNCHANGED <<intent, owner, exchange, secrets, credentials, completion,
                       completedBy, installed>>
    BY DEF SaveExternalAuthCallbackPreflight
  <1>4. InstallTypeOK'
    <2>1. callback' \in [Sessions -> Callbacks]
      BY <1>1, <1>2 DEF InstallInv, InstallTypeOK, Callbacks
    <2> QED
      BY <1>1, <2>1 DEF InstallInv, InstallTypeOK, Return, NoJob, Steps,
                        SaveExternalAuthCallbackPreflight
  <1>5. /\ callback'[s] = status
        /\ \A x \in Sessions : x # s => callback'[x] = callback[x]
    BY <1>1, <1>2 DEF InstallInv, InstallTypeOK
  <1>6. SessionsGrow /\ CredentialReadyHasCredential'
    BY <1>1, <1>3, <1>5 DEF InstallInv, SessionsGrow, CredentialReadyHasCredential
  <1>7. exchange[s] = "none"
    BY <1>1 DEF InstallInv, SessionOK
  <1>8. \A x \in Sessions : SessionOK(x)'
    BY <1>1, <1>3, <1>5, <1>7 DEF InstallInv, SessionOK
  <1>9. /\ pc'[p] = "idle"
        /\ \A q \in Procs : q # p => pc'[q] = pc[q] /\ job'[q] = job[q]
    BY DEF InstallInv, InstallTypeOK, SaveExternalAuthCallbackPreflight, Return
  <1> QED
    BY <1>3, <1>4, <1>6, <1>8, <1>9, IdleOK, IntentsUntouched, ProcessStep

\* Both exchange modes write a status that agrees with the callback, the
\* provider_oauth mode after the credential.
LEMMA SaveExchangeInv ==
  ASSUME InstallInv, NEW p \in Procs, SaveSimulatedExchange(p) \/ SaveOAuthExchange(p)
  PROVE  InstallInv'
  <1> DEFINE s == job[p].session
             written == IF pc[p] = "saveExchange" THEN SimulatedStatus(callback[s])
                        ELSE "credential_ready"
  <1>1. /\ pc[p] \in {"saveExchange", "saveOAuthExchange"}
        /\ exchange[s] = "none"
        /\ exchange' = [exchange EXCEPT ![s] = written]
        /\ Return(p)
        /\ UNCHANGED <<intent, owner, expired, consumed, previews, callback, secrets,
                       credentials, completion, completedBy, installed>>
    BY DEF SaveSimulatedExchange, SaveOAuthExchange
  <1>2. /\ s \in Sessions
        /\ callback[s] # "none"
        /\ pc[p] = "saveOAuthExchange" =>
              /\ callback[s] = "provider_authorized"
              /\ s \in secrets
              /\ s \in credentials
    BY <1>1 DEF InstallInv, StepOK, ProviderSteps
  <1>3. /\ written \in {"queued", "blocked", "credential_ready"}
        /\ written = "blocked" <=> callback[s] = "provider_denied"
        /\ written = "credential_ready" => s \in secrets /\ s \in credentials
    BY <1>1, <1>2 DEF SimulatedStatus
  <1> HIDE DEF written
  <1>4. /\ exchange'[s] = written
        /\ \A x \in Sessions : x # s => exchange'[x] = exchange[x]
    BY <1>1, <1>2 DEF InstallInv, InstallTypeOK
  <1>5. InstallTypeOK'
    <2>1. exchange' \in [Sessions -> Exchanges]
      BY <1>1, <1>2, <1>3 DEF InstallInv, InstallTypeOK, Exchanges
    <2> QED
      BY <1>1, <2>1 DEF InstallInv, InstallTypeOK, Return, NoJob, Steps
  <1>6. SessionsGrow
    BY <1>1, <1>4 DEF SessionsGrow
  <1>7. CredentialReadyHasCredential'
    BY <1>1, <1>3, <1>4 DEF InstallInv, CredentialReadyHasCredential
  <1>8. \A x \in Sessions : SessionOK(x)'
    BY <1>1, <1>2, <1>3, <1>4 DEF InstallInv, SessionOK
  <1>9. /\ pc'[p] = "idle"
        /\ \A q \in Procs : q # p => pc'[q] = pc[q] /\ job'[q] = job[q]
    BY <1>1 DEF InstallInv, InstallTypeOK, Return
  <1> QED
    BY <1>1, <1>5, <1>6, <1>7, <1>8, <1>9, IdleOK, IntentsUntouched, ProcessStep

\* The steps of the provider exchange before its last.
LEMMA ProviderStepInv ==
  ASSUME InstallInv, NEW p \in Procs,
         \/ CheckNotExchanged(p)
         \/ CallProvider(p)
         \/ StoreTokenPayload(p)
         \/ SaveCredentialMetadata(p)
  PROVE  InstallInv'
  <1> DEFINE s == job[p].session
  <1>1. /\ s \in Sessions
        /\ owner[s] = job[p].intent
        /\ job[p].intent \in Intents
        /\ callback[s] = "provider_authorized"
        /\ pc[p] = "saveMetadata" => s \in secrets
    BY DEF InstallInv, StepOK, ProviderSteps, CheckNotExchanged, CallProvider,
           StoreTokenPayload, SaveCredentialMetadata
  <1>2. /\ UNCHANGED <<intent, owner, expired, consumed, previews, callback, exchange,
                       completion, completedBy, installed>>
        /\ secrets \subseteq secrets' /\ secrets' \subseteq Sessions
        /\ credentials \subseteq credentials' /\ credentials' \subseteq Sessions
    BY <1>1 DEF InstallInv, InstallTypeOK, tables, CheckNotExchanged, CallProvider,
                StoreTokenPayload, SaveCredentialMetadata
  <1>3. /\ pc' \in [Procs -> Steps]
        /\ job' \in [Procs -> [session : Sessions \cup {None},
                               intent : Intents \cup {None}, fresh : BOOLEAN]]
        /\ \A q \in Procs : q # p => pc'[q] = pc[q] /\ job'[q] = job[q]
        /\ pc'[p] # "idle" => job'[p] = job[p]
    <2>1. CASE Return(p)
      BY <2>1 DEF InstallInv, InstallTypeOK, Steps, Return, NoJob
    <2>2. CASE \E step \in Steps : Goto(p, step)
      BY <2>2 DEF InstallInv, InstallTypeOK, Goto
    <2> QED
      BY <2>1, <2>2 DEF Steps, CheckNotExchanged, CallProvider, StoreTokenPayload,
                        SaveCredentialMetadata
  <1>4. InstallTypeOK'
    BY <1>2, <1>3 DEF InstallInv, InstallTypeOK
  <1>5. /\ pc'[p] \in {"idle", "callProvider", "storeSecret", "saveMetadata",
                       "saveOAuthExchange"}
        /\ pc'[p] \in {"saveMetadata", "saveOAuthExchange"} => s \in secrets'
        /\ pc'[p] = "saveOAuthExchange" => s \in credentials'
    BY <1>1 DEF InstallInv, InstallTypeOK, Return, Goto, CheckNotExchanged,
                CallProvider, StoreTokenPayload, SaveCredentialMetadata
  <1>6. StepOK(p)'
    BY <1>1, <1>2, <1>3, <1>5 DEF StepOK, ProviderSteps
  <1>7. SessionsGrow /\ CredentialReadyHasCredential'
    BY <1>2 DEF InstallInv, SessionsGrow, CredentialReadyHasCredential
  <1>8. \A x \in Sessions : SessionOK(x)'
    BY <1>2 DEF InstallInv, SessionOK
  <1> QED
    BY <1>2, <1>3, <1>4, <1>6, <1>7, <1>8, IntentsUntouched, ProcessStep

LEMMA FailInv ==
  ASSUME InstallInv, NEW p \in Procs, Fail(p)
  PROVE  InstallInv'
  <1>1. InstallTypeOK'
    BY DEF InstallInv, InstallTypeOK, Fail, Return, NoJob, Steps, tables
  <1>2. /\ pc'[p] = "idle"
        /\ \A q \in Procs : q # p => pc'[q] = pc[q] /\ job'[q] = job[q]
    BY DEF InstallInv, InstallTypeOK, Fail, Return
  <1> QED
    BY <1>1, <1>2, SessionsKept, IdleOK, IntentsUntouched, ProcessStep DEF Fail, tables

-----------------------------------------------------------------------------
(* Completion and installation *)

LEMMA CompleteInv ==
  ASSUME InstallInv, NEW p \in Procs, NEW s \in Sessions, CompleteAppInstall(p, s)
  PROVE  InstallInv'
  <1> DEFINE i == owner[s]
  <1>1. /\ exchange[s] # "none"
        /\ completion[i] = "none"
        /\ completion' = [completion EXCEPT ![i] = CompletionStatus(s)]
        /\ completedBy' = [completedBy EXCEPT ![i] = s]
        /\ intent' = [intent EXCEPT ![i] = CompletionStatus(s)]
        /\ UNCHANGED <<owner, expired, consumed, previews, callback, exchange, secrets,
                       credentials, installed, pc, job>>
    BY DEF CompleteAppInstall
  <1>2. /\ callback[s] # "none"
        /\ s \in consumed
        /\ i # None
        /\ exchange[s] = "blocked" <=> callback[s] = "provider_denied"
    BY <1>1 DEF InstallInv, SessionOK
  <1>3. i \in Intents
    BY <1>2 DEF InstallInv, InstallTypeOK
  <1>4. /\ CompletionStatus(s) \in {"installed", "blocked"}
        /\ CompletionStatus(s) = "installed" <=> callback[s] = "provider_authorized"
    BY <1>2 DEF CompletionStatus, InstallInv, InstallTypeOK, Callbacks
  <1>5. /\ completion'[i] = CompletionStatus(s)
        /\ completedBy'[i] = s
        /\ intent'[i] = CompletionStatus(s)
        /\ \A j \in Intents : j # i => /\ completion'[j] = completion[j]
                                       /\ completedBy'[j] = completedBy[j]
                                       /\ intent'[j] = intent[j]
    BY <1>1, <1>3 DEF InstallInv, InstallTypeOK
  <1>6. InstallTypeOK'
    BY <1>1, <1>3, <1>4 DEF InstallInv, InstallTypeOK, IntentStatuses
  <1>7. StatusMatchesCompletion'
    BY <1>4, <1>5 DEF InstallInv, StatusMatchesCompletion
  <1>8. InstalledWasAuthorized'
    <2> SUFFICES ASSUME NEW j \in Intents
                 PROVE  /\ j \in installed => completion'[j] = "installed"
                        /\ completion'[j] # "none" =>
                             /\ owner[completedBy'[j]] = j
                             /\ completedBy'[j] \in consumed
                             /\ completion'[j] = "installed" <=>
                                  callback[completedBy'[j]] = "provider_authorized"
      BY <1>1 DEF InstalledWasAuthorized
    <2>1. CASE j = i
      BY <1>1, <1>2, <1>4, <1>5, <2>1 DEF InstallInv, InstalledWasAuthorized
    <2>2. CASE j # i
      BY <1>5, <2>2 DEF InstallInv, InstalledWasAuthorized
    <2> QED
      BY <2>1, <2>2
  <1>9. \A j \in Intents : CompletionOK(j)'
    BY <1>1, <1>5 DEF InstallInv, CompletionOK
  <1>10. \A q \in Procs : StepOK(q)'
    BY <1>1, SessionsKept, OtherStepsOK
  <1> QED
    BY <1>1, <1>6, <1>7, <1>8, <1>9, <1>10, SessionsKept DEF InstallInv

LEMMA ActivateInv ==
  ASSUME InstallInv, NEW p \in Procs, NEW i \in Intents, ActivateAppInstallation(p, i)
  PROVE  InstallInv'
  <1>1. /\ completion[i] = "installed"
        /\ installed' = installed \cup {i}
        /\ UNCHANGED <<intent, owner, expired, consumed, previews, callback, exchange,
                       secrets, credentials, completion, completedBy, pc, job>>
    BY DEF ActivateAppInstallation, MayActivate
  <1>2. InstallTypeOK'
    BY <1>1 DEF InstallInv, InstallTypeOK
  <1>3. StatusMatchesCompletion' /\ InstalledWasAuthorized'
    BY <1>1 DEF InstallInv, StatusMatchesCompletion, InstalledWasAuthorized
  <1>4. \A j \in Intents : CompletionOK(j)'
    BY <1>1 DEF InstallInv, CompletionOK
  <1>5. \A q \in Procs : StepOK(q)'
    BY <1>1, SessionsKept, OtherStepsOK
  <1> QED
    BY <1>1, <1>2, <1>3, <1>4, <1>5, SessionsKept DEF InstallInv

-----------------------------------------------------------------------------
LEMMA StepInstallInv ==
  ASSUME InstallInv, [Next]_vars
  PROVE  InstallInv'
  <1>1. ASSUME NEW s \in Sessions, Expire(s) PROVE InstallInv'
    BY <1>1, ExpireInv
  <1>2. ASSUME NEW p \in Procs, NEW i \in Intents, IntentRequest(p, i)
        PROVE  InstallInv'
    BY <1>2, CreateInv, StartDescriptorInv, ActivateInv DEF IntentRequest
  <1>3. ASSUME NEW p \in Procs, NEW s \in Sessions, SessionRequest(p, s)
        PROVE  InstallInv'
    BY <1>3, ConsumeInv, StartsInv, CompleteInv DEF SessionRequest
  <1>4. ASSUME NEW p \in Procs, Continue(p) PROVE InstallInv'
    BY <1>4, SaveSessionInv, SavePreviewInv, SavePreflightInv, SaveExchangeInv,
       ProviderStepInv, FailInv DEF Continue
  <1>5. CASE UNCHANGED vars
    <2>1. /\ InstallTypeOK'
          /\ StatusMatchesCompletion'
          /\ InstalledWasAuthorized'
          /\ \A i \in Intents : CompletionOK(i)'
      BY <1>5 DEF InstallInv, InstallTypeOK, StatusMatchesCompletion, vars, tables,
                  InstalledWasAuthorized, CompletionOK
    <2>2. \A q \in Procs : StepOK(q)'
      BY <1>5, SessionsKept, OtherStepsOK DEF vars, tables
    <2> QED
      BY <1>5, <2>1, <2>2, SessionsKept DEF InstallInv, vars, tables
  <1> QED
    BY <1>1, <1>2, <1>3, <1>4, <1>5 DEF Next

\* InstallInv holds in every reachable state, for any number of processes,
\* intents and sessions.
THEOREM InstallInvariance == Spec => []InstallInv
  <1>1. Init => InstallInv
    BY InitInstallInv
  <1>2. InstallInv /\ [Next]_vars => InstallInv'
    BY StepInstallInv
  <1> QED
    BY <1>1, <1>2, PTL DEF Spec

\* Every table of the install flow keeps its columns in range.
THEOREM InstallTypesCorrect == Spec => []InstallTypeOK
  <1>1. InstallInv => InstallTypeOK
    BY DEF InstallInv
  <1> QED
    BY <1>1, InstallInvariance, PTL

\* An intent is closed exactly when it has a completion, with its status.
THEOREM StatusAndCompletionAgree == Spec => []StatusMatchesCompletion
  <1>1. InstallInv => StatusMatchesCompletion
    BY DEF InstallInv
  <1> QED
    BY <1>1, InstallInvariance, PTL

\* No order of the requests of any number of processes installs an app without
\* an authorized, spent session of the same intent.
THEOREM InstallationIsAuthorized == Spec => []InstalledWasAuthorized
  <1>1. InstallInv => InstalledWasAuthorized
    BY DEF InstallInv
  <1> QED
    BY <1>1, InstallInvariance, PTL

\* credential_ready is never reported before tokens and metadata are stored.
THEOREM CredentialsAreReady == Spec => []CredentialReadyHasCredential
  <1>1. InstallInv => CredentialReadyHasCredential
    BY DEF InstallInv
  <1> QED
    BY <1>1, InstallInvariance, PTL

\* Five transactions write the rows of a session.
SessionSave(p) ==
    \/ SaveExternalAuthSession(p)
    \/ SaveExternalAuthAuthorizationPreview(p)
    \/ SaveExternalAuthCallbackPreflight(p)
    \/ SaveSimulatedExchange(p)
    \/ SaveOAuthExchange(p)

LEMMA SessionsWritten ==
  ASSUME [Next]_vars
  PROVE  \/ UNCHANGED <<owner, previews, callback, exchange>>
         \/ \E p \in Procs : SessionSave(p)
  <1> DEFINE Kept == UNCHANGED <<owner, previews, callback, exchange>>
  <1>1. ASSUME NEW s \in Sessions, Expire(s) PROVE Kept
    BY <1>1 DEF Expire
  <1>2. ASSUME NEW p \in Procs, NEW step, NEW i, NEW x, Start(p, step, i, x) PROVE Kept
    BY <1>2 DEF Start, tables
  <1>3. ASSUME NEW p \in Procs, NEW i \in Intents, IntentRequest(p, i) PROVE Kept
    BY <1>2, <1>3 DEF IntentRequest, CreateInstallIntent, StartDescriptor,
                      MarkInstallIntentRequiresExternalAuth, ActivateAppInstallation
  <1>4. ASSUME NEW p \in Procs, NEW s \in Sessions, SessionRequest(p, s) PROVE Kept
    BY <1>2, <1>4 DEF SessionRequest, ConsumeExternalAuthSession, StartPreview,
                      StartPreflight, StartExchange, StartProviderOAuth,
                      StartForSession, CompleteAppInstall
  <1>5. ASSUME NEW p \in Procs, Continue(p) PROVE Kept \/ SessionSave(p)
    BY <1>5 DEF Continue, SessionSave, CheckNotExchanged, CallProvider, Fail,
                StoreTokenPayload, SaveCredentialMetadata, tables
  <1>6. CASE UNCHANGED vars
    BY <1>6 DEF vars, tables
  <1> QED
    BY <1>1, <1>3, <1>4, <1>5, <1>6 DEF Next

\* A consumed state yields no authorization preview, whichever process asks.
THEOREM StateConsumedOnce == Spec => ConsumedStateIsSpent
  <1> DEFINE Spent == \A s \in consumed : s \in previews' => s \in previews
  <1>1. [Next]_vars => [Spent]_vars
    <2> SUFFICES ASSUME Next PROVE Spent
      BY DEF vars
    <2>1. ASSUME NEW p \in Procs, SaveExternalAuthAuthorizationPreview(p) PROVE Spent
      BY <2>1 DEF SaveExternalAuthAuthorizationPreview, Unconsumed
    <2>2. CASE previews' = previews
      BY <2>2
    <2>3. (\E p \in Procs : SaveExternalAuthAuthorizationPreview(p)) \/ previews' = previews
      BY SessionsWritten DEF SessionSave, SaveExternalAuthSession,
             SaveExternalAuthCallbackPreflight, SaveSimulatedExchange, SaveOAuthExchange
    <2> QED
      BY <2>1, <2>2, <2>3
  <1> QED
    BY <1>1, PTL DEF Spec, ConsumedStateIsSpent

-----------------------------------------------------------------------------
(* What a process has read and still relies on *)

\* The process has looked whether the callback was exchanged.
Checked == {"callProvider", "storeSecret", "saveMetadata", "saveOAuthExchange"}

StillTrue(p) ==
    /\ pc[p] # "idle" => IntentReady(job[p].intent)
    /\ pc[p] \in Checked => exchange[job[p].session] = "none"

\* The two steps of another process that make it untrue: the intent p works on is
\* completed, or the callback that p found without an exchange is given one.
Overtakes(q, p) ==
    \/ /\ pc[p] # "idle"
       /\ \E s \in Sessions : CompleteAppInstall(q, s) /\ owner[s] = job[p].intent
    \/ /\ pc[p] \in Checked
       /\ SaveSimulatedExchange(q) \/ SaveOAuthExchange(q)
       /\ job[q].session = job[p].session

Works(p) ==
    \/ \E i \in Intents : IntentRequest(p, i)
    \/ \E s \in Sessions : SessionRequest(p, s)
    \/ Continue(p)

\* No step of the process itself makes it untrue.
LEMMA OwnStepStillTrue ==
  ASSUME InstallInv, NEW p \in Procs, StillTrue(p), Works(p)
  PROVE  StillTrue(p)'
  <1> DEFINE i == job[p].intent
             s == job[p].session
             Kept == /\ pc'[p] # "idle" => intent'[job'[p].intent] = "requires_external_auth"
                     /\ pc'[p] \in Checked => exchange'[job'[p].session] = "none"
  <1>1. /\ pc[p] # "idle" => i \in Intents /\ intent[i] = "requires_external_auth"
        /\ pc[p] \notin {"idle", "saveSession"} => s \in Sessions
        /\ pc[p] \in Checked => exchange[s] = "none"
    BY DEF InstallInv, StepOK, StillTrue, IntentReady
  <1>2. SUFFICES Kept
    BY DEF StillTrue, IntentReady
  <1>3. InstallTypeOK
    BY DEF InstallInv
  <1>4. CASE pc'[p] = "idle"
    BY <1>4 DEF Checked
  <1>5. ASSUME NEW step, NEW j, NEW x, Start(p, step, j, x), step \notin Checked
        PROVE  Kept
    BY <1>3, <1>5 DEF Start, IntentReady, InstallTypeOK, tables
  <1>6. ASSUME NEW j \in Intents, IntentRequest(p, j)
        PROVE  Start(p, "saveSession", j, None) \/ pc'[p] = "idle"
    BY <1>6, <1>3 DEF IntentRequest, Idle, CreateInstallIntent, StartDescriptor,
          MarkInstallIntentRequiresExternalAuth, ActivateAppInstallation
  <1>7. ASSUME NEW y \in Sessions, SessionRequest(p, y)
        PROVE  \/ \E step \in {"savePreview", "savePreflight", "saveExchange", "checkExchange"} :
                     Start(p, step, owner[y], y)
               \/ pc'[p] = "idle"
    BY <1>7 DEF SessionRequest, Idle, ConsumeExternalAuthSession, CompleteAppInstall,
          StartPreview, StartPreflight, StartExchange, StartProviderOAuth, StartForSession
  <1>8. ASSUME Continue(p)
        PROVE  \/ pc'[p] = "idle"
               \/ /\ pc[p] # "idle"
                  /\ pc[p] # "saveSession"
                  /\ pc[p] \in Checked \/ exchange[s] = "none"
                  /\ job'[p] = job[p] /\ intent' = intent /\ exchange' = exchange
    BY <1>8, <1>3 DEF Continue, InstallTypeOK, Return, Goto, tables, Fail, Checked,
          SaveExternalAuthSession, SaveExternalAuthAuthorizationPreview,
          SaveExternalAuthCallbackPreflight, SaveSimulatedExchange, CheckNotExchanged,
          CallProvider, StoreTokenPayload, SaveCredentialMetadata, SaveOAuthExchange
  <1>9. CASE \E j \in Intents : IntentRequest(p, j)
    BY <1>4, <1>5, <1>6, <1>9 DEF Checked
  <1>10. CASE \E y \in Sessions : SessionRequest(p, y)
    BY <1>4, <1>5, <1>7, <1>10 DEF Checked
  <1>11. CASE Continue(p)
    BY <1>1, <1>4, <1>8, <1>11
  <1> QED
    BY <1>9, <1>10, <1>11 DEF Works

\* A step of another process makes it untrue only by those two.
LEMMA OtherStepStillTrue ==
  ASSUME InstallInv, NEW p \in Procs, StillTrue(p),
         NEW q \in Procs, q # p, Works(q), ~Overtakes(q, p)
  PROVE  StillTrue(p)'
  <1> DEFINE i == job[p].intent
             s == job[p].session
  <1>1. InstallTypeOK
    BY DEF InstallInv
  <1>2. pc'[p] = pc[p] /\ job'[p] = job[p]
    <2>1. \/ UNCHANGED pc
          \/ \E step : pc' = [pc EXCEPT ![q] = step]
      BY DEF Works, IntentRequest, SessionRequest, Continue, CreateInstallIntent,
             MarkInstallIntentRequiresExternalAuth, StartDescriptor, ActivateAppInstallation,
             ConsumeExternalAuthSession, StartPreview, StartPreflight, StartExchange,
             StartProviderOAuth, StartForSession, CompleteAppInstall, Start, Goto, Return,
             SaveExternalAuthSession, SaveExternalAuthAuthorizationPreview,
             SaveExternalAuthCallbackPreflight, SaveSimulatedExchange, CheckNotExchanged,
             CallProvider, StoreTokenPayload, SaveCredentialMetadata, SaveOAuthExchange, Fail
    <2>2. \/ UNCHANGED job
          \/ \E j : job' = [job EXCEPT ![q] = j]
      BY DEF Works, IntentRequest, SessionRequest, Continue, CreateInstallIntent,
             MarkInstallIntentRequiresExternalAuth, StartDescriptor, ActivateAppInstallation,
             ConsumeExternalAuthSession, StartPreview, StartPreflight, StartExchange,
             StartProviderOAuth, StartForSession, CompleteAppInstall, Start, Goto, Return,
             SaveExternalAuthSession, SaveExternalAuthAuthorizationPreview,
             SaveExternalAuthCallbackPreflight, SaveSimulatedExchange, CheckNotExchanged,
             CallProvider, StoreTokenPayload, SaveCredentialMetadata, SaveOAuthExchange, Fail
    <2> QED
      BY <1>1, <2>1, <2>2 DEF InstallTypeOK
  <1>3. ASSUME pc[p] # "idle"
        PROVE  intent'[i] = "requires_external_auth"
    <2>1. i \in Intents /\ intent[i] = "requires_external_auth"
      BY <1>3 DEF InstallInv, StepOK, StillTrue, IntentReady
    <2>2. CASE intent' = intent
      BY <2>1, <2>2
    <2>3. ASSUME NEW j \in Intents, CreateInstallIntent(q, j) \/
                                    MarkInstallIntentRequiresExternalAuth(q, j)
          PROVE  intent'[i] = "requires_external_auth"
      BY <1>1, <2>1, <2>3 DEF CreateInstallIntent, MarkInstallIntentRequiresExternalAuth,
         InstallTypeOK
    <2>4. ASSUME NEW y \in Sessions, CompleteAppInstall(q, y)
          PROVE  intent'[i] = "requires_external_auth"
      BY <1>1, <1>3, <2>1, <2>4 DEF Overtakes, CompleteAppInstall, InstallTypeOK
    <2> QED
      BY <2>2, <2>3, <2>4
      DEF Works, IntentRequest, SessionRequest, Continue, StartDescriptor,
          ActivateAppInstallation, ConsumeExternalAuthSession, StartPreview, StartPreflight,
          StartExchange, StartProviderOAuth, StartForSession, Start, tables,
          SaveExternalAuthSession, SaveExternalAuthAuthorizationPreview,
          SaveExternalAuthCallbackPreflight, SaveSimulatedExchange, CheckNotExchanged,
          CallProvider, StoreTokenPayload, SaveCredentialMetadata, SaveOAuthExchange, Fail
  <1>4. ASSUME pc[p] \in Checked
        PROVE  exchange'[s] = "none"
    <2>1. s \in Sessions /\ exchange[s] = "none"
      BY <1>4 DEF InstallInv, StepOK, StillTrue, Checked
    <2>2. CASE exchange' = exchange
      BY <2>1, <2>2
    <2>3. CASE SaveSimulatedExchange(q) \/ SaveOAuthExchange(q)
      <3>1. job[q].session # s
        BY <1>4, <2>3 DEF Overtakes
      <3> QED
        BY <1>1, <2>1, <2>3, <3>1 DEF SaveSimulatedExchange, SaveOAuthExchange, InstallTypeOK
    <2> QED
      BY <2>2, <2>3
      DEF Works, IntentRequest, SessionRequest, Continue, StartDescriptor,
          CreateInstallIntent, MarkInstallIntentRequiresExternalAuth,
          ActivateAppInstallation, ConsumeExternalAuthSession, StartPreview, StartPreflight,
          StartExchange, StartProviderOAuth, StartForSession, CompleteAppInstall, Start, tables,
          SaveExternalAuthSession, SaveExternalAuthAuthorizationPreview,
          SaveExternalAuthCallbackPreflight, CheckNotExchanged,
          CallProvider, StoreTokenPayload, SaveCredentialMetadata, Fail
  <1> QED
    BY <1>2, <1>3, <1>4 DEF StillTrue, IntentReady

LEMMA QuietStepStillTrue ==
  ASSUME NEW p \in Procs, StillTrue(p), UNCHANGED vars \/ \E s \in Sessions : Expire(s)
  PROVE  StillTrue(p)'
  BY DEF vars, tables, Expire, StillTrue, IntentReady

\* With any number of processes: what a process has read of the intent and of the
\* exchange stays true until another process completes that intent or records
\* that exchange; nothing else comes between the reads of an operation and its
\* writes, not even failures.
THEOREM OnlySavesOvertake ==
  Spec => [][\A p \in Procs : StillTrue(p) /\ ~StillTrue(p)' =>
                \E q \in Procs \ {p} : Overtakes(q, p)]_vars
  <1> DEFINE Explained == \A p \in Procs : StillTrue(p) /\ ~StillTrue(p)' =>
                             \E q \in Procs \ {p} : Overtakes(q, p)
  <1>1. InstallInv /\ [Next]_vars => [Explained]_vars
    <2> SUFFICES ASSUME InstallInv, Next, NEW p \in Procs, StillTrue(p), ~StillTrue(p)'
                 PROVE  \E q \in Procs \ {p} : Overtakes(q, p)
      OBVIOUS
    <2>1. PICK q \in Procs : Works(q)
      BY QuietStepStillTrue DEF Next, Works
    <2> QED
      BY <2>1, OwnStepStillTrue, OtherStepStillTrue
  <1> QED
    BY <1>1, InstallInvariance, PTL DEF Spec

-----------------------------------------------------------------------------
(* Processes that do not overtake one another *)

\* What a lock on the intent, held from the reads of an operation to its writes,
\* would give; Store.mu is such a lock among the requests of one process.
NeverOvertaken ==
    [][\A p \in Procs, q \in Procs : q # p => ~Overtakes(q, p)]_vars

LEMMA StillTrueInvariance ==
  Spec /\ NeverOvertaken => [](InstallInv /\ \A p \in Procs : StillTrue(p))
  <1> DEFINE Relied == \A p \in Procs : StillTrue(p)
             Apart == \A p \in Procs, q \in Procs : q # p => ~Overtakes(q, p)
  <1>1. Init => Relied
    BY DEF Init, StillTrue, Checked
  <1>2. InstallInv /\ Relied /\ [Next]_vars /\ [Apart]_vars => Relied'
    <2> SUFFICES ASSUME InstallInv, Relied, [Next]_vars, [Apart]_vars, NEW p \in Procs
                 PROVE  StillTrue(p)'
      OBVIOUS
    <2>1. CASE UNCHANGED vars \/ \E s \in Sessions : Expire(s)
      BY <2>1, QuietStepStillTrue
    <2>2. ASSUME NEW q \in Procs, Works(q), ~UNCHANGED vars
          PROVE  StillTrue(p)'
      BY <2>2, OwnStepStillTrue, OtherStepStillTrue
    <2> QED
      BY <2>1, <2>2 DEF Next, Works
  <1> HIDE DEF Relied, Apart
  <1>3. Spec /\ [][Apart]_vars => [](InstallInv /\ Relied)
    BY <1>1, <1>2, InitInstallInv, StepInstallInv, PTL DEF Spec
  <1> QED
    BY <1>3 DEF NeverOvertaken, Apart, Relied

\* If operations on one intent do not overtake one another, the provider is never
\* called for a callback whose exchange is recorded.
THEOREM NoOvertakingNoReplay == Spec /\ NeverOvertaken => ReplayStopsBeforeProvider
  <1> DEFINE Relied == InstallInv /\ \A p \in Procs : StillTrue(p)
             Fresh == \A p \in Procs : CallProvider(p) => exchange[job[p].session] = "none"
  <1>1. Relied => Fresh
    BY DEF StillTrue, Checked, CallProvider
  <1>2. Spec /\ NeverOvertaken => []Relied
    BY StillTrueInvariance
  <1> HIDE DEF Relied, Fresh
  <1>3. Spec /\ NeverOvertaken => [][Fresh]_vars
    BY <1>1, <1>2, PTL
  <1> QED
    BY <1>3 DEF ReplayStopsBeforeProvider, Fresh

\* If operations on one intent do not overtake one another, nothing is added to an
\* intent that is closed.
THEOREM NoOvertakingClosesIntents == Spec /\ NeverOvertaken => ClosedIntentIsQuiet
  <1> DEFINE Quiet == \A s \in Sessions :
                        LET i == owner'[s]
                        IN  i # None /\ intent[i] \in {"installed", "blocked"} =>
                              /\ owner'[s] = owner[s]
                              /\ s \in previews' => s \in previews
                              /\ callback'[s] = callback[s]
                              /\ exchange'[s] = exchange[s]
             Relied == InstallInv /\ \A p \in Procs : StillTrue(p)
  <1>1. Relied /\ [Next]_vars => [Quiet]_vars
    <2> SUFFICES ASSUME Relied, Next PROVE Quiet
      BY DEF vars
    <2>1. CASE UNCHANGED <<owner, previews, callback, exchange>>
      BY <2>1
    <2>2. ASSUME NEW p \in Procs,
                 \/ SaveExternalAuthSession(p)
                 \/ SaveExternalAuthAuthorizationPreview(p)
                 \/ SaveExternalAuthCallbackPreflight(p)
                 \/ SaveSimulatedExchange(p)
                 \/ SaveOAuthExchange(p)
          PROVE  Quiet
      <3> DEFINE j == job[p].intent
                 x == job[p].session
      <3>1. /\ InstallTypeOK
            /\ intent[j] = "requires_external_auth"
            /\ pc[p] # "saveSession" => x \in Sessions /\ owner[x] = j
        BY <2>2 DEF InstallInv, StepOK, StillTrue, IntentReady,
             SaveExternalAuthSession, SaveExternalAuthAuthorizationPreview,
             SaveExternalAuthCallbackPreflight, SaveSimulatedExchange, SaveOAuthExchange
      <3>2. CASE SaveExternalAuthSession(p)
        <4>1. PICK y \in Sessions : owner' = [owner EXCEPT ![y] = j]
          BY <3>2 DEF SaveExternalAuthSession
        <4>2. UNCHANGED <<previews, callback, exchange>>
          BY <3>2 DEF SaveExternalAuthSession
        <4>3. owner'[y] = j /\ \A z \in Sessions : z # y => owner'[z] = owner[z]
          BY <3>1, <4>1 DEF InstallTypeOK
        <4> QED
          BY <3>1, <4>2, <4>3
      <3>3. CASE /\ pc[p] # "saveSession"
                 /\ owner' = owner
                 /\ previews' \subseteq previews \cup {x}
                 /\ \A z \in Sessions : z # x => callback'[z] = callback[z]
                                                 /\ exchange'[z] = exchange[z]
        BY <3>1, <3>3
      <3> QED
        BY <2>2, <3>1, <3>2, <3>3 DEF InstallTypeOK,
             SaveExternalAuthAuthorizationPreview, SaveExternalAuthCallbackPreflight,
             SaveSimulatedExchange, SaveOAuthExchange
    <2>3. \/ UNCHANGED <<owner, previews, callback, exchange>>
          \/ \E p \in Procs : \/ SaveExternalAuthSession(p)
                              \/ SaveExternalAuthAuthorizationPreview(p)
                              \/ SaveExternalAuthCallbackPreflight(p)
                              \/ SaveSimulatedExchange(p)
                              \/ SaveOAuthExchange(p)
      BY SessionsWritten DEF SessionSave
    <2> QED
      BY <2>1, <2>2, <2>3
  <1>2. Spec /\ NeverOvertaken => []Relied
    BY StillTrueInvariance
  <1> HIDE DEF Relied, Quiet
  <1>3. Spec /\ NeverOvertaken => [][Quiet]_vars
    BY <1>1, <1>2, PTL DEF Spec
  <1> QED
    BY <1>3 DEF ClosedIntentIsQuiet, Quiet

-----------------------------------------------------------------------------
(* One process *)

SingleProcess == \E p : Procs = {p}

LEMMA AloneNeverOvertaken == ASSUME SingleProcess PROVE NeverOvertaken
  <1> DEFINE Apart == \A p \in Procs, q \in Procs : q # p => ~Overtakes(q, p)
  <1>1. Apart
    BY DEF SingleProcess
  <1> HIDE DEF Apart
  <1>2. [][Apart]_vars
    BY <1>1, PTL
  <1> QED
    BY <1>2 DEF NeverOvertaken, Apart

\* With one process the provider is never called for a callback whose exchange
\* is recorded: Store.mu is held between the check and the call.
THEOREM SingleProcessRejectsReplay ==
  ASSUME SingleProcess PROVE Spec => ReplayStopsBeforeProvider
  BY AloneNeverOvertaken, NoOvertakingNoReplay, SingleProcess

\* With one process nothing is added to an intent that is closed.
THEOREM SingleProcessClosesIntents ==
  ASSUME SingleProcess PROVE Spec => ClosedIntentIsQuiet
  BY AloneNeverOvertaken, NoOvertakingClosesIntents, SingleProcess
=============================================================================
