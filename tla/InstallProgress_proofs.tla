------------------------ MODULE InstallProgress_proofs ------------------------
(***************************************************************************)
(* What a read of the install progress answers, for any number of          *)
(* processes, intents and sessions.  The rows a report rests on are never  *)
(* taken back, so a report that was true when a row was read is true when  *)
(* it is given; the reads follow the order in which the rows are written,  *)
(* so nothing found before the completion was looked up outlives it.       *)
(***************************************************************************)
EXTENDS InstallProgress, AppInstall_proofs

Statuses == {"pending", "external_auth_ready", "handoff_ready", "handoff_consumed",
             "handoff_expired", "authorization_preview_recorded",
             "callback_preflight_recorded", "provider_exchange_queued",
             "provider_exchange_blocked", "provider_credential_ready",
             "installed", "blocked", "active"}
Actions == {"start_external_auth", "read_external_auth_descriptor",
            "preview_authorization", "record_callback_preflight",
            "await_provider_exchange", "complete_install", "none",
            "create_new_install_intent", "restart_external_auth"}
Reports == [status : Statuses, action : Actions]
Stages == {"none", "session", "preview", "preflight", "exchange", "completion",
           "installation", "answer"}
Views == [at : Stages, intent : Intents \cup {None}, installStatus : IntentStatuses,
          report : Reports]

\* A report on intent i rests on rows that are there.
ReportOK(i, r) ==
    /\ r \in Reports
    /\ Closed(r.status) => completion[i] = r.status
    /\ r.status = "active" => i \in installed
    /\ r.action = "complete_install" =>
          \E s \in SessionsOf(i) : exchange[s] = "credential_ready"
    /\ r.action = "restart_external_auth" =>
          \E s \in SessionsOf(i) : callback[s] = "provider_denied"

\* What a read knows between two statements.
KnownOK(v) ==
    v.at # "none" =>
        /\ v.intent \in Intents
        /\ ReportOK(v.intent, v.report)
        /\ Closed(v.installStatus) => completion[v.intent] = v.installStatus
        /\ v.at \in {"installation", "answer"} /\ Closed(v.installStatus) =>
              v.report.status \in {v.installStatus, "active"}

\* A session, and a step that works on an intent, has an intent that once waited
\* for external auth.
OwnersOK ==
    /\ \A s \in Sessions : owner[s] # None => intent[owner[s]] \notin {"absent", "pending"}
    /\ \A p \in Procs : pc[p] # "idle" => intent[job[p].intent] \notin {"absent", "pending"}

ProgressInv ==
    /\ InstallInv
    /\ OwnersOK
    /\ view \in [Procs -> Views]
    /\ \A p \in Procs : KnownOK(view[p])

\* What no step takes back.
RowsGrow ==
    /\ \A s \in Sessions :
          /\ owner[s] # None => owner'[s] = owner[s]
          /\ callback[s] # "none" => callback'[s] = callback[s]
          /\ exchange[s] # "none" => exchange'[s] = exchange[s]
    /\ \A i \in Intents :
          /\ completion[i] # "none" => completion'[i] = completion[i]
          /\ intent[i] \notin {"absent", "pending"} => intent'[i] \notin {"absent", "pending"}
    /\ installed \subseteq installed'

-----------------------------------------------------------------------------
(* The operations of AppInstall *)

LEMMA RequestsGrow ==
  ASSUME InstallInv, NEW p \in Procs,
         (\E i \in Intents : IntentRequest(p, i)) \/ (\E s \in Sessions : SessionRequest(p, s))
  PROVE  RowsGrow
  <1>1. InstallTypeOK /\ InstallAssumption
    BY InstallAssumption DEF InstallInv
  <1>2. ASSUME NEW i \in Intents,
               \/ CreateInstallIntent(p, i)
               \/ MarkInstallIntentRequiresExternalAuth(p, i)
               \/ ActivateAppInstallation(p, i)
               \/ StartDescriptor(p, i)
        PROVE  RowsGrow
    BY <1>1, <1>2
    DEF RowsGrow, InstallTypeOK, CreateInstallIntent, MarkInstallIntentRequiresExternalAuth,
        MayRequireAuth, ActivateAppInstallation, StartDescriptor, Start, tables
  <1>3. ASSUME NEW s \in Sessions, CompleteAppInstall(p, s)
        PROVE  RowsGrow
    <2>1. /\ completion[owner[s]] = "none"
          /\ completion' = [completion EXCEPT ![owner[s]] = CompletionStatus(s)]
          /\ intent' = [intent EXCEPT ![owner[s]] = CompletionStatus(s)]
          /\ CompletionStatus(s) \in {"blocked", "installed"}
          /\ UNCHANGED <<owner, callback, exchange, installed>>
      BY <1>3 DEF CompleteAppInstall, CompletionStatus
    <2> QED
      BY <1>1, <2>1 DEF RowsGrow, InstallTypeOK
  <1>4. ASSUME NEW s \in Sessions, SessionRequest(p, s), ~CompleteAppInstall(p, s)
        PROVE  RowsGrow
    BY <1>4
    DEF RowsGrow, SessionRequest, ConsumeExternalAuthSession, StartPreview, StartPreflight,
        StartExchange, StartProviderOAuth, StartForSession, Start, tables
  <1> QED
    BY <1>2, <1>3, <1>4 DEF IntentRequest

LEMMA ContinueGrows ==
  ASSUME InstallInv, NEW p \in Procs, Continue(p)
  PROVE  RowsGrow
  <1> DEFINE s == job[p].session
  <1>1. InstallTypeOK
    BY DEF InstallInv
  <1>2. CASE SaveExternalAuthSession(p)
    <2>1. PICK t \in Sessions : owner[t] = None /\ owner' = [owner EXCEPT ![t] = job[p].intent]
      BY <1>2 DEF SaveExternalAuthSession
    <2>2. UNCHANGED <<callback, exchange, completion, intent, installed>>
      BY <1>2 DEF SaveExternalAuthSession
    <2> QED
      BY <1>1, <2>1, <2>2 DEF RowsGrow, InstallTypeOK
  <1>3. CASE SaveExternalAuthCallbackPreflight(p)
    <2>1. PICK status \in {"provider_authorized", "provider_denied"} :
             callback' = [callback EXCEPT ![s] = status]
      BY <1>3 DEF SaveExternalAuthCallbackPreflight
    <2>2. /\ callback[s] = "none"
          /\ UNCHANGED <<owner, exchange, completion, intent, installed>>
      BY <1>3 DEF SaveExternalAuthCallbackPreflight
    <2> QED
      BY <1>1, <2>1, <2>2 DEF RowsGrow, InstallTypeOK
  <1>4. CASE SaveSimulatedExchange(p) \/ SaveOAuthExchange(p)
    <2>1. PICK status : exchange' = [exchange EXCEPT ![s] = status]
      BY <1>4 DEF SaveSimulatedExchange, SaveOAuthExchange
    <2>2. /\ exchange[s] = "none"
          /\ UNCHANGED <<owner, callback, completion, intent, installed>>
      BY <1>4 DEF SaveSimulatedExchange, SaveOAuthExchange
    <2> QED
      BY <1>1, <2>1, <2>2 DEF RowsGrow, InstallTypeOK
  <1>5. CASE UNCHANGED <<owner, callback, exchange, completion, intent, installed>>
    BY <1>5 DEF RowsGrow
  <1> QED
    BY <1>2, <1>3, <1>4, <1>5
    DEF Continue, SaveExternalAuthAuthorizationPreview, CheckNotExchanged, CallProvider,
        StoreTokenPayload, SaveCredentialMetadata, Fail, tables

LEMMA InstallGrows == ASSUME InstallInv, [Next]_vars PROVE RowsGrow
  <1>1. ASSUME NEW s \in Sessions, Expire(s) PROVE RowsGrow
    BY <1>1 DEF Expire, RowsGrow
  <1>2. CASE UNCHANGED vars
    BY <1>2 DEF vars, tables, RowsGrow
  <1> QED
    BY <1>1, <1>2, RequestsGrow, ContinueGrows DEF Next

\* Whatever processes, failures and repetitions do: the intent of a session, the
\* answer to its callback, its exchange, the completion of an intent and its
\* installation are written once.
THEOREM RowsAreWrittenOnce == Spec => [][RowsGrow]_vars
  <1>1. InstallInv /\ [Next]_vars => [RowsGrow]_vars
    BY InstallGrows
  <1> QED
    BY <1>1, InstallInvariance, PTL DEF Spec

\* New sessions belong to the intent a step works on, which had waited when the
\* step began.
LEMMA OwnersKept ==
  ASSUME InstallInv, OwnersOK, [Next]_vars
  PROVE  OwnersOK'
  <1> DEFINE Started(i) == intent[i] \notin {"absent", "pending"}
  <1>1. RowsGrow /\ InstallTypeOK /\ InstallTypeOK'
    BY InstallGrows, StepInstallInv DEF InstallInv
  <1>2. \A s \in Sessions : owner'[s] # None =>
          \/ owner[s] = owner'[s]
          \/ \E p \in Procs : pc[p] # "idle" /\ owner'[s] = job[p].intent
    <2>1. ASSUME NEW p \in Procs, SaveExternalAuthSession(p)
          PROVE  \A s \in Sessions : owner'[s] # None =>
                    owner[s] = owner'[s] \/ (pc[p] # "idle" /\ owner'[s] = job[p].intent)
      <3>1. PICK t \in Sessions : owner' = [owner EXCEPT ![t] = job[p].intent]
        BY <2>1 DEF SaveExternalAuthSession
      <3>2. pc[p] = "saveSession"
        BY <2>1 DEF SaveExternalAuthSession
      <3> QED
        BY <1>1, <3>1, <3>2 DEF InstallTypeOK
    <2>2. (\E p \in Procs : SaveExternalAuthSession(p)) \/ owner' = owner
      BY SessionsWritten DEF SessionSave, SaveExternalAuthAuthorizationPreview,
             SaveExternalAuthCallbackPreflight, SaveSimulatedExchange, SaveOAuthExchange
    <2> QED
      BY <2>1, <2>2
  <1>3. \A p \in Procs : pc'[p] # "idle" =>
          \/ pc[p] # "idle" /\ job'[p].intent = job[p].intent
          \/ Started(job'[p].intent) /\ job'[p].intent \in Intents
    <2>1. ASSUME NEW p \in Procs, NEW step, NEW i \in Intents, NEW x, Start(p, step, i, x)
          PROVE  \A q \in Procs : pc'[q] # "idle" =>
                   \/ pc[q] # "idle" /\ job'[q].intent = job[q].intent
                   \/ Started(job'[q].intent) /\ job'[q].intent \in Intents
      BY <1>1, <2>1 DEF Start, IntentReady, InstallTypeOK
    <2>2. ASSUME NEW p \in Procs, NEW s \in Sessions, NEW step, StartForSession(p, step, s)
          PROVE  owner[s] \in Intents /\ Start(p, step, owner[s], s)
      BY <1>1, <2>2 DEF StartForSession, InstallTypeOK
    <2>4. ASSUME NEW p \in Procs, Continue(p)
          PROVE  \A q \in Procs : pc'[q] # "idle" =>
                   pc[q] # "idle" /\ job'[q].intent = job[q].intent
      BY <1>1, <2>4
      DEF Continue, InstallTypeOK, Return, Goto, Fail, Idle, SaveExternalAuthSession,
          SaveExternalAuthAuthorizationPreview, SaveExternalAuthCallbackPreflight,
          SaveSimulatedExchange, CheckNotExchanged, CallProvider, StoreTokenPayload,
          SaveCredentialMetadata, SaveOAuthExchange
    <2>5. \/ UNCHANGED <<pc, job>>
          \/ \E p \in Procs : Continue(p)
          \/ \E p \in Procs, i \in Intents : Start(p, "saveSession", i, None)
          \/ \E p \in Procs, s \in Sessions,
                step \in {"savePreview", "savePreflight", "saveExchange", "checkExchange"} :
                StartForSession(p, step, s)
      BY DEF Next, vars, Expire, IntentRequest, SessionRequest,
             CreateInstallIntent, MarkInstallIntentRequiresExternalAuth,
             StartDescriptor, ActivateAppInstallation, ConsumeExternalAuthSession,
             StartPreview, StartPreflight, StartExchange, StartProviderOAuth,
             CompleteAppInstall
    <2> QED
      BY <2>1, <2>2, <2>4, <2>5
  <1>4. \A i \in Intents : Started(i) => Started(i)'
    BY <1>1 DEF RowsGrow
  <1>5. /\ \A s \in Sessions : owner[s] # None => owner[s] \in Intents /\ Started(owner[s])
        /\ \A p \in Procs : pc[p] # "idle" => job[p].intent \in Intents /\ Started(job[p].intent)
    BY <1>1 DEF OwnersOK, InstallTypeOK, InstallInv, StepOK
  <1>6. ASSUME NEW s \in Sessions, owner'[s] # None
        PROVE  intent'[owner'[s]] \notin {"absent", "pending"}
    BY <1>2, <1>4, <1>5, <1>6
  <1>7. ASSUME NEW p \in Procs, pc'[p] # "idle"
        PROVE  intent'[job'[p].intent] \notin {"absent", "pending"}
    BY <1>3, <1>4, <1>5, <1>7
  <1> QED
    BY <1>6, <1>7 DEF OwnersOK

\* A report stays true when rows are added.
LEMMA KnownKept ==
  ASSUME InstallInv, RowsGrow, NEW v, KnownOK(v)
  PROVE  KnownOK(v)'
  <1> SUFFICES ASSUME v.at # "none"
               PROVE  KnownOK(v)'
    BY DEF KnownOK
  <1>1. /\ v.intent \in Intents
        /\ ReportOK(v.intent, v.report)
        /\ InstallTypeOK
    BY DEF KnownOK, InstallInv
  <1>2. \A s \in SessionsOf(v.intent) : s \in SessionsOf(v.intent)'
    BY <1>1, InstallAssumption DEF SessionsOf, RowsGrow
  <1>3. ASSUME Closed(v.report.status)
        PROVE  completion'[v.intent] = v.report.status
    BY <1>1, <1>3 DEF ReportOK, RowsGrow, Closed
  <1>4. ASSUME v.report.action = "complete_install"
        PROVE  \E s \in SessionsOf(v.intent)' : exchange'[s] = "credential_ready"
    <2>1. PICK s \in SessionsOf(v.intent) : exchange[s] = "credential_ready"
      BY <1>1, <1>4 DEF ReportOK
    <2> QED
      BY <1>2, <2>1 DEF RowsGrow, SessionsOf
  <1>5. ASSUME v.report.action = "restart_external_auth"
        PROVE  \E s \in SessionsOf(v.intent)' : callback'[s] = "provider_denied"
    <2>1. PICK s \in SessionsOf(v.intent) : callback[s] = "provider_denied"
      BY <1>1, <1>5 DEF ReportOK
    <2> QED
      BY <1>2, <2>1 DEF RowsGrow, SessionsOf
  <1>6. ReportOK(v.intent, v.report)'
    BY <1>1, <1>3, <1>4, <1>5 DEF ReportOK, RowsGrow, Closed
  <1>7. Closed(v.installStatus) => completion'[v.intent] = v.installStatus
    BY <1>1 DEF KnownOK, RowsGrow, Closed
  <1> QED
    BY <1>1, <1>6, <1>7 DEF KnownOK, Closed

LEMMA InstallStepInv ==
  ASSUME ProgressInv, [Next]_vars, UNCHANGED view
  PROVE  ProgressInv'
  <1>1. InstallInv' /\ OwnersOK' /\ RowsGrow
    BY StepInstallInv, OwnersKept, InstallGrows DEF ProgressInv
  <1>2. \A p \in Procs : KnownOK(view[p])'
    <2> SUFFICES ASSUME NEW p \in Procs PROVE KnownOK(view[p])'
      OBVIOUS
    <2>1. KnownOK(view[p]) /\ view'[p] = view[p]
      BY DEF ProgressInv
    <2>2. ASSUME NEW v, KnownOK(v) PROVE KnownOK(v)'
      BY <1>1, <2>2, KnownKept DEF ProgressInv
    <2> QED
      BY <2>1, <2>2 DEF KnownOK, ReportOK
  <1> QED
    BY <1>1, <1>2 DEF ProgressInv

-----------------------------------------------------------------------------
(* The statements of a read *)

\* A statement of process p that leaves it with v.
LEMMA ReadInv ==
  ASSUME ProgressInv, UNCHANGED vars, NEW p \in Procs, NEW v \in Views, KnownOK(v),
         view' = [view EXCEPT ![p] = v]
  PROVE  ProgressInv'
  <1>1. InstallInv'
    BY StepInstallInv DEF ProgressInv
  <1>2. OwnersOK'
    BY DEF ProgressInv, OwnersOK, vars, tables
  <1>3. view' \in [Procs -> Views]
    BY DEF ProgressInv
  <1>4. ASSUME NEW q \in Procs PROVE KnownOK(view[q])'
    <2>1. KnownOK(view'[q])
      BY DEF ProgressInv
    <2> QED
      BY <2>1 DEF KnownOK, ReportOK, SessionsOf, vars, tables
  <1> QED
    BY <1>1, <1>2, <1>3, <1>4 DEF ProgressInv

\* The status of an intent or of its completion.
LEMMA StatusReportOK ==
  ASSUME NEW i \in Intents, NEW status \in IntentStatuses, status # "absent",
         Closed(status) => completion[i] = status
  PROVE  /\ ReportOK(i, StatusReport(status))
         /\ Closed(status) => StatusReport(status).status = status
         /\ Closed(status) => StatusReport(status).action \in {"none", "create_new_install_intent"}
  BY DEF IntentStatuses, StatusReport, Report, ReportOK, Reports, Statuses, Actions, Closed

LEMMA ReadIntentInv ==
  ASSUME ProgressInv, UNCHANGED vars, NEW p \in Procs, NEW i \in Intents, ReadIntent(p, i)
  PROVE  ProgressInv'
  <1> DEFINE v == [at |-> "session", intent |-> i, installStatus |-> intent[i],
                   report |-> StatusReport(intent[i])]
  <1>1. intent[i] \in IntentStatuses /\ intent[i] # "absent"
    BY DEF ReadIntent, ProgressInv, InstallInv, InstallTypeOK
  <1>2. Closed(intent[i]) => completion[i] = intent[i]
    BY DEF ProgressInv, InstallInv, StatusMatchesCompletion, Closed
  <1>3. ReportOK(i, StatusReport(intent[i]))
    BY <1>1, <1>2, StatusReportOK
  <1>4. v \in Views
    BY <1>1, <1>3 DEF Views, Stages, ReportOK
  <1>5. KnownOK(v)
    BY <1>2, <1>3 DEF KnownOK
  <1>6. view' = [view EXCEPT ![p] = v]
    BY DEF ReadIntent
  <1> QED
    BY <1>4, <1>5, <1>6, ReadInv

\* A statement that finds reports of a kind that is true of the intent.
LEMMA ReadLatestInv ==
  ASSUME ProgressInv, UNCHANGED vars, NEW p \in Procs,
         NEW at \in Stages, NEW next \in Stages, NEW reports, ReadLatest(p, at, next, reports),
         at # "none", next # "none",
         \A r \in reports : ReportOK(view[p].intent, r),
         next \in {"installation", "answer"} /\ Closed(view[p].installStatus) =>
            \A r \in IF reports = {} THEN {view[p].report} ELSE reports :
               r.status \in {view[p].installStatus, "active"}
  PROVE  ProgressInv'
  <1>1. PICK r \in IF reports = {} THEN {view[p].report} ELSE reports :
           view' = [view EXCEPT ![p].at = next, ![p].report = r]
    BY DEF ReadLatest
  <1> DEFINE w == view[p]
             v == [w EXCEPT !.at = next, !.report = r]
  <1>2. w \in Views /\ KnownOK(w) /\ w.at # "none"
    BY DEF ProgressInv, ReadLatest
  <1>3. ReportOK(w.intent, r)
    BY <1>1, <1>2 DEF KnownOK
  <1>4. v \in Views
    BY <1>2, <1>3 DEF Views, ReportOK
  <1>5. v.at = next /\ v.intent = w.intent /\ v.installStatus = w.installStatus /\ v.report = r
    BY <1>2 DEF Views
  <1>6. KnownOK(v)
    BY <1>1, <1>2, <1>3, <1>5 DEF KnownOK
  <1>7. view' = [view EXCEPT ![p] = v]
    BY <1>1 DEF ProgressInv
  <1> QED
    BY <1>4, <1>6, <1>7, ReadInv

LEMMA ReadRowsInv ==
  ASSUME ProgressInv, UNCHANGED vars, NEW p \in Procs,
         \/ ReadLatestExternalAuthSession(p)
         \/ ReadLatestExternalAuthAuthorizationPreview(p)
         \/ ReadLatestExternalAuthCallbackPreflight(p)
         \/ ReadLatestExternalAuthProviderExchange(p)
  PROVE  ProgressInv'
  <1> DEFINE i == view[p].intent
  <1>1. InstallTypeOK /\ \A s \in Sessions : SessionOK(s)
    BY DEF ProgressInv, InstallInv
  <1>2. CASE ReadLatestExternalAuthSession(p)
    <2> DEFINE reports == UNION {SessionReports(s) : s \in SessionsOf(i)}
    <2>1. \A r \in reports : ReportOK(i, r)
      BY DEF SessionReports, Report, ReportOK, Reports, Statuses, Actions, Closed
    <2>2. ReadLatest(p, "session", "preview", reports)
      BY <1>2 DEF ReadLatestExternalAuthSession
    <2> HIDE DEF reports
    <2> QED
      BY <2>1, <2>2, ReadLatestInv DEF Stages
  <1>3. CASE ReadLatestExternalAuthAuthorizationPreview(p)
    <2> DEFINE reports == {PreviewReport : s \in SessionsOf(i) \cap previews}
    <2>1. \A r \in reports : ReportOK(i, r)
      BY DEF PreviewReport, Report, ReportOK, Reports, Statuses, Actions, Closed
    <2>2. ReadLatest(p, "preview", "preflight", reports)
      BY <1>3 DEF ReadLatestExternalAuthAuthorizationPreview
    <2> HIDE DEF reports
    <2> QED
      BY <2>1, <2>2, ReadLatestInv DEF Stages
  <1>4. CASE ReadLatestExternalAuthCallbackPreflight(p)
    <2> DEFINE reports == {CallbackReport(s) : s \in {t \in SessionsOf(i) : callback[t] # "none"}}
    <2>1. ASSUME NEW s \in SessionsOf(i), callback[s] # "none"
          PROVE  ReportOK(i, CallbackReport(s))
      BY <2>1 DEF CallbackReport, Report, ReportOK, Reports, Statuses, Actions, Closed
    <2>2. \A r \in reports : ReportOK(i, r)
      BY <2>1
    <2>3. ReadLatest(p, "preflight", "exchange", reports)
      BY <1>4 DEF ReadLatestExternalAuthCallbackPreflight
    <2> HIDE DEF reports
    <2> QED
      BY <2>2, <2>3, ReadLatestInv DEF Stages
  <1>5. CASE ReadLatestExternalAuthProviderExchange(p)
    <2> DEFINE reports == {ExchangeReport(s) : s \in {t \in SessionsOf(i) : exchange[t] # "none"}}
    <2>1. ASSUME NEW s \in SessionsOf(i), exchange[s] # "none"
          PROVE  ReportOK(i, ExchangeReport(s))
      <3>1. /\ exchange[s] \in {"queued", "blocked", "credential_ready"}
            /\ exchange[s] = "blocked" => callback[s] = "provider_denied"
        BY <1>1, <2>1 DEF SessionOK, SessionsOf, InstallTypeOK, Exchanges
      <3> QED
        BY <2>1, <3>1 DEF ExchangeReport, Report, ReportOK, Reports, Statuses, Actions, Closed
    <2>2. \A r \in reports : ReportOK(i, r)
      BY <2>1
    <2>3. ReadLatest(p, "exchange", "completion", reports)
      BY <1>5 DEF ReadLatestExternalAuthProviderExchange
    <2> HIDE DEF reports
    <2> QED
      BY <2>2, <2>3, ReadLatestInv DEF Stages
  <1> QED
    BY <1>2, <1>3, <1>4, <1>5

\* The completion, where it is found, decides the report.
LEMMA ClosedReportOK ==
  ASSUME ProgressInv, NEW p \in Procs, view[p].at = "completion"
  PROVE  /\ ReportOK(view[p].intent, ClosedReport(p))
         /\ Closed(view[p].installStatus) => ClosedReport(p).status = view[p].installStatus
         /\ ClosedReport(p).action \notin {"none", "create_new_install_intent"} =>
               completion[view[p].intent] = "none"
  <1> DEFINE i == view[p].intent
  <1>1. /\ i \in Intents
        /\ ReportOK(i, view[p].report)
        /\ Closed(view[p].installStatus) => completion[i] = view[p].installStatus
    BY DEF ProgressInv, KnownOK
  <1>2. completion[i] \in {"none", "installed", "blocked"}
    BY <1>1 DEF ProgressInv, InstallInv, InstallTypeOK
  <1>3. CASE completion[i] # "none"
    <2>1. ClosedReport(p) = StatusReport(completion[i])
      BY <1>3 DEF ClosedReport
    <2>2. completion[i] \in IntentStatuses /\ completion[i] # "absent" /\ Closed(completion[i])
      BY <1>2, <1>3 DEF IntentStatuses, Closed
    <2> QED
      BY <1>1, <2>1, <2>2, StatusReportOK
  <1>4. CASE completion[i] = "none"
    BY <1>1, <1>4 DEF ClosedReport, Closed
  <1> QED
    BY <1>3, <1>4

LEMMA ReadEndInv ==
  ASSUME ProgressInv, UNCHANGED vars, NEW p \in Procs,
         ReadLatestAppInstallCompletion(p) \/ ReadLatestAppInstallation(p)
  PROVE  ProgressInv'
  <1> DEFINE i == view[p].intent
  <1>1. CASE ReadLatestAppInstallCompletion(p)
    <2> DEFINE reports == {ClosedReport(p)}
    <2>1. ReadLatest(p, "completion", "installation", reports)
      BY <1>1 DEF ReadLatestAppInstallCompletion
    <2>2. view[p].at = "completion"
      BY <2>1 DEF ReadLatest
    <2>3. /\ \A r \in reports : ReportOK(i, r)
          /\ Closed(view[p].installStatus) =>
               \A r \in IF reports = {} THEN {view[p].report} ELSE reports :
                  r.status \in {view[p].installStatus, "active"}
      BY <2>2, ClosedReportOK
    <2> HIDE DEF reports
    <2> QED
      BY <2>1, <2>3, ReadLatestInv DEF Stages
  <1>2. CASE ReadLatestAppInstallation(p)
    <2> DEFINE reports == {Report("active", "none") : j \in {i} \cap installed}
    <2>1. ReadLatest(p, "installation", "answer", reports)
      BY <1>2 DEF ReadLatestAppInstallation
    <2>2. KnownOK(view[p]) /\ view[p].at = "installation"
      BY <2>1 DEF ProgressInv, ReadLatest
    <2>3. \A r \in reports : ReportOK(i, r) /\ r.status = "active"
      BY DEF Report, ReportOK, Reports, Statuses, Actions, Closed
    <2>4. Closed(view[p].installStatus) =>
             \A r \in IF reports = {} THEN {view[p].report} ELSE reports :
                r.status \in {view[p].installStatus, "active"}
      BY <2>2, <2>3 DEF KnownOK
    <2> HIDE DEF reports
    <2> QED
      BY <2>1, <2>3, <2>4, ReadLatestInv DEF Stages
  <1> QED
    BY <1>1, <1>2

LEMMA NoViewOK == NoView \in Views /\ KnownOK(NoView)
  BY DEF NoView, Views, Stages, IntentStatuses, Report, Reports, Statuses, Actions, KnownOK

LEMMA ReadStepInv ==
  ASSUME ProgressInv, UNCHANGED vars, NEW p \in Procs, ReadStep(p)
  PROVE  ProgressInv'
  <1>1. CASE EndRead(p)
    BY <1>1, NoViewOK, ReadInv DEF EndRead
  <1> QED
    BY <1>1, ReadIntentInv, ReadRowsInv, ReadEndInv DEF ReadStep

-----------------------------------------------------------------------------
(* Theorems *)

\* Every step is a step of AppInstall or a statement that reads.
LEMMA ProgressStep ==
  ASSUME [ProgressNext]_pvars
  PROVE  \/ [Next]_vars /\ UNCHANGED view
         \/ UNCHANGED vars /\ \E p \in Procs : ReadStep(p)
  BY DEF ProgressNext, InstallStep, Next, pvars

\* Reading does not write: with readers the operations do what they do without,
\* and all that is proved of them holds.
THEOREM ProgressImplementsInstall == ProgressSpec => Spec
  <1>1. ProgressInit => Init
    BY DEF ProgressInit
  <1>2. [ProgressNext]_pvars => [Next]_vars
    BY ProgressStep
  <1> QED
    BY <1>1, <1>2, PTL DEF ProgressSpec, Spec

\* While progress is read, the tables keep their types, statuses agree with
\* completions, installations rest on authorized callbacks and ready exchanges
\* on stored credentials.
THEOREM ProgressKeepsTables ==
  ProgressSpec => [](/\ InstallTypeOK
                     /\ StatusMatchesCompletion
                     /\ InstalledWasAuthorized
                     /\ CredentialReadyHasCredential)
  <1>1. InstallInv => /\ InstallTypeOK
                      /\ StatusMatchesCompletion
                      /\ InstalledWasAuthorized
                      /\ CredentialReadyHasCredential
    BY DEF InstallInv
  <1> QED
    BY <1>1, ProgressImplementsInstall, InstallInvariance, PTL

\* While progress is read, a state is spent once.
THEOREM ProgressSpendsOnce == ProgressSpec => ConsumedStateIsSpent
  BY ProgressImplementsInstall, StateConsumedOnce, PTL

\* What a read knows is true at each of its statements.
THEOREM ProgressInvariance == ProgressSpec => []ProgressInv
  <1>1. ProgressInit => ProgressInv
    <2> SUFFICES ASSUME ProgressInit PROVE ProgressInv
      OBVIOUS
    <2>1. InstallInv /\ OwnersOK
      BY InitInstallInv DEF ProgressInit, Init, OwnersOK
    <2>2. view \in [Procs -> Views] /\ \A p \in Procs : KnownOK(view[p])
      BY NoViewOK DEF ProgressInit
    <2> QED
      BY <2>1, <2>2 DEF ProgressInv
  <1>2. ProgressInv /\ [ProgressNext]_pvars => ProgressInv'
    BY ProgressStep, InstallStepInv, ReadStepInv
  <1> QED
    BY <1>1, <1>2, PTL DEF ProgressSpec

\* An answer tells the truth about the end of an installation.
THEOREM EndIsTold == ProgressSpec => []EndIsReported
  <1>1. ProgressInv => EndIsReported
    <2> SUFFICES ASSUME ProgressInv, NEW p \in Procs, view[p].at = "answer"
                 PROVE  LET i == view[p].intent
                            status == view[p].report.status
                        IN  /\ Closed(status) => completion[i] = status
                            /\ status = "active" => i \in installed
                            /\ Closed(view[p].installStatus) =>
                                  status = view[p].installStatus \/ status = "active"
      BY DEF EndIsReported
    <2>1. KnownOK(view[p])
      BY DEF ProgressInv
    <2> QED
      BY <2>1 DEF KnownOK, ReportOK
  <1> QED
    BY <1>1, ProgressInvariance, PTL

\* What a read advises could be done while it was going on.
THEOREM AdviceIsSound == ProgressSpec => AdviceWasPossible
  <1> DEFINE Sound ==
        \A p \in Procs : ReadLatestAppInstallCompletion(p) =>
          LET i == view[p].intent
              action == view'[p].report.action
          IN  /\ action \notin {"none", "create_new_install_intent"} => ~Closed(intent[i])
              /\ action = "complete_install" =>
                    /\ IntentReady(i) /\ completion[i] = "none"
                    /\ \E s \in SessionsOf(i) : exchange[s] = "credential_ready"
              /\ action = "restart_external_auth" =>
                    \E s \in SessionsOf(i) : callback[s] = "provider_denied"
  <1>1. ProgressInv => Sound
    <2> SUFFICES ASSUME ProgressInv, NEW p \in Procs, ReadLatestAppInstallCompletion(p)
                 PROVE  LET i == view[p].intent
                            action == view'[p].report.action
                        IN  /\ action \notin {"none", "create_new_install_intent"} =>
                                  ~Closed(intent[i])
                            /\ action = "complete_install" =>
                                  /\ IntentReady(i) /\ completion[i] = "none"
                                  /\ \E s \in SessionsOf(i) : exchange[s] = "credential_ready"
                            /\ action = "restart_external_auth" =>
                                  \E s \in SessionsOf(i) : callback[s] = "provider_denied"
      OBVIOUS
    <2> DEFINE i == view[p].intent
               r == ClosedReport(p)
    <2>1. /\ view[p].at = "completion"
          /\ view' = [view EXCEPT ![p].at = "installation", ![p].report = r]
      BY DEF ReadLatestAppInstallCompletion, ReadLatest
    <2>2. view[p] \in Views /\ view'[p].report = r
      BY <2>1 DEF ProgressInv, Views
    <2>3. /\ ReportOK(i, r)
          /\ r.action \notin {"none", "create_new_install_intent"} => completion[i] = "none"
      BY <2>1, ClosedReportOK
    <2>4. i \in Intents /\ intent[i] \in IntentStatuses
      BY <2>1 DEF ProgressInv, KnownOK, InstallInv, InstallTypeOK
    <2>5. completion[i] = "none" => ~Closed(intent[i])
      BY <2>4 DEF ProgressInv, InstallInv, StatusMatchesCompletion, Closed
    <2>6. ASSUME r.action = "complete_install"
          PROVE  IntentReady(i)
      <3>1. PICK s \in SessionsOf(i) : exchange[s] = "credential_ready"
        BY <2>3, <2>6 DEF ReportOK
      <3>2. intent[i] \notin {"absent", "pending"}
        BY <2>4, <3>1, InstallAssumption DEF SessionsOf, ProgressInv, OwnersOK
      <3> QED
        BY <2>3, <2>4, <2>5, <2>6, <3>2 DEF IntentReady, IntentStatuses, Closed
    <2> HIDE DEF r
    <2> QED
      BY <2>2, <2>3, <2>5, <2>6 DEF ReportOK
  <1>2. ProgressInv /\ [ProgressNext]_pvars => [Sound]_pvars
    BY <1>1
  <1> QED
    BY <1>2, ProgressInvariance, PTL DEF ProgressSpec, AdviceWasPossible
=============================================================================
