--------------------------- MODULE InstallProgress ---------------------------
(***************************************************************************)
(* ReadInstallProgress of apps.Store beside the operations of AppInstall:  *)
(* what a user is told of an intent and advised to do next.  It is seven   *)
(* statements, each on a connection of its own, between which other        *)
(* processes write; a later row overrides what an earlier one says.        *)
(* newAppInstallProgress applies its rules after the last statement.  As   *)
(* each rule looks at one row, and one also at the status of the intent,   *)
(* the report is computed here along with the reads.                       *)
(***************************************************************************)
EXTENDS AppInstall

VARIABLE view  \* view[p]: how far p has read, what it has seen and would say

pvars == <<vars, view>>

Report(status, action) == [status |-> status, action |-> action]

NoView == [at |-> "none", intent |-> None, installStatus |-> "absent",
           report |-> Report("pending", "start_external_auth")]

ProgressInit == Init /\ view = [p \in Procs |-> NoView]

\* The read holds Store.mu: the process does nothing else meanwhile.
Free(p) == view[p] = NoView

-----------------------------------------------------------------------------
(* What the rows say *)

\* The status of an intent, and of a completion.
StatusReport(status) ==
    CASE status = "pending" -> Report("pending", "start_external_auth")
      [] status = "requires_external_auth" ->
            Report("external_auth_ready", "read_external_auth_descriptor")
      [] status = "installed" -> Report("installed", "none")
      [] status = "blocked" -> Report("blocked", "create_new_install_intent")

\* The expiry is compared with the time at which the read began: of a session
\* that has expired since, the report does not know.
SessionReports(s) ==
    IF s \in consumed
    THEN {Report("handoff_consumed", "record_callback_preflight")}
    ELSE {Report("handoff_ready", "preview_authorization")}
           \cup {Report("handoff_expired", "read_external_auth_descriptor") : e \in expired \cap {s}}

PreviewReport == Report("authorization_preview_recorded", "record_callback_preflight")

CallbackReport(s) ==
    Report("callback_preflight_recorded",
           IF callback[s] = "provider_denied" THEN "restart_external_auth"
           ELSE "await_provider_exchange")

ExchangeReport(s) ==
    CASE exchange[s] = "queued" ->
            Report("provider_exchange_queued", "await_provider_exchange")
      [] exchange[s] = "blocked" ->
            Report("provider_exchange_blocked", "restart_external_auth")
      [] exchange[s] = "credential_ready" ->
            Report("provider_credential_ready", "complete_install")

\* Mutant of ClosedReport: the status of the intent is not looked at, and of
\* the completion only that it is there.
ClosedReportAlways(p) ==
    IF completion[view[p].intent] # "none" THEN StatusReport("installed") ELSE view[p].report

\* Mutant of ClosedReport: the status of the intent is trusted alone.
ClosedReportByIntent(p) ==
    IF view[p].installStatus \in {"installed", "blocked"}
    THEN StatusReport(view[p].installStatus) ELSE view[p].report

\* The completion decides; without one, the status of an intent that is closed.
ClosedReport(p) ==
    LET i == view[p].intent
    IN  IF completion[i] # "none" THEN StatusReport(completion[i])
        ELSE IF view[p].installStatus \in {"installed", "blocked"}
             THEN StatusReport(view[p].installStatus)
             ELSE view[p].report

-----------------------------------------------------------------------------
(* The seven statements *)

SessionsOf(i) == {s \in Sessions : owner[s] = i}

ReadIntent(p, i) ==
    /\ Idle(p)
    /\ Free(p)
    /\ intent[i] # "absent"
    /\ view' = [view EXCEPT ![p] = [at |-> "session", intent |-> i, installStatus |-> intent[i],
                                    report |-> StatusReport(intent[i])]]

\* One of several rows is the latest.  Rows carry the time of the request that
\* wrote them, taken before its transaction by the clock of its process, so that
\* any of them may be.
ReadLatest(p, at, next, reports) ==
    /\ view[p].at = at
    /\ \E r \in IF reports = {} THEN {view[p].report} ELSE reports :
          view' = [view EXCEPT ![p].at = next, ![p].report = r]

ReadLatestExternalAuthSession(p) ==
    ReadLatest(p, "session", "preview",
               UNION {SessionReports(s) : s \in SessionsOf(view[p].intent)})

ReadLatestExternalAuthAuthorizationPreview(p) ==
    ReadLatest(p, "preview", "preflight",
               {PreviewReport : s \in SessionsOf(view[p].intent) \cap previews})

ReadLatestExternalAuthCallbackPreflight(p) ==
    ReadLatest(p, "preflight", "exchange",
               {CallbackReport(s) : s \in {t \in SessionsOf(view[p].intent) : callback[t] # "none"}})

ReadLatestExternalAuthProviderExchange(p) ==
    ReadLatest(p, "exchange", "completion",
               {ExchangeReport(s) : s \in {t \in SessionsOf(view[p].intent) : exchange[t] # "none"}})

ReadLatestAppInstallCompletion(p) ==
    ReadLatest(p, "completion", "installation", {ClosedReport(p)})

ReadLatestAppInstallation(p) ==
    ReadLatest(p, "installation", "answer",
               {Report("active", "none") : i \in {view[p].intent} \cap installed})

\* The user has the answer, or a statement failed.
EndRead(p) ==
    /\ ~Free(p)
    /\ view' = [view EXCEPT ![p] = NoView]

ReadStep(p) ==
    \/ \E i \in Intents : ReadIntent(p, i)
    \/ ReadLatestExternalAuthSession(p)
    \/ ReadLatestExternalAuthAuthorizationPreview(p)
    \/ ReadLatestExternalAuthCallbackPreflight(p)
    \/ ReadLatestExternalAuthProviderExchange(p)
    \/ ReadLatestAppInstallCompletion(p)
    \/ ReadLatestAppInstallation(p)
    \/ EndRead(p)

InstallStep(p) ==
    \/ Free(p) /\ \E i \in Intents : IntentRequest(p, i)
    \/ Free(p) /\ \E s \in Sessions : SessionRequest(p, s)
    \/ Continue(p)

ProgressNext ==
    \/ \E s \in Sessions : Expire(s) /\ UNCHANGED view
    \/ \E p \in Procs : InstallStep(p) /\ UNCHANGED view
    \/ \E p \in Procs : ReadStep(p) /\ UNCHANGED vars

ProgressSpec == ProgressInit /\ [][ProgressNext]_pvars

-----------------------------------------------------------------------------
(* Properties *)

Closed(status) == status \in {"installed", "blocked"}

\* Although its statements see different moments, an answer that speaks of the
\* end of an installation is true, and one given after the end speaks of it: no
\* session, callback or exchange that is left over hides that.
EndIsReported ==
    \A p \in Procs : view[p].at = "answer" =>
        LET i == view[p].intent
            status == view[p].report.status
        IN  /\ Closed(status) => completion[i] = status
            /\ status = "active" => i \in installed
            /\ Closed(view[p].installStatus) =>
                  status = view[p].installStatus \/ status = "active"

\* What the report advises could be done at a moment of the read, the one when
\* the completion was looked up: the intent was open; a user told to complete it
\* had an exchange that may complete it, one told to start again had been
\* denied.
AdviceWasPossible ==
    [][\A p \in Procs : ReadLatestAppInstallCompletion(p) =>
         LET i == view[p].intent
             action == view'[p].report.action
         IN  /\ action \notin {"none", "create_new_install_intent"} => ~Closed(intent[i])
             /\ action = "complete_install" =>
                   /\ IntentReady(i) /\ completion[i] = "none"
                   /\ \E s \in SessionsOf(i) : exchange[s] = "credential_ready"
             /\ action = "restart_external_auth" =>
                   \E s \in SessionsOf(i) : callback[s] = "provider_denied"]_pvars
=============================================================================
