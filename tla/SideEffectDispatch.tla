-------------------------- MODULE SideEffectDispatch --------------------------
(***************************************************************************)
(* The queue of SideEffectQueue with the dispatcher the worker command     *)
(* runs, PostgresSideEffectDispatcher: one transaction records a delivery  *)
(* and its attempts, then every pending attempt is sent over HTTP and      *)
(* marked.  A webhook effect is sent to the active subscriptions of its    *)
(* trigger, an email or calendar effect to the one configured endpoint.    *)
(***************************************************************************)
EXTENDS SideEffectQueue

CONSTANTS
    Subs,           \* webhook subscriptions, by id
    Endpoint,       \* the email or calendar URL of the configuration
    DirectEffects,  \* the email and calendar effects; the others are webhooks
    SubsOf,         \* SubsOf[e]: subscriptions whose trigger matches webhook e
    MaxAttempts     \* maxAttempts of the dispatcher (3 unless configured)

Targets == Subs \cup {Endpoint}
WebhookEffects == Effects \ DirectEffects

ASSUME DispatchAssumption ==
    /\ Targets \subseteq Nat
    /\ Endpoint \notin Subs
    /\ DirectEffects \subseteq Effects
    /\ SubsOf \in [WebhookEffects -> SUBSET Subs]
    /\ MaxAttempts \in Nat \ {0}

VARIABLES
    sub,       \* sub[s]: "absent", "active" or "disabled"
    attempt,   \* attempt[e][t]: "none", or the state of the recorded attempt
    tries,     \* tries[e][s]: attempt_count of a webhook attempt
    phase,     \* phase[w]: where Dispatch stands
    snapshot,  \* snapshot[w]: targets of the attempt templates w has built
    pending,   \* pending[w]: attempts w has still to send
    posted,    \* posted[w]: what the transport said of the attempt just sent
    failed,    \* failed[w]: dispatchErr is set
    received   \* pairs <<e, t>> such that t has processed a request for e

dispatchVars == <<sub, attempt, tries, phase, snapshot, pending, posted, failed, received>>
vars == <<queueVars, dispatchVars>>

DispatchInit ==
    /\ Init
    /\ sub = [s \in Subs |-> "absent"]
    /\ attempt = [e \in Effects |-> [t \in Targets |-> "none"]]
    /\ tries = [e \in Effects |-> [s \in Subs |-> 0]]
    /\ phase = [w \in Workers |-> "out"]
    /\ snapshot = [w \in Workers |-> {}]
    /\ pending = [w \in Workers |-> {}]
    /\ posted = [w \in Workers |-> "none"]
    /\ failed = [w \in Workers |-> FALSE]
    /\ received = {}

\* A worker that is not inside Dispatch.
LeaveDispatch(w) ==
    /\ phase' = [phase EXCEPT ![w] = "out"]
    /\ snapshot' = [snapshot EXCEPT ![w] = {}]
    /\ pending' = [pending EXCEPT ![w] = {}]
    /\ posted' = [posted EXCEPT ![w] = "none"]
    /\ failed' = [failed EXCEPT ![w] = FALSE]

-----------------------------------------------------------------------------
(* Subscriptions *)

\* Mutant of SeedSubscription: the upsert sets active whatever disabled_at is.
SeedAlwaysActivates(s) ==
    /\ sub[s] # "active"
    /\ sub' = [sub EXCEPT ![s] = "active"]
    /\ UNCHANGED queueVars
    /\ UNCHANGED <<attempt, tries, phase, snapshot, pending, posted, failed, received>>

\* Every start of the api and worker commands saves the fixture
\* subscriptions; a subscription with disabled_at set keeps its state.
SeedSubscription(s) ==
    /\ sub[s] = "absent"
    /\ sub' = [sub EXCEPT ![s] = "active"]
    /\ UNCHANGED queueVars
    /\ UNCHANGED <<attempt, tries, phase, snapshot, pending, posted, failed, received>>

-----------------------------------------------------------------------------
(* Dispatch: the transaction that prepares the attempts *)

Recorded(e) == {t \in Targets : attempt[e][t] # "none"}

\* Mutant of PendingIn: "dead_lettered_at is null" is forgotten.
UnconfirmedIn(row) == {t \in Targets : row[t] \in {"pending", "dead"}}

\* readPendingWebhookAttempts and its siblings, for the attempts of one row.
PendingIn(row) == {t \in Targets : row[t] = "pending"}

\* Mutant of NewTemplates: every preparation builds them.
TemplatesEachTime(e) ==
    IF e \in DirectEffects THEN {Endpoint}
    ELSE {s \in SubsOf[e] : sub[s] = "active"} \ Recorded(e)

\* If the delivery has no attempts yet, webhookAttemptTemplates reads the
\* active subscriptions on a connection of its own; the email and calendar
\* templates have the configured URL.
NewTemplates(e) ==
    IF Recorded(e) # {} THEN {}
    ELSE IF e \in DirectEffects THEN {Endpoint}
    ELSE {s \in SubsOf[e] : sub[s] = "active"}

\* The loop of RunOnce calls Dispatch for the next row; the transaction counts
\* the attempts and builds templates if there are none.
PrepareRead(w) ==
    /\ TakeNext(w)
    /\ phase' = [phase EXCEPT ![w] = "preparing"]
    /\ snapshot' = [snapshot EXCEPT ![w] = NewTemplates(current'[w])]
    /\ UNCHANGED <<sub, attempt, tries, pending, posted, failed, received>>

\* The transaction commits the new attempts and has read the pending ones.
PrepareCommit(w) ==
    /\ phase[w] = "preparing"
    /\ attempt' = [attempt EXCEPT ![current[w]] =
                     [t \in Targets |-> IF t \in snapshot[w] THEN "pending" ELSE @[t]]]
    /\ pending' = [pending EXCEPT ![w] = PendingIn(attempt'[current[w]])]
    /\ phase' = [phase EXCEPT ![w] = "sending"]
    /\ snapshot' = [snapshot EXCEPT ![w] = {}]
    /\ UNCHANGED queueVars
    /\ UNCHANGED <<sub, tries, posted, failed, received>>

\* A statement of the transaction, the booking read or the secret lookup
\* fails: the transaction rolls back and Dispatch returns the error.
PrepareFails(w) ==
    /\ phase[w] = "preparing"
    /\ DispatchReturns(w, "error")
    /\ LeaveDispatch(w)
    /\ UNCHANGED <<sub, attempt, tries, received>>

-----------------------------------------------------------------------------
(* Dispatch: sending and marking, one attempt after the other *)

\* Pending attempts are read "order by id".
NextTarget(w) == CHOOSE t \in pending[w] : \A u \in pending[w] : t <= u

Sending(w) == phase[w] = "sending" /\ pending[w] # {} /\ posted[w] = "none"

\* The transport's answer: 2xx, or an error that may hide a request the target
\* did process (a lost answer, the 5 second timeout, a non-2xx reply).
Post(w) ==
    /\ Sending(w)
    /\ \E answer \in {"ok", "error"} :
          /\ posted' = [posted EXCEPT ![w] = answer]
          /\ received' \in
               IF answer = "ok" THEN {received \cup {<<current[w], NextTarget(w)>>}}
               ELSE {received, received \cup {<<current[w], NextTarget(w)>>}}
    /\ UNCHANGED queueVars
    /\ UNCHANGED <<sub, attempt, tries, phase, snapshot, pending, failed>>

\* prepareEmailProviderDispatch or prepareCalendarProviderDispatch fails.
ProviderFails(w) ==
    /\ Sending(w)
    /\ current[w] \in DirectEffects
    /\ DispatchReturns(w, "error")
    /\ LeaveDispatch(w)
    /\ UNCHANGED <<sub, attempt, tries, received>>

AttemptIsPending(e, t) == attempt[e][t] = "pending"

SentOne(w) ==
    /\ pending' = [pending EXCEPT ![w] = @ \ {NextTarget(w)}]
    /\ posted' = [posted EXCEPT ![w] = "none"]
    /\ UNCHANGED queueVars
    /\ UNCHANGED <<phase, snapshot, received>>

\* Mutant of MarkAttemptDelivered: any answer of the transport confirms.
MarkAnsweredDelivered(w) ==
    /\ posted[w] # "none"
    /\ AttemptIsPending(current[w], NextTarget(w))
    /\ attempt' = [attempt EXCEPT ![current[w]][NextTarget(w)] = "delivered"]
    /\ SentOne(w)
    /\ UNCHANGED <<sub, tries, failed>>

MarkAttemptDelivered(w) ==
    /\ posted[w] = "ok"
    /\ AttemptIsPending(current[w], NextTarget(w))
    /\ attempt' = [attempt EXCEPT ![current[w]][NextTarget(w)] = "delivered"]
    /\ SentOne(w)
    /\ UNCHANGED <<sub, tries, failed>>

\* Mutant of Exhausted: one attempt too many.
ExhaustedLate(count) == count > MaxAttempts

Exhausted(count) == count >= MaxAttempts

\* Mutant of MarkWebhookAttemptFailed: the attempt is not counted.
MarkWebhookUncounted(w) ==
    /\ posted[w] = "error"
    /\ NextTarget(w) \in Subs
    /\ AttemptIsPending(current[w], NextTarget(w))
    /\ failed' = [failed EXCEPT ![w] = TRUE]
    /\ SentOne(w)
    /\ UNCHANGED <<sub, attempt, tries>>

\* A failed webhook attempt counts; at the threshold the attempt is dead-
\* lettered, its subscriber disabled, and the error is not reported.
MarkWebhookAttemptFailed(w) ==
    LET e == current[w]
        s == NextTarget(w)
        exhausted == Exhausted(tries[e][s] + 1)
    IN  /\ posted[w] = "error"
        /\ s \in Subs
        /\ AttemptIsPending(e, s)
        /\ tries' = [tries EXCEPT ![e][s] = @ + 1]
        /\ attempt' = [attempt EXCEPT ![e][s] = IF exhausted THEN "dead" ELSE @]
        /\ sub' = [sub EXCEPT ![s] = IF exhausted THEN "disabled" ELSE @]
        /\ failed' = [failed EXCEPT ![w] = @ \/ ~exhausted]
        /\ SentOne(w)

\* Mutant of MarkDirectAttemptFailed: the attempt is sent again in the same
\* pass until the endpoint takes it.
MarkDirectResends(w) ==
    /\ posted[w] = "error"
    /\ NextTarget(w) = Endpoint
    /\ AttemptIsPending(current[w], Endpoint)
    /\ posted' = [posted EXCEPT ![w] = "none"]
    /\ UNCHANGED queueVars
    /\ UNCHANGED <<sub, attempt, tries, phase, snapshot, pending, failed, received>>

\* A failed email or calendar attempt stays pending whatever its count.
MarkDirectAttemptFailed(w) ==
    /\ posted[w] = "error"
    /\ NextTarget(w) = Endpoint
    /\ AttemptIsPending(current[w], Endpoint)
    /\ failed' = [failed EXCEPT ![w] = TRUE]
    /\ SentOne(w)
    /\ UNCHANGED <<sub, attempt, tries>>

\* Marking an attempt fails in the database: Dispatch returns that error at
\* once and leaves the other attempts for a retry.
MarkAttemptErrors(w) ==
    /\ posted[w] # "none"
    /\ DispatchReturns(w, "error")
    /\ LeaveDispatch(w)
    /\ UNCHANGED <<sub, attempt, tries, received>>

\* The commit of the preparation, or of the last mark, took place but is
\* reported as failed: Dispatch returns that error.  (With dispatchErr set and
\* nothing left to send it would have returned an error all the same.)
CommitUnacknowledged(w) ==
    /\ phase[w] = "sending"
    /\ posted[w] = "none"
    /\ pending[w] # {} \/ ~failed[w]
    /\ DispatchReturns(w, "error")
    /\ LeaveDispatch(w)
    /\ UNCHANGED <<sub, attempt, tries, received>>

\* Mutant of DispatchEnds: dispatchErr is not returned.
DispatchEndsOK(w) ==
    /\ phase[w] = "sending"
    /\ pending[w] = {}
    /\ DispatchReturns(w, "ok")
    /\ LeaveDispatch(w)
    /\ UNCHANGED <<sub, attempt, tries, received>>

DispatchEnds(w) ==
    /\ phase[w] = "sending"
    /\ pending[w] = {}
    /\ DispatchReturns(w, IF failed[w] THEN "error" ELSE "ok")
    /\ LeaveDispatch(w)
    /\ UNCHANGED <<sub, attempt, tries, received>>

-----------------------------------------------------------------------------
(* The worker command *)

\* The steps of the queue that involve no dispatch.
QueueOnly(A) == A /\ UNCHANGED dispatchVars

Stops(w) ==
    /\ WorkerStops(w)
    /\ LeaveDispatch(w)
    /\ UNCHANGED <<sub, attempt, tries, received>>

\* The command is run: RunOnce opens its claim.  Nothing in the repository
\* runs it again; somebody may, at any time.
StartPass(w) == QueueOnly(ClaimSelect(w))

\* The rest of the one pass a command makes, when nothing of its own fails.
Pass(w) ==
    \/ QueueOnly(ClaimCommit(w))
    \/ PrepareRead(w)
    \/ PrepareCommit(w)
    \/ Post(w)
    \/ MarkAttemptDelivered(w)
    \/ MarkWebhookAttemptFailed(w)
    \/ MarkDirectAttemptFailed(w)
    \/ DispatchEnds(w)
    \/ QueueOnly(MarkDelivered(w))
    \/ QueueOnly(MarkFailed(w))

Failure(w) ==
    \/ PrepareFails(w)
    \/ ProviderFails(w)
    \/ MarkAttemptErrors(w)
    \/ CommitUnacknowledged(w)
    \/ Stops(w)

Environment ==
    \/ \E e \in Effects : QueueOnly(Plan(e))
    \/ \E e \in Effects : QueueOnly(BackoffElapses(e))
    \/ \E s \in Subs : SeedSubscription(s)

DispatchNext ==
    \/ Environment
    \/ \E w \in Workers : StartPass(w) \/ Pass(w)
    \/ \E w \in Workers : Failure(w)

DispatchSpec == DispatchInit /\ [][DispatchNext]_vars

-----------------------------------------------------------------------------
(* Safety *)

AttemptStates == {"none", "pending", "delivered", "dead"}

DispatchTypeOK ==
    /\ QueueTypeOK
    /\ sub \in [Subs -> {"absent", "active", "disabled"}]
    /\ attempt \in [Effects -> [Targets -> AttemptStates]]
    /\ tries \in [Effects -> [Subs -> 0..MaxAttempts]]
    /\ phase \in [Workers -> {"out", "preparing", "sending"}]
    /\ snapshot \in [Workers -> SUBSET Targets]
    /\ pending \in [Workers -> SUBSET Targets]
    /\ posted \in [Workers -> {"none", "ok", "error"}]
    /\ failed \in [Workers -> BOOLEAN]
    /\ received \subseteq Effects \X Targets

\* The worker's list of attempts to send, read in the transaction that
\* prepared them, agrees with the table until each is marked: a retry resends
\* only what is still pending, and a mark never finds "was not pending".
PendingIsAccurate ==
    \A w \in Workers : \A t \in pending[w] : AttemptIsPending(current[w], t)

\* A row is marked delivered only when nothing it recorded is outstanding:
\* every attempt was confirmed by its target or dead-lettered, and an email or
\* calendar row has a confirmed attempt.
DeliveredMeansSettled ==
    \A e \in Effects : status[e] = "delivered" =>
        /\ \A t \in Targets : attempt[e][t] # "pending"
        /\ e \in DirectEffects => attempt[e][Endpoint] = "delivered"

\* A subscription is disabled exactly when one of its attempts is
\* dead-lettered, and an attempt is dead-lettered exactly at the threshold;
\* seeding at process start does not bring the subscription back.
DeadLetterDisables ==
    /\ \A s \in Subs :
         sub[s] = "disabled" <=> \E e \in Effects : attempt[e][s] = "dead"
    /\ \A e \in Effects, s \in Subs :
         attempt[e][s] = "dead" <=> tries[e][s] = MaxAttempts

\* An attempt recorded as delivered was processed by its own target for its
\* own effect: answers are never booked on another attempt.
ConfirmedWasReceived ==
    \A e \in Effects, t \in Targets :
        attempt[e][t] = "delivered" => <<e, t>> \in received

\* The recipients of an effect are settled by the first transaction that
\* records attempts: a subscription that appears between two retries is not
\* added, and none is dropped.
RecipientsAreFixed ==
    [][\A e \in Effects : Recorded(e) # {} => Recorded(e)' = Recorded(e)]_vars

-----------------------------------------------------------------------------
(* Liveness *)

\* The row was claimed by a worker that stopped: nothing reads locked_at, so
\* no later claim takes it.
Orphaned(e) == status[e] = "processing" /\ \A w \in Workers : e \notin batch[w]

\* A pass that has begun is one goroutine whose statements and requests all
\* return (5 seconds for a request): it is not left hanging between two steps.
\* Nothing is assumed about running the command again.
FairDispatchSpec == DispatchSpec /\ \A w \in Workers : WF_vars(Pass(w))

\* A pass ends with every row it claimed marked, whatever its dispatches met,
\* unless its process stops: RunOnce resends nothing in place, goes on after a
\* failed row, and each of its marks finds its row.
ClaimedIsMarked ==
    \A e \in Effects :
        status[e] = "processing" ~> (status[e] \in {"failed", "delivered"} \/ Orphaned(e))

\* Once the database and the processes fail no more, a webhook row is not
\* retried for ever, however often the command is run and whatever its
\* subscribers answer: counting and dead-lettering end its retries.
WebhookRetriesEnd ==
    <>[][\A w \in Workers : ~Failure(w)]_vars =>
        \A e \in WebhookEffects : <>[](status[e] = "failed") \/ <>[](status[e] # "failed")

\* An operator far more generous than the code: the command is run again
\* whenever it has ended, backoffs pass, and every failure of the database, of
\* the processes and of the email and calendar endpoints comes to an end.
Reruns ==
    /\ \A e \in Effects : WF_vars(QueueOnly(BackoffElapses(e)))
    /\ \A w \in Workers : WF_vars(StartPass(w) \/ Pass(w))
    /\ <>[][\A w \in Workers : ~Failure(w)]_vars
    /\ <>[][\A w \in Workers :
              Post(w) /\ current[w] \in DirectEffects => posted'[w] = "ok"]_vars

RerunSpec == DispatchSpec /\ Reruns

\* "The worker command claims planned or retryable side effects ... Delivery
\* remains at-least-once across network and persistence boundaries."  It is
\* not so even for the generous operator: nothing reads locked_at.
AtLeastOnce ==
    \A e \in Effects : status[e] = "planned" ~> status[e] = "delivered"
=============================================================================
