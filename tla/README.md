# A verification project for better-cal

better-cal is a scheduling backend in Go (`src/backend`): an API command that
serves bookings, app installation, OAuth tokens and calendar settings over
Postgres, and a worker command that delivers what bookings cause: webhooks,
emails and calendar changes. This directory holds TLA+ models of its stateful
parts, TLC runs that check them on small instances, and TLAPS proofs of the
properties that matter most.

Paths below are relative to `src/backend/internal` unless they begin with `src/`.

## The system

| Component | State | Operations | Interaction | What makes it correct |
|---|---|---|---|---|
| Side-effect queue, `booking/postgres_repository.go`, `booking/side_effect_worker.go` | `booking_planned_side_effects`: status, next_attempt_at | plan (in the transaction of a booking), claim (`for update skip locked`), mark delivered, mark failed | workers share the table; a worker command runs `RunOnce` over one batch and exits | a row is in one pair of hands, is marked once, is delivered for good, is marked by the pass that claimed it |
| Dispatcher, `booking/postgres_side_effect_dispatcher*.go` | deliveries and attempts of webhooks, emails, calendar changes | prepare attempts in one transaction, send each pending one, mark it, dead-letter | called by the worker per row; reads bookings and subscriptions | retries send only what is outstanding; a row is delivered only when nothing is; a subscriber is disabled exactly at the threshold |
| Webhook subscriptions, `booking/*webhook_subscriptions.go` | active, disabled_at | seed at every start, read by trigger, disable | disabled by the dispatcher | seeding does not reactivate |
| Booking store, `booking/store.go` | `bookings`, `booking_idempotency_keys`; per process two maps | create, read, cancel, reschedule, confirm, decline | each API process has its own maps over the shared tables; plans side effects | one booking per idempotency key, one host decision, no two bookings on a slot, every change announced |
| Slots, `slots/` | event types, slots; reads bookings | is a slot free, read slots | asked by create and reschedule | only free offered slots are taken |
| App installation, `apps/` | intents, handoff sessions, previews, callbacks, exchanges, completions, installations | nine operations of a user and the provider callback; the reading of progress | calls the provider and the credential store | a session is spent once; an installation rests on an authorized callback; intent and completion agree; what a user is advised is possible |
| Provider credentials, `credentials/provider_*.go` | sealed tokens, credential metadata | store both | called by the exchange | a ready exchange has both |
| OAuth tokens, `auth/` | `oauth_authorization_codes`, `oauth_tokens` | exchange a code, rotate a refresh token, resolve an access token, seed | requests of all processes; row locks | one usable row per grant, linear rotation |
| Calendars, `calendars/` | connections and their status history, catalog, selection, destination; cached per process | sync, load, seed, select, deselect, set destination, refresh status | each API process at its start and for requests; asks the provider | the cache is the tables; foreign keys; a restart keeps what the user selected; a status change is recorded |
| Credential metadata, `credentials/store.go` | metadata, status; cached per process | seed, refresh status, load, read | each API process at its start; the provider exchange writes past its cache | what is served is what the provider reported |
| API start, `src/backend/cmd/api/main.go` | | credentials, then calendars, then serving | a step that fails ends the process | the order |
| API keys, clients, policy, HTTP, configuration, provider adapters | none that changes after start | | | left out, see the end |

The hard parts are those where processes meet in the database: claims of
several workers, crashes between a claim and its mark, answers lost on the way
back from a target, maps of one API process that another process outdates, and
check-then-act sequences that span two transactions. `PROJECT.json` lists each
of them as a hazard with its line and the property that covers it.

## Modules

Each module says in its header which code it models; comments on the variables
name the columns or fields. `PROJECT.json` maps every definition to its lines.

**SideEffectQueue** has one action per statement of the queue. A claim is two
steps: `ClaimSelect` locks the oldest due rows no other open claim holds,
`ClaimCommit` makes them `processing`. `TakeNext`, `DispatchReturns`,
`MarkDelivered` and `MarkFailed` are the loop of `RunOnce`; `WorkerStops` is a
crash, an expired context or a failed mark, after which the worker forgets its
batch. Another claim by the same worker is another run of the command. A dispatch may
return anything, so this module is the abstract
specification of the worker: whatever is proved of it holds of every dispatcher.

**SideEffectDispatch** extends it with the Postgres dispatcher, whose actions
are conjunctions of an action of the queue and its own changes: `PrepareRead`
is `TakeNext` plus the counting of attempts and the read of subscriptions,
`PrepareCommit` the commit of the new attempts, `Post` the HTTP request with
its answer, then the marks, and `DispatchEnds` is `DispatchReturns` with the
verdict. What is read on one connection and committed on another is two steps.
`CommitUnacknowledged` is a mark that commits and reports an error.
The targets of a row are subscriptions (webhooks) or the one configured endpoint
(email, calendar).

**BookingStore** has the tables and, per process, the two maps. A process holds
its mutex for a whole operation, so an operation is a sequence of the steps
`Find` / `BeginCreate`, `Materialize`, `CheckSlot`, `Save...` of one process
between which only other processes act. `Fail` ends an operation at any point,
`Restart` empties the maps. With `AcksLost` a commit may succeed while the
process takes it for failed, that of a materialized fixture included. `effects` records what was planned, by booking,
kind and request id, which is the conflict key of the table.

**BookingService** is its abstract specification: `booking.Store` without a
repository, one map on which every operation is one step that decides by the
current booking. The refinement mapping takes `bookings` to the table `db` and
`keys` to `dbKeys`; memory, program counters, failures and restarts disappear,
and an operation happens at its commit. A lone process implements it, two do not
(`host_decision`, `slot_race` break its guards), and neither does a lone process
that may lose an acknowledgement. `OnlyTheOvertakenDepart` says exactly when they
do not: each commit that is no step of the service belongs to an operation that
is no longer `Current`, because the row it would make exists, the copy it merges
into is outdated, or the slot it found is taken.

**AppInstall** has one variable per table of the installation. Operations that
read the intent first and write in a later transaction are two steps, or six
for the provider exchange (check, provider call, tokens, metadata, exchange).
Sessions stand for their previews, callbacks and exchanges, of which each
session has at most one.

**InstallProgress** extends it with `view`: what a process that reads the
progress of an intent has seen so far. `ReadInstallProgress` is seven
statements without a transaction, each a step that lets a later row override
the report of an earlier one. Rows are ordered by a time that the writing process took
from its clock before its transaction, so which of several is the latest is a
choice. The writes of `AppInstall` go on between the statements.

**OAuthTokens** has the rows of both tables, the row locks, and requests in
three steps: the check before the transaction, the locked read, the writes with
the commit. `seeds` counts the issues of a code, because a start of the API
saves the fixture code again and makes it unconsumed.

**TokenService** is its abstract specification: `auth.Service` without a
repository, where a mutex makes each exchange one step on two maps. The mapping
computes its maps from the rows: an open code is an unconsumed row, a live token
an unrevoked one. Where they differ, the service allows both: it loses a code
whose tokens cannot be generated, the database rolls back; a new process
without a repository knows no tokens, one over the database finds them again.

**IntegrationStatus** holds what connections and credentials share, a row with
a status and the code of the last check. Saving a row sets its status and keeps
the code, a status refresh sets both.

**CredentialStatus** and **CalendarStore** model a store each, one action per
statement, with the memory of each process. Both have a history flag, `credFresh` and
`fresh`: no other process has written since this one loaded or started. The
properties of the caches are about processes for which it is true, for the code
does nothing to keep several in step. `CalendarStore` has two threads of
control: the start (catalog sync, status refresh) and the requests, which share
the load with its sync and seeding. A synchronization reads connections and catalog in
two statements and writes in a third step; deleting a selection reads the destination
and deletes in a second step. The row locks of these reads are left out: in the model
other processes may write between them, and a row that was deleted and inserted again while a
sync waits counts as seen by it, which allows more than the code does.

**ApiStart** composes the two in the order of `cmd/api`: the calendars wait for
the credentials, requests for both; `Stop` may come at any time.

The `...MC` modules give the constants values that need a definition and the
symmetry sets; the `..._proofs` modules hold the theorems. Definitions whose
comment begins with "Mutant of" are plausible bugs of the definition that
follows them; no specification uses them.

## Runs

Passing runs:

| Run | Instance | Question |
|---|---|---|
| `dispatch` | 2 workers, webhook rows 1 and 2 sharing a subscription, row 2 with a second one, one direct row, batches of 2, threshold 2 | the safety of queue and dispatcher under every failure |
| `dispatch_live` | 2 workers, one webhook and one direct row, batches of 1 | does a pass mark what it claimed, and do the retries of a webhook end |
| `store_single` | 1 process, 1 key, 2 request ids, 1 slot, a pending booking, all operations | does the memory of a lone process agree with the database, does the host decide once, is what a row says announced, is an operation one step on one map |
| `store_shared` | 2 processes, 1 key, 1 request id, 1 slot, a pending booking, every operation but cancel and read, lost acknowledgements | is a key good for one booking, is what a row says announced, which commits depart from the service |
| `install` | 2 processes, 2 intents, 2 sessions, one reader at a time | is every order of the steps of installation safe, and what a user is told of it true |
| `oauth` | 2 requests, 1 code issued twice, 4 token rows | can a code or a token be exchanged twice, do the tables implement the service with one mutex |
| `api_start` | 2 processes, 1 credential, 1 connection with 2 calendars, both fixtures, a provider that offers nothing or one of them | what do processes that start, stop and serve remember, seed and refresh, against what the tables hold |

Violation runs, each a disagreement of the code with a document (`PROJECT.json`,
"findings"):

| Run | What it shows |
|---|---|
| `at_least_once` | a worker stops after its claim: the rows stay `processing` for ever, `locked_at` is never read |
| `host_decision` | two API processes confirm and decline one booking, the second from its outdated map |
| `slot_race` | two API processes find a slot free and both take it |
| `reschedule_twice` | the second reschedule plans no effects, its request id is that of the first |
| `provider_replay` | two processes handle one callback: the provider is called after the exchange was recorded |

Bounds. Two actors are enough for the races of this code, all of which are
between a step of one and a step of another on one row; a third would repeat
the role of one of the two. Threshold 2 lets an attempt fail below and at the threshold.
Batches of 2 with three rows leave a row for the other worker. On one slot any
two creates collide, and a cancellation frees it for the next. Two sessions of
one intent let an abandoned session compete with a new one; two intents let
sessions be confused. Four token rows are two grants with a rotation each, or a
chain of three rotations. `Tokens`, `Sessions` and `MaxSeeds` bound growth that
the code does not bound; `MaxAttempts`, `ClaimLimit` are parameters of the code.
The constraint of `install` lets one process read at a time, and
lets the intent that is read be the only one meanwhile: readers write nothing, and the
statements of a read select one intent. A session expires before its callback or
not at all: afterwards the expiry only refuses what may come too late anyway. The
constraint of `api_start` explores credentials and calendars one at a time, whose tables
and memories are disjoint; it lets one process start, load or set a destination
while the other serves requests or begins, with deletions of selections overlapping all of it
and catalog synchronizations one another; and of two processes that are both outdated it lets one begin again,
since the properties are about processes that are not and a process that an outdated
one disturbs at its start is explored. The provider
reports a connection as lost, which is not what fixtures are saved with, so that
a status that is overwritten shows. `store_single` has the second request id, `store_shared` the second
process: together, with all operations, they exceed 40 million states, and
`RowsAreAnnounced` and `DeparturesAreOvertaken` are proved for any number of both. Time
is a flag that may become true (`due`, `expired`).

Deadlock is not checked in the runs of the dispatcher: when every row is closed
and nothing seeds, the system has rightly nothing to do. In `oauth`,
`install`, `api_start` and the store a request can always come, so deadlock is checked.

Fairness. `cmd/worker` calls `RunOnce` once and exits, and its service in the compose file has
`restart: "no"`: nothing in the code takes up a failed row again, or even a planned one.
`FairDispatchSpec` therefore is fair only to a pass that has begun (`Pass`), one
goroutine whose statements and requests return; the claim that begins a pass
(`StartPass`), backoffs and the end of failures are not assumed. Under it every
claimed row is marked unless its worker stops (`ClaimedIsMarked`). `WebhookRetriesEnd` is
about commands that are run again without end: if the database and the processes fail no more
(a premise of the property), no webhook row is failed again and again, since
dead-lettering ends its retries. Email and calendar rows are, for
they have no threshold. That a row is delivered in the end cannot be a property of this
code. `at_least_once` shows that it does not even hold for a generous operator (`Reruns`, an
assumption of that run alone), who runs the command whenever it has ended
and whose database, processes and endpoints all recover.

## Proofs

The theorems hold for every value of the constants that meets the named
assumptions (`QueueAssumption`, `DispatchAssumption`, `StoreAssumption`,
`TokenAssumption`, `InstallAssumption`, `StatusAssumption`,
`CredentialAssumption`, `CalendarAssumption`), which say no more than that special
values such as `None` are not rows, that limits are positive, and what kind of
thing a target or a status is. They assume no number of workers, processes, rows
or targets. `PROJECT.json`, "theorems", names the results; each property was
checked by TLC first, and so was `AttemptInv`, the largest of the strengthenings.

**SideEffectQueue_proofs.** `ExclusiveClaim` is not inductive: a claim must also
know that rows locked by an open claim are still planned or failed, a mark that
the row in hand belongs to the batch, and a worker with an open claim must hold
no batch. `QueueInv` adds these; one lemma per action shows that it is
preserved. That a delivered row stays delivered follows, because what a claim
makes `processing` was not delivered. `ClaimsAreBounded` is about the operator
`Oldest`, which stands for the `order by ... limit` of the claim: it takes at most
`ClaimLimit` rows, by a cardinality argument: a row below a member has fewer rows
below it. That a batch holds no more follows.

**SideEffectDispatch_proofs.** `DispatchImplementsQueue` shows that each step
of the dispatcher is a step of the queue or leaves it alone, so what is proved
of the queue holds of the system. `AttemptInv` then relates what a worker
remembers to the tables (`WorkerOK`): the templates it built are for a row
without attempts, its pending list holds only pending attempts, every pending
attempt that it no longer lists has set `failed`, an "ok" it was given was
earned by the attempt it marks next. The argument why other workers do not
disturb this is one lemma, `OtherWorkerOK`: by `ExclusiveClaim` two workers
inside `Dispatch` are so for two rows. `NextTargetPending` needs a least
element of a set of naturals, taken from the well-foundedness of `<`. What
follows is said of whole runs. A target is sent to only while its attempt is pending
(`OnlyPendingIsSent`) and a settled attempt stays settled (`SettledForGood`), so a
target that has confirmed is not sent the row again by anyone. Since a subscription is
disabled exactly when an attempt to it is dead, it stays disabled
(`DisabledForGood`). A row that is delivered has reached every recipient it
recorded but those disabled at the threshold (`ClosedReachedEveryone`). And a row that a
stopped worker left behind is lost for good (`OrphansAreLost`), but only the stop of
the worker that has the row in its batch does that (`OnlyStopsOrphan`): together they
say what `at_least_once` shows on an instance, and that there is no other way.

**BookingStore_proofs** holds for any number of processes, with lost
acknowledgements and restarts. `KeyInv` states that the key rows and the creates
agree: a key that is not in the table was never used, one that is was used
once. `CreatedOncePerKey` follows, for the database and for what each process
remembers. The type invariant needs that an operation about to save has its
booking in the map.

`RowsAreAnnounced` is the outbox: a row that says cancelled, declined,
confirmed or moved has effects of such a change planned, under the request id it
carries. It holds although copies may be outdated, since each save writes row and
effects from the same copy. It is not inductive alone: a save
takes the rest of the row from the copy, so the proof needs that only the
fixtures of the host are ever pending, in the tables or in any map
(`OnlyFixturesPend`), and where copies come from (`CopyOrigin`). It is not that every
change is announced: a second change of one kind under one request id plans nothing of its
own, as `reschedule_twice` shows.

`OperationInv` says what an operation knows by itself, whoever else writes: only
fixtures are materialized, and a host decision that is about to be saved is over a
copy that is pending. With it `StepRefines` maps each commit of a `Current`
operation to an operation of the service and each other step to a stutter.
`DeparturesAreOvertaken` bounds what goes wrong with several
processes or lost acknowledgements: only commits of operations that something overtook.
The lemma `ConditionalCommitsImplementService` turns it around: if no operation goes
on when it is overtaken (`NeverOvertaken`), the store implements the service. The code does
not establish that condition for two processes; for one it does, below. `CopiesAgeByOthers`: a copy becomes outdated only by a
commit of another process or by a lost acknowledgement.

**BookingStoreSingle_proofs** says what goes right when, and needs no invariant
of the detailed store for the host's decisions: it proves them of the service.
`HostStep` lists what one step of the service may do to a booking with a host, and
`HostInv`, that an undecided booking was announced nothing and a decided one
at most one decision, is inductive under it. So whatever implements the service
decides once (`ServiceDecidesOnce`), and with `ConditionalCommitsImplementService` any
number of processes do, as long as no operation goes on when overtaken
(`NoOvertakingOneDecision`, `NoOvertakingDecisionIsFinal`).

Two degrees of the condition that a deployment can bring about are proved of a lone
process. Under `OneProcess`, with acknowledgements lost or not, a row found missing
is missing and a slot found available is available until the commit (`StepInv`),
because both are read from the database; so no slot is taken twice
(`OneProcessSlotIsFree`). Under `SingleProcess`, which adds that no acknowledgement
is lost, the map agrees with the rows, by `CopiesAgeByOthers` (there are no
others), hence every operation is `Current` and `NeverOvertaken` holds: the
refinement and both host properties are instances. With two
processes all of these fail (`host_decision`, `slot_race`), and with a lost
acknowledgement the map is outdated and a booking can be decided twice: the
theorems say what the code relies on.

**OAuthTokens_proofs.** `TableInv` says that grants refer to issues of a code
that took place, that a grant with rows has exactly one live token, that rotation is linear, and
that a code is consumed exactly when a token of its latest issue exists;
`RequestInv`, that a request past its locked read holds the lock of a row that
exists and is unspent. The second is what makes the first inductive: without
it two requests could both write what they read. `TablesImplementService` uses
both: a request that commits holds the lock of an unspent row, which is in the map of
the service, and inserts a row that was never given. `RotationHandsOn` is about
steps: a live row ends only where its live successor begins, so no order of
requests, rollbacks and starts leaves a grant without a usable token.

**AppInstall_proofs.** `InstallInv` adds to the checked properties what an
operation knows between its steps (`StepOK`: its session belongs to its intent,
its callback was authorized, what it stored is there), that a callback and an
exchange agree (`SessionOK`), and that a completion names a recorded exchange
(`CompletionOK`). The columns of a session are written once (`SessionsGrow`), so
no other process can disturb this. Two properties fail with several
processes, that a replay stops before the provider and that a closed intent is left
alone (`ClosedIntentIsQuiet`), because what an operation read at its beginning, an open intent
and no exchange, may be past when it writes. `OnlySavesOvertake` says by what:
only by another process completing that intent or recording that exchange. If that
does not happen (`NeverOvertaken`), both hold for any number of processes
(`NoOvertakingNoReplay`, `NoOvertakingClosesIntents`); a lone process, whose mutex covers
check and write, is a case of it.

**InstallProgress_proofs.** `ProgressImplementsInstall` carries every theorem of
`AppInstall` over (`ProgressKeepsTables`): a reader's step leaves the tables alone. The rows a reader
has seen only grow (`RowsAreWrittenOnce`): a recorded callback, exchange or completion
keeps its value, so what one statement found is still true when the last has
answered, and only the status of the intent can be overtaken. `EndIsTold` and
`AdviceIsSound` rest on that and on the agreement of status and completion.

**ApiStart_proofs.** `ApiInvariance` is about one process whose flag is true:
what its load has read so far is what the tables hold (`LoadIsCurrent`), its
memory once loaded is the tables, its report is in the rows from the refresh on (`Reported`),
and what it seeds is counted (`SeedInBounds`). One lemma per statement shows
this for the process that takes it; that others need no such case analysis is
`OthersUndisturbed`: a write by one makes the flag of all others false, and a
read changes nothing they know. The
foreign keys of the tables (`ForeignKeys`) are a conjunct of the invariant, for the load and the
requests rely on them; the database enforces them, so they are no result of their own.

Out of the prover's reach, and left to TLC: liveness under fairness
(`ClaimedIsMarked`, `WebhookRetriesEnd`). Every safety property of a passing run, and every refinement, is a theorem, for
all instances or, where the run has one process, under `OneProcess` or
`SingleProcess`.

## What the models show of the code

Beside the violation runs, modelling brought out behaviour that no document
promises or forbids, and that the properties are worded around:

- A credential that a provider exchange stores is not shown by the process that
  stored it until it restarts (`CredentialCacheIsCurrent` is about the table and
  a process no exchange has outdated).
- A user who deselects every calendar finds the fixtures selected again after a
  restart: an empty selection is what a first start looks like
  (`SeedsOnlyAnEmptySelection`). A failure between seeding the selection and the
  destination is never repaired, because the selection is no longer empty.
- `selected_calendars` has no foreign key to the catalog. A process with an
  outdated catalog may select a calendar that is gone, and no later sync prunes
  the row.
- Cancel looks at no status, so it makes a cancelled booking of a rejected one, a transition
  that the lifecycle table (`src/docs/spec/booking-lifecycle-spec.md`) does not have;
  `HostDecisionIsFinal` admits it.
- A destination that another process has selected is accepted and dropped again
  by the next read of the destination (`ReadDestinationCalendar`).
- With two processes in their first sync, the status history may miss a change
  (`StatusChangeIsRecorded`).
- The progress of an intent advises `record_callback_preflight` for a consumed
  session that has expired, where it cannot succeed, and
  `await_provider_exchange` for a queued exchange that nothing turns ready.
- The two pending fixtures share one start, and confirming looks at no slot, so
  both can be confirmed; nor does materializing a fixture look at the slot.
- Every start of the API makes a spent fixture code valid again; the token
  properties are stated per issue of a code.

## What is left

The code has no conditional writes, so nothing here establishes `NeverOvertaken`
for several processes; what would follow from them is proved. The queue under
the effects that `BookingStore` plans: the two meet in one insert inside the
transaction of the booking, which both modules have as an atomic step.

## Not modelled

- The in-memory fallbacks of the other stores: one process, one mutex, reached by
  the unit tests.
- The HTTP handlers and the authorization policy. A handler authenticates, reads
  the booking, asks a pure table whether its owner or a host may act, and calls
  the store again. Between read and call the booking may change, but its owner
  and hosts never do, so the decision cannot be outdated.
- API keys, OAuth clients and platform clients: reads and idempotent seeding.
- Configuration, logging, provider adapters (stateless formatting), the Node tools
  under `src/tools`, the webhook sink used in development.
- The delivery log table (write-only) and `failure_count` (never read); names and
  provider ids of calendars, which no guard reads; scopes and labels.
- The clock: `due` and `expired` are flags that may become true.
- A host decision that collides with a booking made on the same time: the
  pending fixtures start outside the slots on offer.
