------------------------ MODULE SideEffectDispatch_proofs ------------------------
(***************************************************************************)
(* The dispatcher implements the queue, and what it promises about the     *)
(* attempts of a row holds for any rows, workers, subscriptions and any    *)
(* threshold: AttemptInv is inductive.                                     *)
(***************************************************************************)
EXTENDS SideEffectDispatch, SideEffectQueue_proofs, WellFoundedInduction

\* What a worker knows of the row it dispatches.
WorkerOK(w) ==
    LET e == current[w]
    IN  /\ phase[w] = "out" => /\ snapshot[w] = {}
                               /\ pending[w] = {}
                               /\ posted[w] = "none"
                               /\ ~failed[w]
        /\ phase[w] # "out" => e \in Effects /\ verdict[w] = "none"
        /\ phase[w] = "preparing" =>
              /\ pending[w] = {}
              /\ posted[w] = "none"
              /\ ~failed[w]
              /\ snapshot[w] = {} \/ Recorded(e) = {}
              /\ e \in DirectEffects => /\ snapshot[w] \subseteq {Endpoint}
                                        /\ \/ snapshot[w] = {Endpoint}
                                           \/ attempt[e][Endpoint] # "none"
        /\ phase[w] = "sending" =>
              /\ snapshot[w] = {}
              /\ e \in DirectEffects => attempt[e][Endpoint] # "none"
              /\ \A t \in Targets :
                    attempt[e][t] = "pending" => t \in pending[w] \/ failed[w]
        /\ \A t \in pending[w] : attempt[e][t] = "pending"
        /\ posted[w] # "none" => pending[w] # {}
        /\ posted[w] = "ok" => <<e, NextTarget(w)>> \in received
        /\ verdict[w] = "ok" =>
              /\ \A t \in Targets : attempt[e][t] # "pending"
              /\ e \in DirectEffects => attempt[e][Endpoint] = "delivered"

\* An email or calendar row has no attempt at a subscription, and its attempt
\* is never dead-lettered.
RowOK(e) ==
    /\ e \in DirectEffects => \A s \in Subs : attempt[e][s] = "none"
    /\ attempt[e][Endpoint] # "dead"

AttemptInv ==
    /\ QueueInv
    /\ DispatchTypeOK
    /\ DeliveredMeansSettled
    /\ DeadLetterDisables
    /\ ConfirmedWasReceived
    /\ \A w \in Workers : WorkerOK(w)
    /\ \A e \in Effects : RowOK(e)

-----------------------------------------------------------------------------
(* The dispatcher implements the queue *)

LEMMA InitQueue == DispatchInit => Init
  BY DEF DispatchInit

\* Every step of the dispatcher is a step of the queue or leaves it alone.
LEMMA StepQueue == [DispatchNext]_vars => [Next]_queueVars
  <1> SUFFICES ASSUME [DispatchNext]_vars PROVE [Next]_queueVars
    OBVIOUS
  <1>1. CASE Environment
    <2>1. ASSUME NEW e \in Effects, QueueOnly(Plan(e)) \/ QueueOnly(BackoffElapses(e))
          PROVE  Next
      BY <2>1 DEF QueueOnly, Next
    <2>2. ASSUME NEW s \in Subs, SeedSubscription(s) PROVE UNCHANGED queueVars
      BY <2>2 DEF SeedSubscription
    <2> QED
      BY <1>1, <2>1, <2>2 DEF Environment
  <1>2. ASSUME NEW w \in Workers, StartPass(w) \/ Pass(w) PROVE [Next]_queueVars
    <2>1. ASSUME \/ QueueOnly(ClaimSelect(w))
                 \/ QueueOnly(ClaimCommit(w))
                 \/ PrepareRead(w)
                 \/ DispatchEnds(w)
                 \/ QueueOnly(MarkDelivered(w))
                 \/ QueueOnly(MarkFailed(w))
          PROVE  WorkerStep(w)
      BY <2>1 DEF QueueOnly, PrepareRead, DispatchEnds, WorkerStep
    <2>2. ASSUME \/ PrepareCommit(w)
                 \/ Post(w)
                 \/ MarkAttemptDelivered(w)
                 \/ MarkWebhookAttemptFailed(w)
                 \/ MarkDirectAttemptFailed(w)
          PROVE  UNCHANGED queueVars
      BY <2>2 DEF PrepareCommit, Post, MarkAttemptDelivered, MarkWebhookAttemptFailed,
                  MarkDirectAttemptFailed, SentOne
    <2> QED
      BY <1>2, <2>1, <2>2 DEF StartPass, Pass, Next
  <1>3. ASSUME NEW w \in Workers, Failure(w) PROVE Next
    BY <1>3 DEF Failure, PrepareFails, ProviderFails, MarkAttemptErrors,
                CommitUnacknowledged, Stops, WorkerStep, Next
  <1>4. CASE UNCHANGED vars
    BY <1>4 DEF vars
  <1> QED
    BY <1>1, <1>2, <1>3, <1>4 DEF DispatchNext

\* The worker command with its dispatcher implements the queue, whatever the
\* subscribers and endpoints answer.
THEOREM DispatchImplementsQueue == DispatchSpec => Spec
  BY InitQueue, StepQueue, PTL DEF DispatchSpec, Spec

\* So a row is dispatched by at most one worker at a time.
THEOREM DispatchIsExclusive == DispatchSpec => []ExclusiveClaim
  BY DispatchImplementsQueue, ExclusiveClaims, PTL

\* A mark of the worker command finds its row still processing.
THEOREM DispatchMarksApply == DispatchSpec => []MarkFindsProcessing
  BY DispatchImplementsQueue, MarksApply, PTL

\* No dispatch, crash or seeding reopens a delivered row.
THEOREM DispatchDeliversForGood == DispatchSpec => DeliveredIsFinal
  BY DispatchImplementsQueue, DeliveredForGood, PTL

\* A row that a stopped worker left in processing stays so: no step of any
\* worker, and no restart, takes it up again (locked_at is never read).
THEOREM OrphansAreLost ==
  DispatchSpec => [][\A e \in Effects : Orphaned(e) => Orphaned(e)']_vars
  <1> DEFINE Lost == \A e \in Effects : Orphaned(e) => Orphaned(e)'
  <1>1. QueueInv /\ [DispatchNext]_vars => [Lost]_vars
    <2> SUFFICES ASSUME QueueInv, [Next]_queueVars, NEW e \in Effects, Orphaned(e)
                 PROVE  Orphaned(e)'
      BY StepQueue
    <2>1. ASSUME NEW f \in Effects, Plan(f) \/ BackoffElapses(f) PROVE Orphaned(e)'
      BY <2>1 DEF Plan, BackoffElapses, Orphaned, QueueInv, QueueTypeOK
    <2>2. ASSUME NEW w \in Workers, ClaimCommit(w) PROVE Orphaned(e)'
      BY <2>2 DEF ClaimCommit, Orphaned, QueueInv, QueueTypeOK
    <2>3. ASSUME NEW w \in Workers, MarkDelivered(w) \/ MarkFailed(w) PROVE Orphaned(e)'
      <3>1. current[w] # e
        BY <2>3, QueueAssumption DEF MarkDelivered, MarkFailed, Orphaned, QueueInv
      <3> QED
        BY <2>3, <3>1
        DEF MarkDelivered, MarkFailed, FinishCurrent, Orphaned, QueueInv, QueueTypeOK
    <2>4. ASSUME NEW w \in Workers, WorkerStops(w) PROVE Orphaned(e)'
      BY <2>4 DEF WorkerStops, Orphaned, QueueInv, QueueTypeOK
    <2>5. CASE UNCHANGED <<status, batch>>
      BY <2>5 DEF Orphaned
    <2> QED
      BY <2>1, <2>2, <2>3, <2>4, <2>5
      DEF Next, WorkerStep, queueVars, ClaimSelect, TakeNext, DispatchReturns
  <1>2. DispatchSpec => []QueueInv
    BY DispatchImplementsQueue, QueueInvariance, PTL
  <1> QED
    BY <1>1, <1>2, PTL DEF DispatchSpec

\* And nothing else loses a row: it is in the batch of the worker that stops.
THEOREM OnlyStopsOrphan ==
  DispatchSpec => [][\A e \in Effects : ~Orphaned(e) /\ Orphaned(e)' =>
                        \E w \in Workers : Stops(w) /\ e \in batch[w]]_vars
  <1> DEFINE Caused == \A e \in Effects : ~Orphaned(e) /\ Orphaned(e)' =>
                          \E w \in Workers : Stops(w) /\ e \in batch[w]
  <1>1. QueueInv /\ [DispatchNext]_vars => [Caused]_vars
    <2> SUFFICES ASSUME QueueInv, DispatchNext, NEW e \in Effects,
                        ~Orphaned(e), Orphaned(e)'
                 PROVE  \E w \in Workers : Stops(w) /\ e \in batch[w]
      BY DEF vars
    <2>1. ~UNCHANGED <<status, batch>>
      BY DEF Orphaned
    <2>2. ASSUME NEW f \in Effects, Plan(f) PROVE FALSE
      BY <2>2 DEF Plan, Orphaned, QueueInv, QueueTypeOK
    <2>3. ASSUME NEW w \in Workers, ClaimCommit(w) PROVE FALSE
      <3>1. e \notin claiming[w]
        BY <2>3 DEF ClaimCommit, Orphaned, QueueInv, QueueTypeOK
      <3>2. status'[e] = status[e]
        BY <2>3, <3>1 DEF ClaimCommit
      <3>3. PICK v \in Workers : e \in batch[v]
        BY <3>2 DEF Orphaned
      <3>4. v # w
        BY <2>3, <3>3 DEF ClaimCommit, QueueInv
      <3> QED
        BY <2>3, <3>3, <3>4 DEF ClaimCommit, Orphaned, QueueInv, QueueTypeOK
    <2>4. ASSUME NEW w \in Workers, MarkDelivered(w) \/ MarkFailed(w) PROVE FALSE
      <3>1. current[w] \in Effects
        BY <2>4 DEF MarkDelivered, MarkFailed, QueueInv, QueueTypeOK
      <3>2. e # current[w]
        BY <2>4, <3>1 DEF MarkDelivered, MarkFailed, Orphaned, QueueInv, QueueTypeOK
      <3>3. status'[e] = status[e] /\ \A v \in Workers : e \in batch[v] => e \in batch'[v]
        BY <2>4, <3>2
        DEF MarkDelivered, MarkFailed, FinishCurrent, QueueInv, QueueTypeOK
      <3> QED
        BY <3>3 DEF Orphaned
    <2>5. ASSUME NEW w \in Workers, Stops(w) PROVE e \in batch[w]
      <3>1. status'[e] = status[e]
        BY <2>5 DEF Stops, WorkerStops
      <3>2. PICK v \in Workers : e \in batch[v]
        BY <3>1 DEF Orphaned
      <3> QED
        BY <2>5, <3>2 DEF Stops, WorkerStops, Orphaned, QueueInv, QueueTypeOK
    <2>6. \/ UNCHANGED <<status, batch>>
          \/ \E f \in Effects : Plan(f)
          \/ \E w \in Workers : \/ ClaimCommit(w)
                                \/ MarkDelivered(w) \/ MarkFailed(w)
                                \/ Stops(w)
      BY DEF DispatchNext, Environment, StartPass, Pass, Failure, QueueOnly, queueVars,
             BackoffElapses, SeedSubscription, ClaimSelect, PrepareRead, TakeNext,
             PrepareCommit, Post, MarkAttemptDelivered, MarkWebhookAttemptFailed,
             MarkDirectAttemptFailed, SentOne, DispatchEnds, DispatchReturns,
             PrepareFails, ProviderFails, MarkAttemptErrors, CommitUnacknowledged
    <2> QED
      BY <2>1, <2>2, <2>3, <2>4, <2>5, <2>6
  <1>2. DispatchSpec => []QueueInv
    BY DispatchImplementsQueue, QueueInvariance, PTL
  <1> QED
    BY <1>1, <1>2, PTL DEF DispatchSpec

-----------------------------------------------------------------------------
(* The next target *)

\* A set of naturals that is not empty has a least element.
LEMMA LeastNatural ==
  ASSUME NEW S \in SUBSET Nat, S # {}
  PROVE  \E m \in S : \A n \in S : m <= n
  <1> DEFINE R == OpToRel(<, Nat)
  <1>1. IsWellFoundedOn(R, Nat)
    BY NatLessThanWellFounded
  <1>2. \A a, b \in Nat : <<a, b>> \in R <=> a < b
    BY DEF OpToRel
  <1> HIDE DEF R
  <1>3. PICK m \in S : \A n \in S : ~(<<n, m>> \in R)
    BY <1>1, WFMin
  <1>4. \A n \in S : ~(n < m)
    <2> SUFFICES ASSUME NEW n \in S PROVE ~(n < m)
      OBVIOUS
    <2>1. n \in Nat /\ m \in Nat
      OBVIOUS
    <2> QED
      BY <1>2, <1>3, <2>1
  <1>5. \A n \in S : m <= n
    BY <1>4
  <1> QED
    BY <1>5

LEMMA NextTargetPending ==
  ASSUME DispatchTypeOK, NEW w \in Workers, pending[w] # {}
  PROVE  NextTarget(w) \in pending[w] /\ NextTarget(w) \in Targets
  <1>1. pending[w] \in SUBSET Targets /\ pending[w] \in SUBSET Nat
    BY DispatchAssumption DEF DispatchTypeOK
  <1>2. \E t \in pending[w] : \A u \in pending[w] : t <= u
    BY <1>1, LeastNatural
  <1>3. NextTarget(w) \in pending[w]
    BY <1>2 DEF NextTarget
  <1> QED
    BY <1>1, <1>3

LEMMA SameNextTarget ==
  ASSUME NEW w \in Workers, pending'[w] = pending[w]
  PROVE  NextTarget(w)' = NextTarget(w)
  BY DEF NextTarget

-----------------------------------------------------------------------------
(* The other workers *)

\* Two workers that are inside Dispatch are so for two rows.
LEMMA RowsApart ==
  ASSUME QueueInv, NEW v \in Workers, NEW w \in Workers, v # w,
         current[w] \in Effects
  PROVE  current[v] # current[w]
  BY QueueAssumption DEF QueueInv, ExclusiveClaim

\* A step of w that touches only the attempts of its own row leaves what every
\* other worker knows.
LEMMA OtherWorkerOK ==
  ASSUME AttemptInv, NEW w \in Workers, current[w] \in Effects,
         NEW v \in Workers, v # w,
         current'[v] = current[v], verdict'[v] = verdict[v], phase'[v] = phase[v],
         snapshot'[v] = snapshot[v], pending'[v] = pending[v],
         posted'[v] = posted[v], failed'[v] = failed[v],
         received \subseteq received',
         \A e \in Effects : e # current[w] => attempt'[e] = attempt[e]
  PROVE  WorkerOK(v)'
  <1>1. WorkerOK(v)
    BY DEF AttemptInv
  <1>2. current[v] # current[w]
    BY RowsApart DEF AttemptInv
  <1>3. NextTarget(v)' = NextTarget(v)
    BY SameNextTarget
  <1>4. CASE current[v] \in Effects
    <2>1. attempt'[current[v]] = attempt[current[v]]
      BY <1>2, <1>4
    <2>2. Recorded(current[v])' = Recorded(current[v])
      BY <2>1 DEF Recorded
    <2> QED
      BY <1>1, <1>3, <2>1, <2>2 DEF WorkerOK
  <1>5. CASE current[v] \notin Effects
    <2>1. /\ phase[v] = "out"
          /\ verdict[v] = "none"
      BY <1>1, <1>5 DEF WorkerOK, AttemptInv, QueueInv, QueueTypeOK
    <2> QED
      BY <1>1, <2>1 DEF WorkerOK
  <1> QED
    BY <1>4, <1>5

\* A worker that is outside Dispatch with no verdict knows nothing.
LEMMA OutsideOK ==
  ASSUME NEW w \in Workers, phase'[w] = "out", snapshot'[w] = {}, pending'[w] = {},
         posted'[w] = "none", failed'[w] = FALSE, verdict'[w] # "ok"
  PROVE  WorkerOK(w)'
  BY DEF WorkerOK

-----------------------------------------------------------------------------
(* Steps that change no attempt *)

\* What the type invariant says of the attempts.
AttemptTypeOK ==
    /\ sub \in [Subs -> {"absent", "active", "disabled"}]
    /\ attempt \in [Effects -> [Targets -> AttemptStates]]
    /\ tries \in [Effects -> [Subs -> 0..MaxAttempts]]
    /\ received \subseteq Effects \X Targets

LocalTypeOK ==
    /\ phase \in [Workers -> {"out", "preparing", "sending"}]
    /\ snapshot \in [Workers -> SUBSET Targets]
    /\ pending \in [Workers -> SUBSET Targets]
    /\ posted \in [Workers -> {"none", "ok", "error"}]
    /\ failed \in [Workers -> BOOLEAN]

LEMMA TypesSplit ==
  DispatchTypeOK <=> QueueTypeOK /\ AttemptTypeOK /\ LocalTypeOK
  BY DEF DispatchTypeOK, AttemptTypeOK, LocalTypeOK

\* A step that changes no row of the dispatch tables.
LEMMA TablesKept ==
  ASSUME AttemptInv, QueueInv', LocalTypeOK',
         UNCHANGED <<sub, attempt, tries, received>>,
         \A e \in Effects : status'[e] = "delivered" =>
            \/ status[e] = "delivered"
            \/ \E w \in Workers : verdict[w] = "ok" /\ current[w] = e,
         \A w \in Workers : WorkerOK(w)'
  PROVE  AttemptInv'
  <1>1. AttemptTypeOK'
    BY DEF AttemptInv, DispatchTypeOK, AttemptTypeOK
  <1>2. DispatchTypeOK'
    BY <1>1 DEF DispatchTypeOK, AttemptTypeOK, LocalTypeOK, QueueInv
  <1>3. DeliveredMeansSettled'
    <2> SUFFICES ASSUME NEW e \in Effects, status'[e] = "delivered"
                 PROVE  /\ \A t \in Targets : attempt[e][t] # "pending"
                        /\ e \in DirectEffects => attempt[e][Endpoint] = "delivered"
      BY DEF DeliveredMeansSettled
    <2>1. CASE status[e] = "delivered"
      BY <2>1 DEF AttemptInv, DeliveredMeansSettled
    <2>2. ASSUME NEW w \in Workers, verdict[w] = "ok", current[w] = e
          PROVE  /\ \A t \in Targets : attempt[e][t] # "pending"
                 /\ e \in DirectEffects => attempt[e][Endpoint] = "delivered"
      <3>1. WorkerOK(w)
        BY DEF AttemptInv
      <3> QED
        BY <2>2, <3>1 DEF WorkerOK
    <2> QED
      BY <2>1, <2>2
  <1>4. DeadLetterDisables' /\ ConfirmedWasReceived'
    BY DEF AttemptInv, DeadLetterDisables, ConfirmedWasReceived
  <1>5. \A e \in Effects : RowOK(e)'
    BY DEF AttemptInv, RowOK
  <1> QED
    BY <1>2, <1>3, <1>4, <1>5 DEF AttemptInv

\* A worker whose own variables and row do not change keeps what it knows.
LEMMA SameWorkerOK ==
  ASSUME AttemptInv, NEW v \in Workers, UNCHANGED <<attempt, received>>,
         current'[v] = current[v], verdict'[v] = verdict[v], phase'[v] = phase[v],
         snapshot'[v] = snapshot[v], pending'[v] = pending[v],
         posted'[v] = posted[v], failed'[v] = failed[v]
  PROVE  WorkerOK(v)'
  <1>1. WorkerOK(v)
    BY DEF AttemptInv
  <1>2. NextTarget(v)' = NextTarget(v)
    BY SameNextTarget
  <1>3. Recorded(current[v])' = Recorded(current[v])
    BY DEF Recorded
  <1> QED
    BY <1>1, <1>2, <1>3 DEF WorkerOK

\* Steps of the queue that no dispatch is part of and that finish no row.
LEMMA QueueStepOK ==
  ASSUME AttemptInv, QueueInv',
         \/ \E e \in Effects : QueueOnly(Plan(e)) \/ QueueOnly(BackoffElapses(e))
         \/ \E w \in Workers : QueueOnly(ClaimSelect(w)) \/ QueueOnly(ClaimCommit(w))
  PROVE  AttemptInv'
  <1>1. UNCHANGED <<current, verdict, dispatchVars>>
    BY DEF QueueOnly, Plan, BackoffElapses, ClaimSelect, ClaimCommit
  <1>2. \A e \in Effects : status'[e] = "delivered" => status[e] = "delivered"
    <2>1. status \in [Effects -> Statuses]
      BY DEF AttemptInv, QueueInv, QueueTypeOK
    <2>2. ASSUME NEW w \in Workers, ClaimCommit(w)
          PROVE  \A e \in Effects : status'[e] = "delivered" => status[e] = "delivered"
      BY <2>2 DEF ClaimCommit
    <2>3. ASSUME NEW f \in Effects, Plan(f)
          PROVE  \A e \in Effects : status'[e] = "delivered" => status[e] = "delivered"
      BY <2>1, <2>3 DEF Plan
    <2>4. CASE status' = status
      BY <2>4
    <2> QED
      BY <2>2, <2>3, <2>4 DEF QueueOnly, BackoffElapses, ClaimSelect
  <1>3. LocalTypeOK'
    BY <1>1 DEF AttemptInv, DispatchTypeOK, LocalTypeOK, dispatchVars
  <1>4. \A w \in Workers : WorkerOK(w)'
    BY <1>1, SameWorkerOK DEF dispatchVars
  <1> QED
    BY <1>1, <1>2, <1>3, <1>4, TablesKept DEF dispatchVars

\* RunOnce marks the row: the verdict was the last of the dispatch.
LEMMA QueueMarkOK ==
  ASSUME AttemptInv, QueueInv', NEW w \in Workers,
         QueueOnly(MarkDelivered(w)) \/ QueueOnly(MarkFailed(w))
  PROVE  AttemptInv'
  <1>1. UNCHANGED dispatchVars /\ FinishCurrent(w) /\ verdict[w] # "none"
    BY DEF QueueOnly, MarkDelivered, MarkFailed
  <1>2. /\ verdict'[w] = "none"
        /\ \A v \in Workers : v # w => current'[v] = current[v] /\ verdict'[v] = verdict[v]
    BY <1>1 DEF FinishCurrent, AttemptInv, QueueInv, QueueTypeOK
  <1>3. phase[w] = "out"
    BY <1>1 DEF AttemptInv, WorkerOK
  <1>4. \A v \in Workers : v # w => WorkerOK(v)'
    BY <1>1, <1>2, SameWorkerOK DEF dispatchVars
  <1>5. WorkerOK(w)'
    <2>1. WorkerOK(w) /\ failed[w] \in BOOLEAN
      BY DEF AttemptInv, DispatchTypeOK
    <2>2. /\ snapshot[w] = {} /\ pending[w] = {}
          /\ posted[w] = "none" /\ failed[w] = FALSE
      BY <1>3, <2>1 DEF WorkerOK
    <2> QED
      BY <1>1, <1>2, <1>3, <2>2, OutsideOK DEF dispatchVars
  <1>6. \A e \in Effects : status'[e] = "delivered" =>
           status[e] = "delivered" \/ (verdict[w] = "ok" /\ current[w] = e)
    BY DEF AttemptInv, QueueInv, QueueTypeOK, QueueOnly, MarkDelivered, MarkFailed
  <1>7. LocalTypeOK'
    BY <1>1 DEF AttemptInv, DispatchTypeOK, LocalTypeOK, dispatchVars
  <1> QED
    BY <1>1, <1>4, <1>5, <1>6, <1>7, TablesKept DEF dispatchVars

\* Dispatch returns an error, or the worker stops: the worker drops what it knew.
LEMMA DropOK ==
  ASSUME AttemptInv, QueueInv', NEW w \in Workers, LeaveDispatch(w),
         UNCHANGED <<sub, attempt, tries, received, status>>,
         verdict'[w] # "ok",
         \A v \in Workers : v # w => current'[v] = current[v] /\ verdict'[v] = verdict[v]
  PROVE  AttemptInv'
  <1>1. LocalTypeOK'
    BY DEF AttemptInv, DispatchTypeOK, LocalTypeOK, LeaveDispatch
  <1>2. WorkerOK(w)'
    BY OutsideOK DEF AttemptInv, DispatchTypeOK, LeaveDispatch
  <1>3. \A v \in Workers : v # w => WorkerOK(v)'
    BY SameWorkerOK DEF AttemptInv, DispatchTypeOK, LeaveDispatch
  <1> QED
    BY <1>1, <1>2, <1>3, TablesKept

LEMMA FailureOK ==
  ASSUME AttemptInv, QueueInv', NEW w \in Workers, Failure(w)
  PROVE  AttemptInv'
  <1>1. CASE PrepareFails(w) \/ ProviderFails(w) \/ MarkAttemptErrors(w)
             \/ CommitUnacknowledged(w)
    BY <1>1, DropOK DEF PrepareFails, ProviderFails, MarkAttemptErrors,
                        CommitUnacknowledged, DispatchReturns,
                        AttemptInv, QueueInv, QueueTypeOK
  <1>2. CASE Stops(w)
    BY <1>2, DropOK DEF Stops, WorkerStops, AttemptInv, QueueInv, QueueTypeOK
  <1> QED
    BY <1>1, <1>2 DEF Failure

\* The worker takes the next row; templates are built only for a row without
\* attempts.
LEMMA PrepareReadOK ==
  ASSUME AttemptInv, QueueInv', NEW w \in Workers, PrepareRead(w)
  PROVE  AttemptInv'
  <1> DEFINE e == current'[w]
  <1>1. /\ current[w] = NoEffect
        /\ UNCHANGED <<status, verdict, sub, attempt, tries, pending, posted, failed, received>>
        /\ phase' = [phase EXCEPT ![w] = "preparing"]
        /\ snapshot' = [snapshot EXCEPT ![w] = NewTemplates(e)]
    BY DEF PrepareRead, TakeNext
  <1>2. /\ e \in Effects
        /\ \A v \in Workers : v # w => current'[v] = current[v]
    BY DEF PrepareRead, TakeNext, AttemptInv, QueueInv, QueueTypeOK
  <1>3. verdict[w] = "none" /\ phase[w] = "out"
    BY <1>1, QueueAssumption DEF AttemptInv, QueueInv, WorkerOK, DispatchTypeOK
  <1>4. /\ NewTemplates(e) \subseteq Targets
        /\ NewTemplates(e) = {} \/ Recorded(e) = {}
        /\ e \in DirectEffects => /\ NewTemplates(e) \subseteq {Endpoint}
                                  /\ NewTemplates(e) = {Endpoint} \/ Recorded(e) # {}
    BY <1>2, DispatchAssumption DEF NewTemplates, Targets, WebhookEffects
  <1>5. e \in DirectEffects /\ Recorded(e) # {} => attempt[e][Endpoint] # "none"
    BY <1>2 DEF AttemptInv, RowOK, Recorded, Targets
  <1>6. LocalTypeOK'
    BY <1>1, <1>4 DEF AttemptInv, DispatchTypeOK, LocalTypeOK
  <1>7. phase'[w] = "preparing" /\ snapshot'[w] = NewTemplates(e)
    BY <1>1 DEF AttemptInv, DispatchTypeOK
  <1>8. WorkerOK(w)'
    <2>1. pending[w] = {} /\ posted[w] = "none" /\ ~failed[w]
      BY <1>3 DEF AttemptInv, WorkerOK
    <2>2. Recorded(current[w])' = Recorded(e)
      BY <1>1 DEF Recorded
    <2> QED
      BY <1>1, <1>2, <1>3, <1>4, <1>5, <1>7, <2>1, <2>2 DEF WorkerOK
  <1>9. \A v \in Workers : v # w => WorkerOK(v)'
    BY <1>1, <1>2, SameWorkerOK DEF AttemptInv, DispatchTypeOK
  <1> QED
    BY <1>1, <1>6, <1>8, <1>9, TablesKept

\* The transport answers: an "ok" means the target has the request.
LEMMA PostOK ==
  ASSUME AttemptInv, QueueInv', NEW w \in Workers, Post(w)
  PROVE  AttemptInv'
  <1> DEFINE e == current[w]
             t == NextTarget(w)
  <1>1. PICK answer \in {"ok", "error"} :
           /\ posted' = [posted EXCEPT ![w] = answer]
           /\ received' \in IF answer = "ok" THEN {received \cup {<<e, t>>}}
                            ELSE {received, received \cup {<<e, t>>}}
    BY DEF Post
  <1>2. /\ phase[w] = "sending"
        /\ pending[w] # {}
        /\ posted[w] = "none"
        /\ UNCHANGED <<queueVars, sub, attempt, tries, phase, snapshot, pending, failed>>
    BY DEF Post, Sending
  <1>3. DispatchTypeOK /\ WorkerOK(w)
    BY DEF AttemptInv
  <1>4. e \in Effects /\ t \in Targets
    BY <1>2, <1>3, NextTargetPending DEF WorkerOK
  <1>5. /\ received \subseteq received'
        /\ received' \subseteq Effects \X Targets
        /\ answer = "ok" => <<e, t>> \in received'
    BY <1>1, <1>3, <1>4 DEF DispatchTypeOK
  <1>6. posted' \in [Workers -> {"none", "ok", "error"}]
    BY <1>1, <1>3 DEF DispatchTypeOK
  <1>7. DispatchTypeOK'
    BY <1>2, <1>3, <1>5, <1>6 DEF DispatchTypeOK, QueueInv
  <1>8. DeliveredMeansSettled' /\ DeadLetterDisables' /\ ConfirmedWasReceived'
    BY <1>2, <1>5 DEF AttemptInv, DeliveredMeansSettled, DeadLetterDisables,
                      ConfirmedWasReceived, queueVars
  <1>9. \A f \in Effects : RowOK(f)'
    BY <1>2 DEF AttemptInv, RowOK
  <1>10. \A v \in Workers : v # w => posted'[v] = posted[v]
    BY <1>1, <1>3 DEF DispatchTypeOK
  <1>11. \A v \in Workers : v # w => WorkerOK(v)'
    BY <1>2, <1>4, <1>5, <1>10, OtherWorkerOK DEF queueVars
  <1>12. WorkerOK(w)'
    <2>1. NextTarget(w)' = t
      BY <1>2, SameNextTarget
    <2>2. posted'[w] = answer
      BY <1>1, <1>3 DEF DispatchTypeOK
    <2>3. verdict[w] = "none"
      BY <1>2, <1>3 DEF WorkerOK
    <2> QED
      BY <1>2, <1>3, <1>5, <2>1, <2>2, <2>3 DEF WorkerOK, queueVars
  <1> QED
    BY <1>7, <1>8, <1>9, <1>11, <1>12 DEF AttemptInv

LEMMA DispatchEndsInv ==
  ASSUME AttemptInv, QueueInv', NEW w \in Workers, DispatchEnds(w)
  PROVE  AttemptInv'
  <1> DEFINE v0 == IF failed[w] THEN "error" ELSE "ok"
             e == current[w]
  <1>1. /\ phase[w] = "sending"
        /\ pending[w] = {}
        /\ verdict' = [verdict EXCEPT ![w] = v0]
        /\ UNCHANGED <<status, current, sub, attempt, tries, received>>
        /\ LeaveDispatch(w)
    BY DEF DispatchEnds, DispatchReturns
  <1>2. DispatchTypeOK /\ QueueTypeOK /\ WorkerOK(w)
    BY DEF AttemptInv, QueueInv
  <1>3. LocalTypeOK'
    BY <1>1, <1>2 DEF DispatchTypeOK, LocalTypeOK, LeaveDispatch
  <1>4. \A v \in Workers : v # w => WorkerOK(v)'
    BY <1>1, <1>2, SameWorkerOK DEF DispatchTypeOK, QueueTypeOK, LeaveDispatch
  <1>5. /\ phase'[w] = "out" /\ snapshot'[w] = {} /\ pending'[w] = {}
        /\ posted'[w] = "none" /\ failed'[w] = FALSE /\ verdict'[w] = v0
    BY <1>1, <1>2 DEF DispatchTypeOK, QueueTypeOK, LeaveDispatch
  <1>6. ~failed[w] => /\ \A t \in Targets : attempt[e][t] # "pending"
                      /\ e \in DirectEffects => attempt[e][Endpoint] = "delivered"
    <2>1. /\ e \in Effects
          /\ e \in DirectEffects => attempt[e][Endpoint] # "none"
          /\ \A t \in Targets : attempt[e][t] = "pending" => failed[w]
      BY <1>1, <1>2 DEF WorkerOK
    <2>2. attempt[e][Endpoint] \in AttemptStates /\ attempt[e][Endpoint] # "dead"
      BY <2>1 DEF AttemptInv, DispatchTypeOK, RowOK, Targets
    <2> QED
      BY <2>1, <2>2 DEF AttemptStates, Targets
  <1>7. WorkerOK(w)'
    BY <1>1, <1>5, <1>6 DEF WorkerOK
  <1> QED
    BY <1>1, <1>3, <1>4, <1>7, TablesKept

LEMMA SeedOK ==
  ASSUME AttemptInv, QueueInv', NEW s \in Subs, SeedSubscription(s)
  PROVE  AttemptInv'
  <1>1. /\ sub[s] = "absent"
        /\ sub' = [sub EXCEPT ![s] = "active"]
        /\ UNCHANGED <<queueVars, attempt, tries, phase, snapshot, pending, posted,
                       failed, received>>
    BY DEF SeedSubscription
  <1>2. sub \in [Subs -> {"absent", "active", "disabled"}]
    BY DEF AttemptInv, DispatchTypeOK
  <1>3. sub' \in [Subs -> {"absent", "active", "disabled"}]
    BY <1>1, <1>2
  <1>4. DispatchTypeOK'
    BY <1>1, <1>3 DEF AttemptInv, DispatchTypeOK, QueueInv
  <1>5. \A x \in Subs : sub'[x] = "disabled" <=> sub[x] = "disabled"
    BY <1>1, <1>2
  <1>6. DeadLetterDisables'
    BY <1>1, <1>5 DEF AttemptInv, DeadLetterDisables
  <1>7. DeliveredMeansSettled' /\ ConfirmedWasReceived'
    BY <1>1 DEF AttemptInv, DeliveredMeansSettled, ConfirmedWasReceived, queueVars
  <1>8. \A e \in Effects : RowOK(e)'
    BY <1>1 DEF AttemptInv, RowOK
  <1>9. \A w \in Workers : WorkerOK(w)'
    BY <1>1, SameWorkerOK DEF queueVars
  <1> QED
    BY <1>4, <1>6, <1>7, <1>8, <1>9 DEF AttemptInv

-----------------------------------------------------------------------------
(* Steps that change the attempts of the current row *)

LEMMA RowStep ==
  ASSUME AttemptInv, UNCHANGED <<queueVars, received>>,
         NEW w \in Workers, phase[w] # "out",
         AttemptTypeOK', LocalTypeOK', DeadLetterDisables',
         \A f \in Effects : f # current[w] => attempt'[f] = attempt[f],
         \A t \in Targets : attempt'[current[w]][t] = "delivered" =>
            <<current[w], t>> \in received,
         RowOK(current[w])',
         WorkerOK(w)',
         \A v \in Workers : v # w =>
            /\ phase'[v] = phase[v]
            /\ snapshot'[v] = snapshot[v]
            /\ pending'[v] = pending[v]
            /\ posted'[v] = posted[v]
            /\ failed'[v] = failed[v]
  PROVE  AttemptInv'
  <1> DEFINE e == current[w]
  <1>1. WorkerOK(w) /\ QueueInv
    BY DEF AttemptInv
  <1>2. e \in Effects
    BY <1>1 DEF WorkerOK
  <1>3. e \in batch[w] /\ status[e] = "processing"
    BY <1>1, <1>2, QueueAssumption DEF QueueInv, MarkFindsProcessing, MarkApplies
  <1>4. QueueInv'
    BY <1>1, StepQueueInv DEF queueVars
  <1>5. DispatchTypeOK'
    BY <1>4 DEF QueueInv, DispatchTypeOK, AttemptTypeOK, LocalTypeOK
  <1>6. DeliveredMeansSettled'
    <2>1. status' = status
      BY DEF queueVars
    <2> QED
      BY <1>3, <2>1 DEF AttemptInv, DeliveredMeansSettled
  <1>7. ConfirmedWasReceived'
    BY DEF AttemptInv, ConfirmedWasReceived
  <1>8. \A f \in Effects : RowOK(f)'
    <2>1. ASSUME NEW f \in Effects, f # e PROVE RowOK(f)'
      BY <2>1 DEF AttemptInv, RowOK
    <2>2. current'[w] = e
      BY DEF queueVars
    <2>3. ASSUME NEW f \in Effects, f = current'[w] PROVE RowOK(f)'
      BY <2>3 DEF RowOK
    <2> QED
      BY <2>1, <2>2, <2>3
  <1>9. \A v \in Workers : v # w => WorkerOK(v)'
    BY <1>2, OtherWorkerOK DEF queueVars
  <1> QED
    BY <1>4, <1>5, <1>6, <1>7, <1>8, <1>9 DEF AttemptInv

LEMMA PrepareCommitOK ==
  ASSUME AttemptInv, NEW w \in Workers, PrepareCommit(w)
  PROVE  AttemptInv'
  <1> DEFINE e == current[w]
             row == [t \in Targets |-> IF t \in snapshot[w] THEN "pending" ELSE attempt[e][t]]
  <1>1. /\ phase[w] = "preparing"
        /\ attempt' = [attempt EXCEPT ![e] = row]
        /\ pending' = [pending EXCEPT ![w] = PendingIn(attempt'[e])]
        /\ phase' = [phase EXCEPT ![w] = "sending"]
        /\ snapshot' = [snapshot EXCEPT ![w] = {}]
        /\ UNCHANGED <<queueVars, sub, tries, posted, failed, received>>
    BY DEF PrepareCommit
  <1>2. DispatchTypeOK /\ WorkerOK(w)
    BY DEF AttemptInv
  <1>3. /\ e \in Effects
        /\ pending[w] = {} /\ posted[w] = "none" /\ verdict[w] = "none"
        /\ snapshot[w] = {} \/ Recorded(e) = {}
        /\ e \in DirectEffects => snapshot[w] \subseteq {Endpoint}
        /\ e \in DirectEffects => snapshot[w] = {Endpoint} \/ attempt[e][Endpoint] # "none"
    BY <1>1, <1>2 DEF WorkerOK
  <1>4. attempt \in [Effects -> [Targets -> AttemptStates]]
    BY <1>2 DEF DispatchTypeOK
  <1>5. row \in [Targets -> AttemptStates]
    BY <1>3, <1>4 DEF AttemptStates
  <1>6. /\ attempt' \in [Effects -> [Targets -> AttemptStates]]
        /\ attempt'[e] = row
        /\ \A f \in Effects : f # e => attempt'[f] = attempt[f]
    BY <1>1, <1>3, <1>4, <1>5
  <1>7. \A t \in Targets : /\ row[t] = IF t \in snapshot[w] THEN "pending" ELSE attempt[e][t]
                           /\ t \in snapshot[w] => attempt[e][t] = "none"
    BY <1>3 DEF Recorded
  <1> HIDE DEF row
  <1>8. AttemptTypeOK'
    BY <1>1, <1>2, <1>6 DEF DispatchTypeOK, AttemptTypeOK
  <1>9. PendingIn(row) = {t \in Targets : row[t] = "pending"}
    BY DEF PendingIn
  <1>10. LocalTypeOK'
    BY <1>1, <1>2, <1>6, <1>9 DEF DispatchTypeOK, LocalTypeOK
  <1>11. /\ phase'[w] = "sending" /\ snapshot'[w] = {} /\ pending'[w] = PendingIn(row)
         /\ \A v \in Workers : v # w => /\ phase'[v] = phase[v]
                                        /\ snapshot'[v] = snapshot[v]
                                        /\ pending'[v] = pending[v]
    BY <1>1, <1>2, <1>6 DEF DispatchTypeOK
  <1>12. \A t \in Targets : /\ row[t] = "dead" <=> attempt[e][t] = "dead"
                            /\ row[t] = "delivered" => attempt[e][t] = "delivered"
    BY <1>7
  <1>13. DeadLetterDisables'
    <2>1. \A f \in Effects, s \in Subs : attempt'[f][s] = "dead" <=> attempt[f][s] = "dead"
      BY <1>6, <1>12 DEF Targets
    <2> QED
      BY <1>1, <2>1 DEF AttemptInv, DeadLetterDisables
  <1>14. \A t \in Targets : attempt'[e][t] = "delivered" => <<e, t>> \in received
    BY <1>3, <1>6, <1>12 DEF AttemptInv, ConfirmedWasReceived
  <1>15. current'[w] = e
    BY <1>1 DEF queueVars
  <1>16. RowOK(e)
    BY <1>3 DEF AttemptInv
  <1>17. /\ e \in DirectEffects => \A s \in Subs : row[s] = "none"
         /\ row[Endpoint] # "dead"
         /\ e \in DirectEffects => row[Endpoint] # "none"
    BY <1>3, <1>7, <1>16, DispatchAssumption DEF RowOK, Targets
  <1>18. RowOK(e)'
    BY <1>6, <1>15, <1>17 DEF RowOK
  <1>19. WorkerOK(w)'
    BY <1>1, <1>3, <1>6, <1>9, <1>11, <1>15, <1>17 DEF WorkerOK, queueVars
  <1> QED
    BY <1>1, <1>6, <1>8, <1>10, <1>11, <1>13, <1>14, <1>18, <1>19, RowStep

\* Marking an attempt: the answer was for the attempt the worker marks.
LEMMA MarkOK ==
  ASSUME AttemptInv, NEW w \in Workers,
         \/ MarkAttemptDelivered(w)
         \/ MarkWebhookAttemptFailed(w)
         \/ MarkDirectAttemptFailed(w)
  PROVE  AttemptInv'
  <1> DEFINE e == current[w]
             t == NextTarget(w)
  <1>1. /\ posted[w] # "none"
        /\ attempt[e][t] = "pending"
        /\ pending' = [pending EXCEPT ![w] = @ \ {t}]
        /\ posted' = [posted EXCEPT ![w] = "none"]
        /\ UNCHANGED <<queueVars, phase, snapshot, received>>
    BY DEF MarkAttemptDelivered, MarkWebhookAttemptFailed, MarkDirectAttemptFailed,
           SentOne, AttemptIsPending
  <1>2. DispatchTypeOK /\ WorkerOK(w)
    BY DEF AttemptInv
  <1>3. /\ pending[w] # {}
        /\ phase[w] = "sending"
        /\ e \in Effects
        /\ verdict[w] = "none"
        /\ snapshot[w] = {}
        /\ e \in DirectEffects => attempt[e][Endpoint] # "none"
        /\ \A u \in Targets : attempt[e][u] = "pending" => u \in pending[w] \/ failed[w]
        /\ \A u \in pending[w] : attempt[e][u] = "pending"
        /\ posted[w] = "ok" => <<e, t>> \in received
    BY <1>1, <1>2 DEF WorkerOK, DispatchTypeOK
  <1>4. t \in pending[w] /\ t \in Targets
    BY <1>2, <1>3, NextTargetPending
  <1>5. /\ attempt \in [Effects -> [Targets -> AttemptStates]]
        /\ tries \in [Effects -> [Subs -> 0..MaxAttempts]]
        /\ sub \in [Subs -> {"absent", "active", "disabled"}]
        /\ pending \in [Workers -> SUBSET Targets]
        /\ failed \in [Workers -> BOOLEAN]
        /\ posted \in [Workers -> {"none", "ok", "error"}]
    BY <1>2 DEF DispatchTypeOK
  <1>6. /\ pending'[w] = pending[w] \ {t}
        /\ posted'[w] = "none"
        /\ \A v \in Workers : v # w => pending'[v] = pending[v] /\ posted'[v] = posted[v]
        /\ pending' \in [Workers -> SUBSET Targets]
        /\ posted' \in [Workers -> {"none", "ok", "error"}]
    BY <1>1, <1>5
  <1>7. /\ failed' \in [Workers -> BOOLEAN]
        /\ \A v \in Workers : v # w => failed'[v] = failed[v]
        /\ failed[w] => failed'[w]
    BY <1>5 DEF MarkAttemptDelivered, MarkWebhookAttemptFailed, MarkDirectAttemptFailed
  <1>8. LocalTypeOK'
    BY <1>1, <1>2, <1>6, <1>7 DEF DispatchTypeOK, LocalTypeOK
  <1>9. /\ attempt' \in [Effects -> [Targets -> AttemptStates]]
        /\ \A f \in Effects : f # e => attempt'[f] = attempt[f]
        /\ \A u \in Targets : u # t => attempt'[e][u] = attempt[e][u]
        /\ attempt'[e][t] \in {"pending", "delivered", "dead"}
        /\ attempt'[e][t] = "pending" => failed'[w]
        /\ attempt'[e][t] = "dead" => t \in Subs
        /\ attempt'[e][t] = "delivered" => posted[w] = "ok"
    <2>1. CASE MarkAttemptDelivered(w)
      <3>1. attempt' = [attempt EXCEPT ![e][t] = "delivered"] /\ posted[w] = "ok"
        BY <2>1 DEF MarkAttemptDelivered
      <3> QED
        BY <1>3, <1>4, <1>5, <3>1 DEF AttemptStates
    <2>2. CASE MarkWebhookAttemptFailed(w)
      <3> DEFINE exhausted == Exhausted(tries[e][t] + 1)
      <3>1. /\ t \in Subs
            /\ attempt' = [attempt EXCEPT ![e][t] = IF exhausted THEN "dead" ELSE @]
            /\ failed' = [failed EXCEPT ![w] = @ \/ ~exhausted]
        BY <2>2 DEF MarkWebhookAttemptFailed
      <3> HIDE DEF exhausted
      <3>2. CASE exhausted
        <4>1. attempt' = [attempt EXCEPT ![e][t] = "dead"]
          BY <3>1, <3>2
        <4> QED
          BY <1>3, <1>4, <1>5, <3>1, <4>1 DEF AttemptStates
      <3>3. CASE ~exhausted
        <4>1. attempt' = attempt
          BY <1>3, <1>4, <1>5, <3>1, <3>3
        <4>2. failed'[w]
          BY <1>5, <3>1, <3>3
        <4> QED
          BY <1>1, <1>3, <1>5, <4>1, <4>2
      <3> QED
        BY <3>2, <3>3
    <2>3. CASE MarkDirectAttemptFailed(w)
      <3>1. attempt' = attempt /\ failed' = [failed EXCEPT ![w] = TRUE]
        BY <2>3 DEF MarkDirectAttemptFailed
      <3> QED
        BY <1>1, <1>5, <3>1
    <2> QED
      BY <2>1, <2>2, <2>3
  <1>10. /\ AttemptTypeOK'
         /\ DeadLetterDisables'
    <2>1. \A f \in Effects, s \in Subs : attempt[f][s] = "dead" <=> tries[f][s] = MaxAttempts
      BY DEF AttemptInv, DeadLetterDisables
    <2>2. \A s \in Subs : sub[s] = "disabled" <=> \E f \in Effects : attempt[f][s] = "dead"
      BY DEF AttemptInv, DeadLetterDisables
    <2>3. received' \subseteq Effects \X Targets
      BY <1>1, <1>2 DEF DispatchTypeOK
    <2>4. CASE UNCHANGED <<sub, tries>> /\ attempt'[e][t] # "dead"
      <3>1. \A f \in Effects, s \in Subs : attempt'[f][s] = "dead" <=> attempt[f][s] = "dead"
        BY <1>1, <1>3, <1>9, <2>4 DEF Targets
      <3> QED
        BY <1>5, <1>9, <2>1, <2>2, <2>3, <2>4, <3>1 DEF AttemptTypeOK, DeadLetterDisables
    <2>5. CASE MarkWebhookAttemptFailed(w)
      <3> DEFINE exhausted == Exhausted(tries[e][t] + 1)
      <3>1. /\ t \in Subs
            /\ tries' = [tries EXCEPT ![e][t] = @ + 1]
            /\ attempt' = [attempt EXCEPT ![e][t] = IF exhausted THEN "dead" ELSE @]
            /\ sub' = [sub EXCEPT ![t] = IF exhausted THEN "disabled" ELSE @]
        BY <2>5 DEF MarkWebhookAttemptFailed
      <3>2. tries[e][t] \in 0..MaxAttempts /\ tries[e][t] # MaxAttempts
        BY <1>1, <1>3, <1>5, <2>1, <3>1
      <3>3. /\ tries[e][t] + 1 \in 0..MaxAttempts
            /\ exhausted <=> tries[e][t] + 1 = MaxAttempts
        BY <3>2, DispatchAssumption DEF Exhausted
      <3> HIDE DEF exhausted
      <3>4. /\ tries' \in [Effects -> [Subs -> 0..MaxAttempts]]
            /\ tries'[e][t] = tries[e][t] + 1
            /\ \A f \in Effects, s \in Subs : f # e \/ s # t => tries'[f][s] = tries[f][s]
        BY <1>3, <1>5, <3>1, <3>3
      <3>5. /\ attempt'[e][t] = "dead" <=> exhausted
            /\ \A f \in Effects, s \in Subs : f # e \/ s # t => attempt'[f][s] = attempt[f][s]
        BY <1>1, <1>3, <1>4, <1>5, <3>1
      <3>6. /\ sub' \in [Subs -> {"absent", "active", "disabled"}]
            /\ sub'[t] = IF exhausted THEN "disabled" ELSE sub[t]
            /\ \A s \in Subs : s # t => sub'[s] = sub[s]
        BY <1>5, <3>1
      <3>7. \A f \in Effects, s \in Subs : attempt'[f][s] = "dead" <=> tries'[f][s] = MaxAttempts
        BY <2>1, <3>3, <3>4, <3>5
      <3>8. \A s \in Subs : sub'[s] = "disabled" <=> \E f \in Effects : attempt'[f][s] = "dead"
        <4> SUFFICES ASSUME NEW s \in Subs
                     PROVE  sub'[s] = "disabled" <=> \E f \in Effects : attempt'[f][s] = "dead"
          OBVIOUS
        <4>1. CASE s # t
          BY <2>2, <3>5, <3>6, <4>1
        <4>2. CASE s = t /\ exhausted
          BY <1>3, <3>5, <3>6, <4>2
        <4>3. CASE s = t /\ ~exhausted
          BY <1>1, <1>3, <2>2, <3>5, <3>6, <4>3
        <4> QED
          BY <4>1, <4>2, <4>3
      <3> QED
        BY <1>9, <2>3, <3>4, <3>6, <3>7, <3>8 DEF AttemptTypeOK, DeadLetterDisables
    <2>6. CASE MarkAttemptDelivered(w)
      <3>1. UNCHANGED <<sub, tries>> /\ attempt' = [attempt EXCEPT ![e][t] = "delivered"]
        BY <2>6 DEF MarkAttemptDelivered
      <3>2. attempt'[e][t] = "delivered"
        BY <1>3, <1>4, <1>5, <3>1
      <3> QED
        BY <2>4, <3>1, <3>2
    <2>7. CASE MarkDirectAttemptFailed(w)
      BY <1>1, <2>4, <2>7 DEF MarkDirectAttemptFailed
    <2> QED
      BY <2>5, <2>6, <2>7
  <1>11. \A u \in Targets : attempt'[e][u] = "delivered" => <<e, u>> \in received
    BY <1>3, <1>9 DEF AttemptInv, ConfirmedWasReceived
  <1>12. current'[w] = e /\ verdict'[w] = "none"
    BY <1>1, <1>3 DEF queueVars
  <1>13. RowOK(e)
    BY <1>3 DEF AttemptInv
  <1>14. /\ e \in DirectEffects => \A s \in Subs : attempt'[e][s] = "none"
         /\ attempt'[e][Endpoint] # "dead"
         /\ e \in DirectEffects => attempt'[e][Endpoint] # "none"
    BY <1>1, <1>3, <1>9, <1>13, DispatchAssumption DEF RowOK, Targets
  <1>15. RowOK(e)'
    BY <1>12, <1>14 DEF RowOK
  <1>16. WorkerOK(w)'
    BY <1>1, <1>3, <1>4, <1>5, <1>6, <1>7, <1>9, <1>12, <1>14 DEF WorkerOK
  <1> QED
    BY <1>1, <1>3, <1>6, <1>7, <1>8, <1>9, <1>10, <1>11, <1>15, <1>16, RowStep

-----------------------------------------------------------------------------
LEMMA InitAttemptInv == DispatchInit => AttemptInv
  <1> SUFFICES ASSUME DispatchInit PROVE AttemptInv
    OBVIOUS
  <1>1. QueueInv
    BY InitQueue, InitQueueInv
  <1>2. /\ status = [e \in Effects |-> "absent"]
        /\ verdict = [w \in Workers |-> "none"]
    BY DEF DispatchInit, Init
  <1>3. DispatchTypeOK
    BY <1>1, DispatchAssumption DEF QueueInv, DispatchTypeOK, DispatchInit, AttemptStates
  <1>4. DeliveredMeansSettled /\ ConfirmedWasReceived
    BY <1>2 DEF DeliveredMeansSettled, ConfirmedWasReceived, DispatchInit
  <1>5. DeadLetterDisables
    BY DispatchAssumption DEF DeadLetterDisables, DispatchInit, Targets
  <1>6. \A w \in Workers : WorkerOK(w)
    BY <1>2 DEF WorkerOK, DispatchInit
  <1>7. \A e \in Effects : RowOK(e)
    BY DEF RowOK, DispatchInit, Targets
  <1> QED
    BY <1>1, <1>3, <1>4, <1>5, <1>6, <1>7 DEF AttemptInv

LEMMA StepAttemptInv ==
  ASSUME AttemptInv, [DispatchNext]_vars
  PROVE  AttemptInv'
  <1>1. QueueInv'
    BY StepQueue, StepQueueInv DEF AttemptInv
  <1>2. CASE Environment
    BY <1>1, <1>2, QueueStepOK, SeedOK DEF Environment
  <1>3. ASSUME NEW w \in Workers, StartPass(w) \/ Pass(w) PROVE AttemptInv'
    BY <1>1, <1>3, QueueStepOK, QueueMarkOK, PrepareReadOK, PrepareCommitOK, PostOK,
       MarkOK, DispatchEndsInv DEF StartPass, Pass
  <1>4. ASSUME NEW w \in Workers, Failure(w) PROVE AttemptInv'
    BY <1>1, <1>4, FailureOK
  <1>5. CASE UNCHANGED vars
    <2>1. LocalTypeOK'
      BY <1>5 DEF AttemptInv, DispatchTypeOK, LocalTypeOK, vars, dispatchVars
    <2>2. \A w \in Workers : WorkerOK(w)'
      BY <1>5, SameWorkerOK DEF vars, dispatchVars, queueVars
    <2> QED
      BY <1>1, <1>5, <2>1, <2>2, TablesKept DEF vars, dispatchVars, queueVars
  <1> QED
    BY <1>2, <1>3, <1>4, <1>5 DEF DispatchNext

\* AttemptInv holds in every reachable state.
THEOREM AttemptInvariance == DispatchSpec => []AttemptInv
  BY InitAttemptInv, StepAttemptInv, PTL DEF DispatchSpec

\* Every table and every worker's variables keep their range; a webhook attempt
\* is never counted beyond the threshold.
THEOREM DispatchTypesCorrect == DispatchSpec => []DispatchTypeOK
  <1>1. AttemptInv => DispatchTypeOK
    BY DEF AttemptInv
  <1> QED
    BY <1>1, AttemptInvariance, PTL

\* What a worker has still to send is still pending: nobody else marks it.
THEOREM PendingStaysAccurate == DispatchSpec => []PendingIsAccurate
  <1>1. AttemptInv => PendingIsAccurate
    BY DEF AttemptInv, WorkerOK, PendingIsAccurate, AttemptIsPending
  <1> QED
    BY <1>1, AttemptInvariance, PTL

\* A row is closed only when all its attempts are confirmed or dead-lettered.
THEOREM DeliveredIsSettled == DispatchSpec => []DeliveredMeansSettled
  <1>1. AttemptInv => DeliveredMeansSettled
    BY DEF AttemptInv
  <1> QED
    BY <1>1, AttemptInvariance, PTL

\* Dead letters, disabled subscriptions and the threshold agree.
THEOREM DeadLettersAgree == DispatchSpec => []DeadLetterDisables
  <1>1. AttemptInv => DeadLetterDisables
    BY DEF AttemptInv
  <1> QED
    BY <1>1, AttemptInvariance, PTL

\* No target is credited with the answer of another.
THEOREM ConfirmationsAreGenuine == DispatchSpec => []ConfirmedWasReceived
  <1>1. AttemptInv => ConfirmedWasReceived
    BY DEF AttemptInv
  <1> QED
    BY <1>1, AttemptInvariance, PTL

\* The steps that write attempts.
AttemptStep ==
    \/ attempt' = attempt
    \/ \E w \in Workers : \/ PrepareCommit(w)
                          \/ MarkAttemptDelivered(w)
                          \/ MarkWebhookAttemptFailed(w)

LEMMA AttemptSteps == DispatchNext => AttemptStep
  BY DEF AttemptStep, DispatchNext, Environment, StartPass, Pass, Failure, QueueOnly,
         dispatchVars, SeedSubscription, PrepareRead, Post, MarkDirectAttemptFailed,
         DispatchEnds, PrepareFails, ProviderFails, MarkAttemptErrors, CommitUnacknowledged,
         Stops

\* The first preparation settles the recipients of a row for good.
THEOREM RecipientsSettled == DispatchSpec => RecipientsAreFixed
  <1> DEFINE Fixed == \A e \in Effects : Recorded(e) # {} => Recorded(e)' = Recorded(e)
  <1>1. AttemptInv /\ [DispatchNext]_vars => [Fixed]_vars
    <2> SUFFICES ASSUME AttemptInv, DispatchNext PROVE Fixed
      BY DEF vars
    <2>1. CASE attempt' = attempt
      BY <2>1 DEF Recorded
    <2>2. attempt \in [Effects -> [Targets -> AttemptStates]]
      BY DEF AttemptInv, DispatchTypeOK
    <2>3. ASSUME NEW w \in Workers, PrepareCommit(w) PROVE Fixed
      <3> DEFINE e == current[w]
      <3>1. /\ phase[w] = "preparing"
            /\ attempt' = [attempt EXCEPT ![e] =
                 [t \in Targets |-> IF t \in snapshot[w] THEN "pending" ELSE @[t]]]
        BY <2>3 DEF PrepareCommit
      <3>2. snapshot[w] = {} \/ Recorded(e) = {}
        BY <3>1 DEF AttemptInv, WorkerOK
      <3>3. ASSUME NEW f \in Effects, f # e PROVE Recorded(f)' = Recorded(f)
        BY <2>2, <3>1, <3>3 DEF Recorded
      <3>4. ASSUME snapshot[w] = {} PROVE Recorded(e) # {} => attempt' = attempt
        BY <2>2, <3>1, <3>4
      <3>5. ASSUME NEW f \in Effects, f = e, Recorded(f) # {} PROVE Recorded(f)' = Recorded(f)
        BY <3>2, <3>4, <3>5 DEF Recorded
      <3> QED
        BY <3>3, <3>5
    <2>4. ASSUME NEW w \in Workers, \/ MarkAttemptDelivered(w)
                                    \/ MarkWebhookAttemptFailed(w)
          PROVE  Fixed
      <3> DEFINE e == current[w]
                 t == NextTarget(w)
      <3>1. attempt[e][t] = "pending"
        BY <2>4 DEF MarkAttemptDelivered, MarkWebhookAttemptFailed, AttemptIsPending
      <3>2. \E x \in {"delivered", "dead", attempt[e][t]} :
               attempt' = [attempt EXCEPT ![e][t] = x]
        BY <2>4 DEF MarkAttemptDelivered, MarkWebhookAttemptFailed
      <3>3. \A f \in Effects, u \in Targets : attempt'[f][u] = "none" <=> attempt[f][u] = "none"
        BY <2>2, <3>1, <3>2
      <3> QED
        BY <3>3 DEF Recorded
    <2>5. AttemptStep
      BY AttemptSteps
    <2> QED
      BY <2>1, <2>3, <2>4, <2>5 DEF AttemptStep
  <1> QED
    BY <1>1, AttemptInvariance, PTL DEF DispatchSpec, RecipientsAreFixed

\* A target is sent to only while its attempt is open: what it confirmed, or
\* what was dead-lettered, is not sent again by any worker.
THEOREM OnlyPendingIsSent ==
  DispatchSpec => [][\A w \in Workers : Post(w) =>
                        attempt[current[w]][NextTarget(w)] = "pending"]_vars
  <1> DEFINE Open == \A w \in Workers : Post(w) =>
                       attempt[current[w]][NextTarget(w)] = "pending"
  <1>1. AttemptInv => Open
    <2> SUFFICES ASSUME AttemptInv, NEW w \in Workers, Post(w)
                 PROVE  attempt[current[w]][NextTarget(w)] = "pending"
      OBVIOUS
    <2>1. Sending(w) /\ DispatchTypeOK /\ WorkerOK(w)
      BY DEF AttemptInv, Post
    <2>2. NextTarget(w) \in pending[w]
      BY <2>1, NextTargetPending DEF Sending
    <2> QED
      BY <2>1, <2>2 DEF WorkerOK, Sending
  <1>2. AttemptInv /\ [DispatchNext]_vars => [Open]_vars
    BY <1>1
  <1> QED
    BY <1>2, AttemptInvariance, PTL DEF DispatchSpec

Settled(e, t) == attempt[e][t] \in {"delivered", "dead"}

LEMMA SettledKept ==
  ASSUME AttemptInv, [DispatchNext]_vars, NEW e \in Effects, NEW t \in Targets,
         Settled(e, t)
  PROVE  attempt'[e][t] = attempt[e][t]
  <1>1. CASE attempt' = attempt
    BY <1>1
  <1>2. attempt \in [Effects -> [Targets -> AttemptStates]]
    BY DEF AttemptInv, DispatchTypeOK
  <1>3. ASSUME NEW w \in Workers, PrepareCommit(w) PROVE attempt'[e][t] = attempt[e][t]
    <2>1. /\ phase[w] = "preparing"
          /\ attempt' = [attempt EXCEPT ![current[w]] =
               [u \in Targets |-> IF u \in snapshot[w] THEN "pending" ELSE @[u]]]
      BY <1>3 DEF PrepareCommit
    <2>2. snapshot[w] = {} \/ \A u \in Targets : attempt[current[w]][u] = "none"
      BY <2>1 DEF AttemptInv, WorkerOK, Recorded
    <2> QED
      BY <1>2, <2>1, <2>2 DEF Settled
  <1>4. ASSUME NEW w \in Workers, \/ MarkAttemptDelivered(w)
                                  \/ MarkWebhookAttemptFailed(w)
        PROVE  attempt'[e][t] = attempt[e][t]
    <2>1. attempt[current[w]][NextTarget(w)] = "pending"
      BY <1>4 DEF MarkAttemptDelivered, MarkWebhookAttemptFailed, AttemptIsPending
    <2>2. \E x : attempt' = [attempt EXCEPT ![current[w]][NextTarget(w)] = x]
      BY <1>4 DEF MarkAttemptDelivered, MarkWebhookAttemptFailed
    <2> QED
      BY <1>2, <2>1, <2>2 DEF Settled
  <1> QED
    <2>1. CASE DispatchNext
      BY <1>1, <1>3, <1>4, <2>1, AttemptSteps DEF AttemptStep
    <2>2. CASE UNCHANGED vars
      BY <1>1, <2>2 DEF vars, dispatchVars
    <2> QED
      BY <2>1, <2>2

\* An attempt that is confirmed or dead-lettered stays so.
THEOREM SettledForGood ==
  DispatchSpec => [][\A e \in Effects, t \in Targets :
                       attempt[e][t] \in {"delivered", "dead"} =>
                         attempt'[e][t] = attempt[e][t]]_vars
  <1> DEFINE Kept == \A e \in Effects, t \in Targets :
                       attempt[e][t] \in {"delivered", "dead"} =>
                         attempt'[e][t] = attempt[e][t]
  <1>1. AttemptInv /\ [DispatchNext]_vars => [Kept]_vars
    BY SettledKept DEF Settled
  <1> QED
    BY <1>1, AttemptInvariance, PTL DEF DispatchSpec

\* A subscription that is disabled stays disabled: no later confirmation of
\* another row, no retry and no start of a process brings it back.
THEOREM DisabledForGood ==
  DispatchSpec => [][\A s \in Subs : sub[s] = "disabled" => sub'[s] = "disabled"]_vars
  <1> DEFINE Kept == \A s \in Subs : sub[s] = "disabled" => sub'[s] = "disabled"
  <1>1. AttemptInv /\ [DispatchNext]_vars => [Kept]_vars
    <2> SUFFICES ASSUME AttemptInv, [DispatchNext]_vars, NEW s \in Subs,
                        sub[s] = "disabled"
                 PROVE  sub'[s] = "disabled"
      OBVIOUS
    <2>1. s \in Targets
      BY DEF Targets
    <2>2. PICK e \in Effects : attempt[e][s] = "dead"
      BY DEF AttemptInv, DeadLetterDisables
    <2>3. attempt'[e][s] = "dead"
      BY <2>1, <2>2, SettledKept DEF Settled
    <2>4. DeadLetterDisables'
      BY StepAttemptInv DEF AttemptInv
    <2> QED
      BY <2>3, <2>4 DEF DeadLetterDisables
  <1> QED
    BY <1>1, AttemptInvariance, PTL DEF DispatchSpec

\* A row is closed only when each of its recipients has processed its request,
\* or was given up at the threshold and disabled.
THEOREM ClosedReachedEveryone ==
  DispatchSpec => [](\A e \in Effects, t \in Targets :
                       status[e] = "delivered" /\ t \in Recorded(e) =>
                         \/ <<e, t>> \in received
                         \/ t \in Subs /\ sub[t] = "disabled" /\ tries[e][t] = MaxAttempts)
  <1> DEFINE Reached == \A e \in Effects, t \in Targets :
                          status[e] = "delivered" /\ t \in Recorded(e) =>
                            \/ <<e, t>> \in received
                            \/ t \in Subs /\ sub[t] = "disabled" /\ tries[e][t] = MaxAttempts
  <1>1. AttemptInv => Reached
    <2> SUFFICES ASSUME AttemptInv, NEW e \in Effects, NEW t \in Targets,
                        status[e] = "delivered", t \in Recorded(e),
                        <<e, t>> \notin received
                 PROVE  t \in Subs /\ sub[t] = "disabled" /\ tries[e][t] = MaxAttempts
      OBVIOUS
    <2>1. attempt[e][t] \in {"pending", "delivered", "dead"}
      BY DEF AttemptInv, DispatchTypeOK, Recorded, AttemptStates
    <2>2. attempt[e][t] = "dead"
      BY <2>1 DEF AttemptInv, DeliveredMeansSettled, ConfirmedWasReceived
    <2>3. t \in Subs
      BY <2>2 DEF AttemptInv, RowOK, Targets
    <2> QED
      BY <2>2, <2>3 DEF AttemptInv, DeadLetterDisables
  <1> QED
    BY <1>1, AttemptInvariance, PTL
=============================================================================
