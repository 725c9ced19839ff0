------------------------ MODULE SideEffectQueue_proofs ------------------------
(***************************************************************************)
(* The outbox keeps its promises for any set of rows, any number of        *)
(* workers and any claim limit.  QueueInv is inductive; the other theorems *)
(* follow from it.                                                         *)
(***************************************************************************)
EXTENDS SideEffectQueue, FiniteSetTheorems, TLAPS

\* A claim takes some of the candidate rows and no other.
LEMMA OldestAmong == \A rows : Oldest(rows) \subseteq rows
  BY DEF Oldest

LEMMA InitQueueInv == Init => QueueInv
  BY DEF Init, QueueInv, QueueTypeOK, Statuses, ExclusiveClaim, MarkFindsProcessing

LEMMA PlanInv ==
  ASSUME QueueInv, NEW e \in Effects, Plan(e) \/ BackoffElapses(e)
  PROVE  QueueInv'
  <1>1. UNCHANGED <<claiming, batch, current, verdict>>
    BY DEF Plan, BackoffElapses
  <1>2. QueueTypeOK'
    <2>1. QueueTypeOK
      BY DEF QueueInv
    <2>2. CASE Plan(e)
      BY <1>1, <2>1, <2>2 DEF QueueTypeOK, Statuses, Plan
    <2>3. CASE BackoffElapses(e)
      BY <1>1, <2>1, <2>3 DEF QueueTypeOK, BackoffElapses
    <2> QED
      BY <2>2, <2>3
  <1>3. \A f \in Effects : status[f] # "absent" => status'[f] = status[f]
    BY DEF QueueInv, QueueTypeOK, Plan, BackoffElapses
  <1>4. MarkFindsProcessing'
    BY <1>1, <1>3 DEF QueueInv, QueueTypeOK, MarkFindsProcessing, MarkApplies
  <1>5. \A w \in Workers : \A f \in claiming'[w] : status'[f] \in {"planned", "failed"}
    BY <1>1, <1>3 DEF QueueInv, QueueTypeOK
  <1> QED
    BY <1>1, <1>2, <1>4, <1>5 DEF QueueInv, ExclusiveClaim

LEMMA ClaimSelectInv ==
  ASSUME QueueInv, NEW w \in Workers, ClaimSelect(w)
  PROVE  QueueInv'
  <1> DEFINE candidate == {e \in Claimable : ~RowLocked(e)}
  <1>1. claiming' = [claiming EXCEPT ![w] = Oldest(candidate)]
    BY DEF ClaimSelect
  <1>2. Oldest(candidate) \subseteq candidate
    BY OldestAmong
  <1>3. \A e \in candidate : /\ e \in Effects
                             /\ status[e] \in {"planned", "failed"}
                             /\ \A v \in Workers : e \notin claiming[v]
    BY DEF Claimable, RowLocked
  <1>4. \A e \in candidate, v \in Workers : e \notin batch[v]
    BY <1>3 DEF QueueInv, MarkFindsProcessing, MarkApplies
  <1>5. \A v \in Workers : claiming'[v] = IF v = w THEN Oldest(candidate) ELSE claiming[v]
    BY <1>1 DEF QueueInv, QueueTypeOK
  <1>6. claiming' \in [Workers -> SUBSET Effects]
    BY <1>1, <1>2, <1>3 DEF QueueInv, QueueTypeOK
  <1>7. ExclusiveClaim'
    <2> SUFFICES ASSUME NEW v \in Workers, NEW u \in Workers, v # u
                 PROVE  (claiming'[v] \cup batch'[v]) \cap (claiming'[u] \cup batch'[u]) = {}
      BY DEF ExclusiveClaim
    <2>1. batch' = batch /\ batch[w] = {}
      BY DEF ClaimSelect, Idle
    <2>2. (claiming[v] \cup batch[v]) \cap (claiming[u] \cup batch[u]) = {}
      BY DEF QueueInv, ExclusiveClaim
    <2>3. ASSUME NEW x \in Workers, x # w
          PROVE  claiming'[w] \cap (claiming[x] \cup batch[x]) = {}
      <3> SUFFICES ASSUME NEW e \in claiming'[w]
                   PROVE  e \notin claiming[x] \cup batch[x]
        OBVIOUS
      <3>1. e \in candidate
        BY <1>2, <1>5
      <3> QED
        BY <3>1, <1>3, <1>4
    <2>4. CASE v = w
      BY <2>1, <2>3, <2>4, <1>5
    <2>5. CASE u = w
      BY <2>1, <2>3, <2>5, <1>5
    <2> QED
      BY <2>1, <2>2, <2>4, <2>5, <1>5
  <1>8. \A v \in Workers : \A e \in claiming'[v] : status[e] \in {"planned", "failed"}
    BY <1>2, <1>3, <1>5 DEF QueueInv
  <1>9. \A v \in Workers : claiming'[v] # {} => batch[v] = {}
    BY <1>5 DEF QueueInv, ClaimSelect, Idle
  <1> QED
    BY <1>6, <1>7, <1>8, <1>9
    DEF QueueInv, QueueTypeOK, MarkFindsProcessing, MarkApplies, ClaimSelect

LEMMA ClaimCommitInv ==
  ASSUME QueueInv, NEW w \in Workers, ClaimCommit(w)
  PROVE  QueueInv'
  <1>1. status' \in [Effects -> Statuses]
    BY DEF QueueInv, QueueTypeOK, ClaimCommit, Statuses
  <1>2. \A e \in Effects : status'[e] = IF e \in claiming[w] THEN "processing" ELSE status[e]
    BY DEF ClaimCommit
  <1>3. \A v \in Workers : /\ claiming'[v] = IF v = w THEN {} ELSE claiming[v]
                           /\ batch'[v] = IF v = w THEN claiming[w] ELSE batch[v]
    BY DEF QueueInv, QueueTypeOK, ClaimCommit
  <1>4. claiming' \in [Workers -> SUBSET Effects] /\ batch' \in [Workers -> SUBSET Effects]
    BY DEF QueueInv, QueueTypeOK, ClaimCommit
  <1>5. ExclusiveClaim'
    BY <1>3 DEF QueueInv, ExclusiveClaim
  <1>6. MarkFindsProcessing'
    BY <1>2, <1>3, <1>4 DEF QueueInv, QueueTypeOK, MarkFindsProcessing, MarkApplies
  <1>7. \A v \in Workers : \A e \in claiming'[v] : status'[e] \in {"planned", "failed"}
    BY <1>2, <1>3 DEF QueueInv, QueueTypeOK, ExclusiveClaim
  <1>8. \A v \in Workers : current'[v] # NoEffect => current'[v] \in batch'[v]
    BY <1>3 DEF QueueInv, ClaimCommit
  <1>9. \A v \in Workers : claiming'[v] # {} => batch'[v] = {}
    BY <1>3 DEF QueueInv
  <1>10. QueueTypeOK'
    BY <1>1, <1>4 DEF QueueInv, QueueTypeOK, ClaimCommit
  <1>11. \A v \in Workers : current'[v] = NoEffect => verdict'[v] = "none"
    BY DEF QueueInv, ClaimCommit
  <1> QED
    BY <1>5, <1>6, <1>7, <1>8, <1>9, <1>10, <1>11 DEF QueueInv

LEMMA DispatchInv ==
  ASSUME QueueInv, NEW w \in Workers,
         TakeNext(w) \/ \E v \in {"ok", "error"} : DispatchReturns(w, v)
  PROVE  QueueInv'
  BY DEF QueueInv, QueueTypeOK, ExclusiveClaim, MarkFindsProcessing, MarkApplies,
         TakeNext, DispatchReturns

\* A worker that marks a row, or stops, gives rows up and touches no row of
\* another worker.
LEMMA MarkInv ==
  ASSUME QueueInv, NEW w \in Workers, MarkDelivered(w) \/ MarkFailed(w)
  PROVE  QueueInv'
  <1> DEFINE e == current[w]
  <1>1. e \in batch[w] /\ e \in Effects
    BY DEF QueueInv, QueueTypeOK, MarkDelivered, MarkFailed
  <1>2. PICK s \in {"delivered", "failed"} : status' = [status EXCEPT ![e] = s]
    BY DEF MarkDelivered, MarkFailed
  <1>3. /\ batch' = [batch EXCEPT ![w] = @ \ {e}]
        /\ current' = [current EXCEPT ![w] = NoEffect]
        /\ verdict' = [verdict EXCEPT ![w] = "none"]
        /\ claiming' = claiming
    BY DEF MarkDelivered, MarkFailed, FinishCurrent
  <1>4. due' \in [Effects -> BOOLEAN]
    BY <1>1 DEF QueueInv, QueueTypeOK, MarkDelivered, MarkFailed
  <1>5. \A v \in Workers : batch'[v] = IF v = w THEN batch[w] \ {e} ELSE batch[v]
    BY <1>3 DEF QueueInv, QueueTypeOK
  <1>6. \A v \in Workers : e \notin batch'[v] /\ e \notin claiming'[v]
    BY <1>1, <1>3, <1>5 DEF QueueInv, ExclusiveClaim
  <1>7. \A f \in Effects : f # e => status'[f] = status[f]
    BY <1>2 DEF QueueInv, QueueTypeOK
  <1>8. QueueTypeOK'
    BY <1>1, <1>2, <1>3, <1>4, <1>5 DEF QueueInv, QueueTypeOK, Statuses
  <1>9. ExclusiveClaim'
    BY <1>3, <1>5 DEF QueueInv, ExclusiveClaim
  <1>10. MarkFindsProcessing'
    BY <1>5, <1>6, <1>7, <1>8 DEF QueueInv, QueueTypeOK, MarkFindsProcessing, MarkApplies
  <1>11. \A v \in Workers : \A f \in claiming'[v] : status'[f] \in {"planned", "failed"}
    BY <1>3, <1>6, <1>7, <1>8 DEF QueueInv, QueueTypeOK
  <1>12. \A v \in Workers : /\ current'[v] # NoEffect => current'[v] \in batch'[v]
                            /\ current'[v] = NoEffect => verdict'[v] = "none"
                            /\ claiming'[v] # {} => batch'[v] = {}
    BY <1>3, <1>5 DEF QueueInv, QueueTypeOK
  <1> QED
    BY <1>8, <1>9, <1>10, <1>11, <1>12 DEF QueueInv

LEMMA StopInv ==
  ASSUME QueueInv, NEW w \in Workers, WorkerStops(w)
  PROVE  QueueInv'
  BY DEF QueueInv, QueueTypeOK, ExclusiveClaim, MarkFindsProcessing, MarkApplies, WorkerStops

\* Every step of the queue preserves QueueInv.
LEMMA StepQueueInv ==
  ASSUME QueueInv, [Next]_queueVars
  PROVE  QueueInv'
  <1>1. ASSUME NEW e \in Effects, Plan(e) \/ BackoffElapses(e)
        PROVE  QueueInv'
    BY <1>1, PlanInv
  <1>2. ASSUME NEW w \in Workers, ClaimSelect(w)
        PROVE  QueueInv'
    BY <1>2, ClaimSelectInv
  <1>3. ASSUME NEW w \in Workers, ClaimCommit(w)
        PROVE  QueueInv'
    BY <1>3, ClaimCommitInv
  <1>4. ASSUME NEW w \in Workers,
               TakeNext(w) \/ \E v \in {"ok", "error"} : DispatchReturns(w, v)
        PROVE  QueueInv'
    BY <1>4, DispatchInv
  <1>5. ASSUME NEW w \in Workers, MarkDelivered(w) \/ MarkFailed(w)
        PROVE  QueueInv'
    BY <1>5, MarkInv
  <1>6. ASSUME NEW w \in Workers, WorkerStops(w)
        PROVE  QueueInv'
    BY <1>6, StopInv
  <1>7. CASE UNCHANGED queueVars
    BY <1>7 DEF queueVars, QueueInv, QueueTypeOK, ExclusiveClaim, MarkFindsProcessing,
                MarkApplies
  <1> QED
    BY <1>1, <1>2, <1>3, <1>4, <1>5, <1>6, <1>7 DEF Next, WorkerStep

\* QueueInv holds in every reachable state.
THEOREM QueueInvariance == Spec => []QueueInv
  BY InitQueueInv, StepQueueInv, PTL DEF Spec

\* No row is ever in the hands of two workers.
THEOREM ExclusiveClaims == Spec => []ExclusiveClaim
  BY QueueInvariance, PTL DEF QueueInv

\* A mark statement of RunOnce never finds its row in another status.
THEOREM MarksApply == Spec => []MarkFindsProcessing
  BY QueueInvariance, PTL DEF QueueInv

\* A delivered row stays delivered.
THEOREM DeliveredForGood == Spec => DeliveredIsFinal
  <1>1. QueueInv /\ [Next]_queueVars =>
          [\A e \in Effects : status[e] = "delivered" => status'[e] = "delivered"]_queueVars
    <2> SUFFICES ASSUME QueueInv, Next, NEW e \in Effects, status[e] = "delivered"
                 PROVE  status'[e] = "delivered"
      BY DEF queueVars
    <2>1. ASSUME NEW f \in Effects, Plan(f) \/ BackoffElapses(f)
          PROVE  status'[e] = "delivered"
      BY <2>1 DEF Plan, BackoffElapses, QueueInv, QueueTypeOK
    <2>2. ASSUME NEW w \in Workers, WorkerStep(w)
          PROVE  status'[e] = "delivered"
      <3>1. CASE ClaimCommit(w)
        BY <3>1 DEF ClaimCommit, QueueInv, QueueTypeOK
      <3>2. CASE MarkDelivered(w) \/ MarkFailed(w)
        BY <3>2 DEF MarkDelivered, MarkFailed, MarkApplies, QueueInv, QueueTypeOK
      <3> QED
        BY <2>2, <3>1, <3>2
        DEF WorkerStep, ClaimSelect, TakeNext, DispatchReturns, WorkerStops
    <2> QED
      BY <2>1, <2>2 DEF Next
  <1> QED
    BY QueueInvariance, <1>1, PTL DEF Spec, DeliveredIsFinal

-----------------------------------------------------------------------------
(* Which rows a claim takes: "order by created_at, id ... limit" *)

\* The rows before a row are finitely many, so their number is a number.
LEMMA OlderFinite ==
  ASSUME NEW rows \in SUBSET Nat, NEW e \in rows
  PROVE  /\ IsFiniteSet({f \in rows : f < e})
         /\ Cardinality({f \in rows : f < e}) \in Nat
  <1>1. IsFiniteSet({f \in rows : f < e})
    BY FS_BoundedSetOfNaturals
  <1> QED
    BY <1>1, FS_CardinalityType

\* An older row has fewer rows before it.
LEMMA OlderFewer ==
  ASSUME NEW rows \in SUBSET Nat, NEW d \in rows, NEW e \in rows, d < e
  PROVE  Cardinality({f \in rows : f < d}) < Cardinality({f \in rows : f < e})
  <1> DEFINE D == {f \in rows : f < d}
             E == {f \in rows : f < e}
  <1>1. D \in SUBSET E /\ d \in E /\ d \notin D
    <2>1. d \in Nat /\ e \in Nat /\ ~(d < d)
      OBVIOUS
    <2>2. ASSUME NEW f \in D PROVE f \in E
      <3>1. f \in rows /\ f \in Nat /\ f < d
        OBVIOUS
      <3> QED
        BY <2>1, <3>1
    <2>3. d \notin D
      BY <2>1, Zenon
    <2> QED
      BY <2>2, <2>3
  <1>2. IsFiniteSet(D) /\ IsFiniteSet(E) /\ Cardinality(D) \in Nat /\ Cardinality(E) \in Nat
    BY OlderFinite
  <1> HIDE DEF D, E
  <1>3. Cardinality(D) <= Cardinality(E) /\ Cardinality(D) # Cardinality(E)
    BY <1>1, <1>2, FS_Subset
  <1>4. Cardinality(D) < Cardinality(E)
    BY <1>2, <1>3
  <1> QED
    BY <1>4 DEF D, E

\* A claim takes at most ClaimLimit rows.
LEMMA OldestBounded ==
  ASSUME NEW rows \in SUBSET Nat
  PROVE  IsFiniteSet(Oldest(rows)) /\ Cardinality(Oldest(rows)) <= ClaimLimit
  <1> DEFINE rank == [e \in Oldest(rows) |-> Cardinality({f \in rows : f < e})]
             Ranks == 0..(ClaimLimit - 1)
  <1>1. \A e \in Oldest(rows) : e \in rows /\ rank[e] \in Ranks
    BY OlderFinite, QueueAssumption DEF Oldest
  <1>2. ASSUME NEW d \in Oldest(rows), NEW e \in Oldest(rows), d # e
        PROVE  rank[d] # rank[e]
    <2>1. d \in rows /\ e \in rows /\ d \in Nat /\ e \in Nat
      BY <1>1
    <2>2. rank[d] \in Nat /\ rank[e] \in Nat
      BY <1>1, QueueAssumption
    <2>3. CASE d < e
      BY <2>1, <2>2, <2>3, OlderFewer
    <2>4. CASE e < d
      BY <2>1, <2>2, <2>4, OlderFewer
    <2> QED
      BY <1>2, <2>1, <2>3, <2>4
  <1>3. rank \in Injection(Oldest(rows), Ranks)
    <2>1. rank \in [Oldest(rows) -> Ranks]
      BY <1>1
    <2> HIDE DEF rank, Ranks
    <2> QED
      BY <1>2, <2>1 DEF Injection, IsInjective
  <1>4. IsFiniteSet(Ranks) /\ Cardinality(Ranks) = ClaimLimit
    BY FS_Interval, QueueAssumption
  <1> HIDE DEF rank, Ranks
  <1> QED
    BY <1>3, <1>4, FS_Injection

\* What is in one pair of hands is bounded by the limit of one claim.
BatchesBounded ==
    \A w \in Workers :
        /\ IsFiniteSet(claiming[w]) /\ Cardinality(claiming[w]) <= ClaimLimit
        /\ IsFiniteSet(batch[w]) /\ Cardinality(batch[w]) <= ClaimLimit

LEMMA EmptyBounded == IsFiniteSet({}) /\ Cardinality({}) <= ClaimLimit
  BY FS_EmptySet, QueueAssumption

LEMMA StepBatchesBounded ==
  ASSUME QueueInv, BatchesBounded, [Next]_queueVars
  PROVE  BatchesBounded'
  <1>1. CASE UNCHANGED <<claiming, batch>>
    BY <1>1 DEF BatchesBounded
  <1>2. ASSUME NEW w \in Workers, ClaimSelect(w) PROVE BatchesBounded'
    <2> DEFINE candidate == {e \in Claimable : ~RowLocked(e)}
    <2>1. candidate \in SUBSET Nat
      BY QueueAssumption DEF Claimable
    <2>2. claiming' = [claiming EXCEPT ![w] = Oldest(candidate)] /\ batch' = batch
      BY <1>2 DEF ClaimSelect
    <2> HIDE DEF candidate
    <2>3. IsFiniteSet(Oldest(candidate)) /\ Cardinality(Oldest(candidate)) <= ClaimLimit
      BY <2>1, OldestBounded
    <2> QED
      BY <2>2, <2>3 DEF QueueInv, QueueTypeOK, BatchesBounded
  <1>3. ASSUME NEW w \in Workers, ClaimCommit(w) PROVE BatchesBounded'
    BY <1>3, EmptyBounded DEF ClaimCommit, QueueInv, QueueTypeOK, BatchesBounded
  <1>4. ASSUME NEW w \in Workers, MarkDelivered(w) \/ MarkFailed(w) PROVE BatchesBounded'
    <2>1. claiming' = claiming /\ batch' = [batch EXCEPT ![w] = @ \ {current[w]}]
      BY <1>4 DEF MarkDelivered, MarkFailed, FinishCurrent
    <2>2. IsFiniteSet(batch[w]) /\ batch[w] \ {current[w]} \in SUBSET batch[w]
      BY DEF BatchesBounded
    <2>3. /\ IsFiniteSet(batch[w] \ {current[w]})
          /\ Cardinality(batch[w] \ {current[w]}) <= Cardinality(batch[w])
          /\ Cardinality(batch[w] \ {current[w]}) \in Nat /\ Cardinality(batch[w]) \in Nat
      BY <2>2, FS_Subset, FS_CardinalityType
    <2>4. Cardinality(batch[w] \ {current[w]}) <= ClaimLimit
      BY <2>3, QueueAssumption DEF BatchesBounded
    <2> QED
      BY <2>1, <2>3, <2>4 DEF QueueInv, QueueTypeOK, BatchesBounded
  <1>5. ASSUME NEW w \in Workers, WorkerStops(w) PROVE BatchesBounded'
    BY <1>5, EmptyBounded DEF WorkerStops, QueueInv, QueueTypeOK, BatchesBounded
  <1> QED
    BY <1>1, <1>2, <1>3, <1>4, <1>5
    DEF Next, WorkerStep, queueVars, Plan, BackoffElapses, TakeNext, DispatchReturns

\* No worker ever holds more rows than one claim may take, however many are due
\* and however many of its dispatches fail.
THEOREM ClaimsAreBounded == Spec => []BatchesBounded
  <1>1. Init => BatchesBounded
    BY EmptyBounded DEF Init, BatchesBounded
  <1>2. QueueInv /\ BatchesBounded /\ [Next]_queueVars => BatchesBounded'
    BY StepBatchesBounded
  <1> QED
    BY <1>1, <1>2, QueueInvariance, PTL DEF Spec
=============================================================================
