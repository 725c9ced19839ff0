--------------------------- MODULE SideEffectQueue ---------------------------
(***************************************************************************)
(* The outbox table booking_planned_side_effects and the workers that      *)
(* drain it: PostgresRepository.ClaimPlannedSideEffects, MarkPlanned-      *)
(* SideEffectDelivered, MarkPlannedSideEffectFailed and the loop of        *)
(* SideEffectWorker.RunOnce.  What a dispatch does is left to the module   *)
(* SideEffectDispatch; here a dispatch only returns a verdict.             *)
(*                                                                         *)
(* An effect is named by its rank in the order "created_at, id" in which   *)
(* rows are claimed.                                                       *)
(***************************************************************************)
EXTENDS Naturals, FiniteSets

CONSTANTS
    Effects,      \* rows the bookings may plan
    Workers,      \* worker processes that may run at the same time
    ClaimLimit,   \* the limit one claim statement is given
    NoEffect      \* no row: the worker is between two rows of its batch

ASSUME QueueAssumption ==
    /\ Effects \subseteq Nat
    /\ NoEffect \notin Effects
    /\ ClaimLimit \in Nat \ {0}

VARIABLES
    status,    \* status[e]: the row's status column, "absent" before planning
    due,       \* due[e]: next_attempt_at <= now()
    claiming,  \* claiming[w]: rows locked by w's open claim transaction
    batch,     \* batch[w]: claimed rows w has not finished with
    current,   \* current[w]: the row w is dispatching
    verdict    \* verdict[w]: what Dispatch returned for it, "none" before

queueVars == <<status, due, claiming, batch, current, verdict>>

Statuses == {"absent", "planned", "processing", "failed", "delivered"}

Init ==
    /\ status = [e \in Effects |-> "absent"]
    /\ due = [e \in Effects |-> FALSE]
    /\ claiming = [w \in Workers |-> {}]
    /\ batch = [w \in Workers |-> {}]
    /\ current = [w \in Workers |-> NoEffect]
    /\ verdict = [w \in Workers |-> "none"]

-----------------------------------------------------------------------------
(* The rows *)

\* The transaction that changes the booking inserts the row.
Plan(e) ==
    /\ status[e] = "absent"
    /\ status' = [status EXCEPT ![e] = "planned"]
    /\ due' = [due EXCEPT ![e] = TRUE]
    /\ UNCHANGED <<claiming, batch, current, verdict>>

\* next_attempt_at of a failed row passes.
BackoffElapses(e) ==
    /\ status[e] = "failed"
    /\ ~due[e]
    /\ due' = [due EXCEPT ![e] = TRUE]
    /\ UNCHANGED <<status, claiming, batch, current, verdict>>

\* Mutant of RowLocked: the candidate rows are selected without locking them.
NothingLocked(e) == FALSE

RowLocked(e) == \E w \in Workers : e \in claiming[w]

\* Mutant of Claimable: claimed rows are taken again, as if their worker had
\* always stopped.
ClaimableOrClaimed ==
    {e \in Effects : status[e] \in {"planned", "failed", "processing"} /\ due[e]}

Claimable == {e \in Effects : status[e] \in {"planned", "failed"} /\ due[e]}

\* The first ClaimLimit elements of a set of rows.
Oldest(rows) ==
    {e \in rows : Cardinality({f \in rows : f < e}) < ClaimLimit}

-----------------------------------------------------------------------------
(* A worker *)

Idle(w) == claiming[w] = {} /\ batch[w] = {}

\* "for update skip locked": rows another open claim holds are passed over.
ClaimSelect(w) ==
    /\ Idle(w)
    /\ LET candidate == {e \in Claimable : ~RowLocked(e)}
       IN  /\ candidate # {}
           /\ claiming' = [claiming EXCEPT ![w] = Oldest(candidate)]
    /\ UNCHANGED <<status, due, batch, current, verdict>>

\* The update commits: the rows are "processing" and belong to the batch.
ClaimCommit(w) ==
    /\ claiming[w] # {}
    /\ status' = [e \in Effects |->
                    IF e \in claiming[w] THEN "processing" ELSE status[e]]
    /\ batch' = [batch EXCEPT ![w] = claiming[w]]
    /\ claiming' = [claiming EXCEPT ![w] = {}]
    /\ UNCHANGED <<due, current, verdict>>

\* RETURNING promises no order, so the loop may meet the rows in any.
TakeNext(w) ==
    /\ current[w] = NoEffect
    /\ \E e \in batch[w] : current' = [current EXCEPT ![w] = e]
    /\ UNCHANGED <<status, due, claiming, batch, verdict>>

DispatchReturns(w, v) ==
    /\ current[w] # NoEffect
    /\ verdict[w] = "none"
    /\ verdict' = [verdict EXCEPT ![w] = v]
    /\ UNCHANGED <<status, due, claiming, batch, current>>

\* What both marking statements require of the row.
MarkApplies(e) == status[e] = "processing"

\* The worker goes on to the next row of its batch.
FinishCurrent(w) ==
    /\ batch' = [batch EXCEPT ![w] = @ \ {current[w]}]
    /\ current' = [current EXCEPT ![w] = NoEffect]
    /\ verdict' = [verdict EXCEPT ![w] = "none"]
    /\ UNCHANGED claiming

MarkDelivered(w) ==
    /\ verdict[w] = "ok"
    /\ MarkApplies(current[w])
    /\ status' = [status EXCEPT ![current[w]] = "delivered"]
    /\ UNCHANGED due
    /\ FinishCurrent(w)

\* next_attempt_at moves into the future.
MarkFailed(w) ==
    /\ verdict[w] = "error"
    /\ MarkApplies(current[w])
    /\ status' = [status EXCEPT ![current[w]] = "failed"]
    /\ due' = [due EXCEPT ![current[w]] = FALSE]
    /\ FinishCurrent(w)

\* RunOnce ends early: the process dies, its 30 second context expires, or a
\* mark statement fails and RunOnce returns.  An open claim rolls back; the
\* rows of a committed batch stay "processing" and nothing claims them again.
WorkerStops(w) ==
    /\ ~Idle(w)
    /\ claiming' = [claiming EXCEPT ![w] = {}]
    /\ batch' = [batch EXCEPT ![w] = {}]
    /\ current' = [current EXCEPT ![w] = NoEffect]
    /\ verdict' = [verdict EXCEPT ![w] = "none"]
    /\ UNCHANGED <<status, due>>

WorkerStep(w) ==
    \/ ClaimSelect(w)
    \/ ClaimCommit(w)
    \/ TakeNext(w)
    \/ \E v \in {"ok", "error"} : DispatchReturns(w, v)
    \/ MarkDelivered(w)
    \/ MarkFailed(w)
    \/ WorkerStops(w)

Next ==
    \/ \E e \in Effects : Plan(e) \/ BackoffElapses(e)
    \/ \E w \in Workers : WorkerStep(w)

Spec == Init /\ [][Next]_queueVars

-----------------------------------------------------------------------------
(* Properties *)

QueueTypeOK ==
    /\ status \in [Effects -> Statuses]
    /\ due \in [Effects -> BOOLEAN]
    /\ claiming \in [Workers -> SUBSET Effects]
    /\ batch \in [Workers -> SUBSET Effects]
    /\ current \in [Workers -> Effects \cup {NoEffect}]
    /\ verdict \in [Workers -> {"none", "ok", "error"}]

\* At any time a row is in the hands of at most one worker, counting the rows
\* its claim has locked and the rows of its batch (ClaimPlannedSideEffects
\* with "for update skip locked").
ExclusiveClaim ==
    \A v, w \in Workers :
        v # w => (claiming[v] \cup batch[v]) \cap (claiming[w] \cup batch[w]) = {}

\* A row a worker is about to mark is "processing", so neither mark statement
\* of RunOnce ever finds "side effect was not processing".
MarkFindsProcessing ==
    \A w \in Workers : \A e \in batch[w] : MarkApplies(e)

\* Once delivered, a row is never claimed, dispatched or marked again.
DeliveredIsFinal ==
    [][\A e \in Effects : status[e] = "delivered" => status'[e] = "delivered"]_queueVars

\* What makes the three above inductive.
QueueInv ==
    /\ QueueTypeOK
    /\ ExclusiveClaim
    /\ MarkFindsProcessing
    /\ \A w \in Workers : \A e \in claiming[w] : status[e] \in {"planned", "failed"}
    /\ \A w \in Workers : current[w] # NoEffect => current[w] \in batch[w]
    /\ \A w \in Workers : current[w] = NoEffect => verdict[w] = "none"
    /\ \A w \in Workers : claiming[w] # {} => batch[w] = {}
=============================================================================
