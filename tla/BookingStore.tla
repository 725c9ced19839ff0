----------------------------- MODULE BookingStore -----------------------------
(***************************************************************************)
(* booking.Store over booking.PostgresRepository: the bookings, idempotency*)
(* keys and planned side effects of the database, and the API processes    *)
(* that read and write them.  A process holds Store.mu for a whole         *)
(* operation, so it runs one operation at a time, but it keeps every       *)
(* booking it has seen in Store.bookings and reads that copy afterwards;   *)
(* another process may write between two of its database steps.            *)
(*                                                                         *)
(* The calendar, email and webhook effects one operation plans are one     *)
(* element of effects: the same transaction inserts them under the same    *)
(* conflict key.                                                           *)
(***************************************************************************)
EXTENDS Naturals

CONSTANTS
    Procs,         \* API processes that share the database
    Keys,          \* idempotency keys of the clients
    NoKey,         \* a create request without one
    ReqIDs,        \* request ids the API may give a request
    Primary,       \* PrimaryFixtureUID: every create makes this booking
    Rescheduled,   \* RescheduledFixtureUID: every reschedule makes this one
    PendingUids,   \* the fixtures a host confirms or declines
    Offered,       \* the slots the event type offers
    PrimaryStart,  \* start of the primary fixture, one of them
    PendingStart,  \* start of the pending fixtures, not one of them
    None,          \* no booking
    Kinds,         \* operations clients call, a bound on a run
    AcksLost       \* whether a commit may succeed and report an error

Uids == {Primary, Rescheduled} \cup PendingUids
Starts == Offered \cup {PendingStart}
OpKinds == {"create", "read", "cancel", "reschedule", "confirm", "decline"}

ASSUME StoreAssumption ==
    /\ Primary # Rescheduled
    /\ {Primary, Rescheduled} \cap PendingUids = {}
    /\ NoKey \notin Keys
    /\ PrimaryStart \in Offered
    /\ PendingStart \notin Offered
    /\ Kinds \subseteq OpKinds
    /\ ReqIDs # {}
    /\ AcksLost \in BOOLEAN
    /\ None \notin [status : {"accepted", "pending", "cancelled", "rejected"},
                    start : Starts, req : ReqIDs]

VARIABLES
    db,        \* db[u]: the row of bookings, or None
    dbKeys,    \* keys in booking_idempotency_keys; all name Primary
    effects,   \* <<uid, kind, request id>> of booking_planned_side_effects
    cache,     \* cache[p][u]: Store.bookings of process p, or None
    keyCache,  \* keyCache[p]: keys in Store.idempotency of process p
    pc,        \* pc[p]: the next database step of the operation p runs
    op,        \* op[p]: that operation and its arguments
    creates    \* creates[k]: committed creates with key k that were not replays

vars == <<db, dbKeys, effects, cache, keyCache, pc, op, creates>>

Bookings == [status : {"accepted", "pending", "cancelled", "rejected"},
             start : Starts, req : ReqIDs]

Ops == [kind : OpKinds, uid : Uids, start : Starts,
        key : Keys \cup {NoKey}, req : ReqIDs]

NoOp == CHOOSE o \in Ops : o.kind = "read"

Init ==
    /\ db = [u \in Uids |-> None]
    /\ dbKeys = {}
    /\ effects = {}
    /\ cache = [p \in Procs |-> [u \in Uids |-> None]]
    /\ keyCache = [p \in Procs |-> {}]
    /\ pc = [p \in Procs |-> "idle"]
    /\ op = [p \in Procs |-> NoOp]
    /\ creates = [k \in Keys |-> 0]

-----------------------------------------------------------------------------
(* Operations begin: Store.mu is taken *)

Run(p, o, step) ==
    /\ pc' = [pc EXCEPT ![p] = step]
    /\ op' = [op EXCEPT ![p] = IF step = "idle" THEN NoOp ELSE o]

Return(p) == Run(p, NoOp, "idle")

\* Mutant of ConfirmableStatus: a declined booking may still be confirmed.
ConfirmableUnlessFinal(status) == status \in {"pending", "rejected"}

\* No operation of the program writes "awaiting_host", the other status the
\* code accepts.
ConfirmableStatus(status) == status = "pending"

\* What an operation does once findLocked has the booking b.
AfterFind(kind, b) ==
    CASE kind = "read" -> "idle"
      [] kind = "cancel" -> "save"
      [] kind = "reschedule" -> "check"
      [] OTHER -> IF ConfirmableStatus(b.status) THEN "save" ELSE "idle"

\* Operations on a booking that exists.  Arguments an operation ignores have
\* the value they have in NoOp.
Requests ==
    [kind : Kinds \ {"create", "reschedule"}, uid : Uids,
     start : {NoOp.start}, key : {NoOp.key}, req : ReqIDs]
    \cup
    [kind : Kinds \cap {"reschedule"}, uid : Uids, start : Starts,
     key : {NoOp.key}, req : ReqIDs]

CreateRequests ==
    [kind : Kinds \cap {"create"}, uid : {Primary}, start : Starts,
     key : Keys \cup {NoKey}, req : ReqIDs]

\* A key whose booking this process has already returned.
Remembered(p, k) == k \in keyCache[p] /\ cache[p][Primary] # None

\* Create finds its key in the database: the booking it names is returned.  (A
\* remembered key is answered from the cache and changes nothing.)
ReplayCreate(p, o) ==
    /\ pc[p] = "idle"
    /\ o.key \in dbKeys
    /\ ~Remembered(p, o.key)
    /\ cache' = [cache EXCEPT ![p][Primary] = db[Primary]]
    /\ keyCache' = [keyCache EXCEPT ![p] = @ \cup {o.key}]
    /\ UNCHANGED <<db, dbKeys, effects, pc, op, creates>>

\* Mutant of BeginCreate: the key is remembered before the booking is saved.
BeginCreateEarlyKey(p, o) ==
    /\ pc[p] = "idle"
    /\ o.key \notin dbKeys
    /\ ~Remembered(p, o.key)
    /\ Run(p, o, "check")
    /\ keyCache' = [keyCache EXCEPT ![p] = @ \cup ({o.key} \cap Keys)]
    /\ UNCHANGED <<db, dbKeys, effects, cache, creates>>

\* No booking for the key, or no key: Create goes on to the slot check.
BeginCreate(p, o) ==
    /\ pc[p] = "idle"
    /\ o.key \notin dbKeys
    /\ ~Remembered(p, o.key)
    /\ Run(p, o, "check")
    /\ UNCHANGED <<db, dbKeys, effects, cache, keyCache, creates>>

\* Mutant of Found: a booking this process has not seen is taken as absent.
FoundInCache(p, u) == cache[p][u]

\* findLocked: the cached booking, else the row, which is then cached.
Found(p, u) == IF cache[p][u] # None THEN cache[p][u] ELSE db[u]

Find(p, o) ==
    /\ pc[p] = "idle"
    /\ Found(p, o.uid) # None
    /\ cache' = [cache EXCEPT ![p][o.uid] = Found(p, o.uid)]
    /\ Run(p, o, AfterFind(o.kind, Found(p, o.uid)))
    /\ UNCHANGED <<db, dbKeys, effects, keyCache, creates>>

\* Neither has it, but it is a fixture that findLocked creates on demand.
FindFixture(p, o) ==
    /\ pc[p] = "idle"
    /\ Found(p, o.uid) = None
    /\ o.uid # Rescheduled
    /\ Run(p, o, "materialize")
    /\ UNCHANGED <<db, dbKeys, effects, cache, keyCache, creates>>

Fixture(u, req) ==
    IF u = Primary
    THEN [status |-> "accepted", start |-> PrimaryStart, req |-> req]
    ELSE [status |-> "pending", start |-> PendingStart, req |-> req]

\* SaveCreated without a key: an upsert, whatever has been written meanwhile.
\* If its commit is reported as failed, the operation returns the error.
Materialize(p) ==
    LET u == op[p].uid
        b == Fixture(u, op[p].req)
    IN  /\ pc[p] = "materialize"
        /\ db' = [db EXCEPT ![u] = b]
        /\ \/ /\ cache' = [cache EXCEPT ![p][u] = b]
              /\ Run(p, op[p], AfterFind(op[p].kind, b))
           \/ AcksLost /\ Return(p) /\ UNCHANGED cache
        /\ UNCHANGED <<dbKeys, effects, keyCache, creates>>

-----------------------------------------------------------------------------
(* The availability check of Create and Reschedule *)

\* BusyTimes reads the accepted bookings of the database, not the cache.
Busy(start) ==
    \E u \in Uids : db[u] # None /\ db[u].status = "accepted" /\ db[u].start = start

\* Mutant of Available: busy times are not subtracted.
AvailableIfOffered(start) == start \in Offered

\* An offered slot that no accepted booking of the database overlaps.
Available(start) == start \in Offered /\ ~Busy(start)

CheckSlot(p) ==
    /\ pc[p] = "check"
    /\ IF Available(op[p].start) THEN Run(p, op[p], "save") ELSE Return(p)
    /\ UNCHANGED <<db, dbKeys, effects, cache, keyCache, creates>>

-----------------------------------------------------------------------------
(* The transaction that ends an operation, and the reply *)

\* Whether the process learns that its transaction committed.
Acks == IF AcksLost THEN BOOLEAN ELSE {TRUE}

\* Mutant of Remember: Store.bookings is not updated after the save.
RememberNothing(p, acked, copies) == UNCHANGED cache

\* The copies a process keeps after a commit it knows of.
Remember(p, acked, copies) ==
    cache' = [cache EXCEPT ![p] = IF acked THEN copies ELSE @]

\* Mutant of PlanEffects: a save is not given the effects, as that of a new booking.
PlanNothing(u, kind, req) == UNCHANGED effects

\* "on conflict (booking_uid, name, request_id) do nothing".
PlanEffects(u, kind, req) == effects' = effects \cup {<<u, kind, req>>}

\* Mutant of KeyTaken: the key is not read again under its lock.
KeyNotRead(k) == FALSE

KeyTaken(k) == k \in dbKeys

\* Mutant of KeyRow: a request without a key inserts one too.
KeyRowAlways(k) == {k}

\* The key row a create inserts, none without a key.
KeyRow(k) == {k} \cap Keys

\* SaveCreated holds the advisory lock of the key and finds it taken.
SaveDuplicate(p) ==
    /\ pc[p] = "save"
    /\ op[p].kind = "create"
    /\ KeyTaken(op[p].key)
    /\ cache' = [cache EXCEPT ![p][Primary] = db[Primary]]
    /\ keyCache' = [keyCache EXCEPT ![p] = @ \cup {op[p].key}]
    /\ Return(p)
    /\ UNCHANGED <<db, dbKeys, effects, creates>>

SaveCreated(p) ==
    LET k == op[p].key
        created == [status |-> "accepted", start |-> op[p].start, req |-> op[p].req]
    IN  /\ pc[p] = "save"
        /\ op[p].kind = "create"
        /\ ~KeyTaken(k)
        /\ db' = [db EXCEPT ![Primary] = created]
        /\ dbKeys' = dbKeys \cup KeyRow(k)
        /\ creates' = [j \in Keys |-> IF j = k THEN creates[j] + 1 ELSE creates[j]]
        /\ \E acked \in Acks :
              /\ Remember(p, acked, [cache[p] EXCEPT ![Primary] = created])
              /\ keyCache' = [keyCache EXCEPT
                                ![p] = IF acked THEN @ \cup KeyRow(k) ELSE @]
        /\ Return(p)
        /\ UNCHANGED effects

\* The new status is merged into the cached copy, which keeps its request id.
Merged(p, status) == [cache[p][op[p].uid] EXCEPT !.status = status]

SaveStatus(p, kind, status, effect) ==
    LET u == op[p].uid
    IN  /\ pc[p] = "save"
        /\ op[p].kind = kind
        /\ db' = [db EXCEPT ![u] = Merged(p, status)]
        /\ PlanEffects(u, effect, Merged(p, status).req)
        /\ \E acked \in Acks :
              Remember(p, acked, [cache[p] EXCEPT ![u] = Merged(p, status)])
        /\ Return(p)
        /\ UNCHANGED <<dbKeys, keyCache, creates>>

SaveCancel(p) == SaveStatus(p, "cancel", "cancelled", "cancelled")
SaveConfirm(p) == SaveStatus(p, "confirm", "accepted", "confirmed")
SaveDecline(p) == SaveStatus(p, "decline", "rejected", "declined")

\* Old and new booking in one transaction; rescheduling Rescheduled itself
\* writes the row twice and the new booking remains.
SaveReschedule(p) ==
    LET old == Merged(p, "cancelled")
        new == [Merged(p, "accepted") EXCEPT !.start = op[p].start]
    IN  /\ pc[p] = "save"
        /\ op[p].kind = "reschedule"
        /\ db' = [db EXCEPT ![op[p].uid] = old, ![Rescheduled] = new]
        /\ PlanEffects(Rescheduled, "rescheduled", new.req)
        /\ \E acked \in Acks :
              Remember(p, acked,
                       [cache[p] EXCEPT ![op[p].uid] = old, ![Rescheduled] = new])
        /\ Return(p)
        /\ UNCHANGED <<dbKeys, keyCache, creates>>

-----------------------------------------------------------------------------
(* Failures *)

\* A validator refuses the request, or a statement fails and its transaction
\* rolls back; Store.bookings keeps what was read.
Fail(p) ==
    /\ pc[p] # "idle"
    /\ Return(p)
    /\ UNCHANGED <<db, dbKeys, effects, cache, keyCache, creates>>

\* The process dies and is started again with empty maps.
Restart(p) ==
    /\ cache' = [cache EXCEPT ![p] = [u \in Uids |-> None]]
    /\ keyCache' = [keyCache EXCEPT ![p] = {}]
    /\ Return(p)
    /\ UNCHANGED <<db, dbKeys, effects, creates>>

Begin(p) ==
    \/ \E o \in CreateRequests : ReplayCreate(p, o) \/ BeginCreate(p, o)
    \/ \E o \in Requests : Find(p, o) \/ FindFixture(p, o)

Continue(p) ==
    \/ Materialize(p)
    \/ CheckSlot(p)
    \/ SaveDuplicate(p)
    \/ SaveCreated(p)
    \/ SaveCancel(p)
    \/ SaveConfirm(p)
    \/ SaveDecline(p)
    \/ SaveReschedule(p)

Next == \E p \in Procs : Begin(p) \/ Continue(p) \/ Fail(p) \/ Restart(p)

Spec == Init /\ [][Next]_vars

-----------------------------------------------------------------------------
(* Properties *)

Steps == {"idle", "materialize", "check", "save"}

StoreTypeOK ==
    /\ db \in [Uids -> Bookings \cup {None}]
    /\ dbKeys \subseteq Keys
    /\ effects \subseteq
         Uids \X {"cancelled", "rescheduled", "confirmed", "declined"} \X ReqIDs
    /\ cache \in [Procs -> [Uids -> Bookings \cup {None}]]
    /\ keyCache \in [Procs -> SUBSET Keys]
    /\ pc \in [Procs -> Steps]
    /\ op \in [Procs -> Ops]
    /\ creates \in [Keys -> Nat]

\* "Create booking must prevent duplicate bookings for the same idempotency
\* key": over all processes, restarts and lost replies, at most one create with
\* a key writes a booking, every other one replays it (the advisory lock and the
\* re-read of the key inside SaveCreated); and a process answers a key from
\* memory only if the database has it, so a restart or another process gives the
\* same answer.
CreatedOncePerKey ==
    /\ \A k \in Keys : creates[k] <= 1
    /\ \A p \in Procs : keyCache[p] \subseteq dbKeys

\* Only a booking that waits for its host is accepted or declined, and nothing
\* makes it wait again (Confirm and Decline look at the status of the cached
\* copy).  Cancel looks at no status: besides the changes of the lifecycle table
\* in booking-lifecycle-spec.md it makes a cancelled booking of a rejected one.
HostDecisionIsFinal ==
    [][\A u \in PendingUids : db[u] # None =>
         /\ db'[u].status # db[u].status =>
              <<db[u].status, db'[u].status>> \in
                {<<"pending", "accepted">>, <<"pending", "rejected">>,
                 <<"pending", "cancelled">>, <<"accepted", "cancelled">>,
                 <<"rejected", "cancelled">>}]_vars

\* The attendee is never told both that the host accepted and that the host
\* declined.
OneHostDecision ==
    \A u \in PendingUids, r \in ReqIDs, q \in ReqIDs :
        ~(<<u, "confirmed", r>> \in effects /\ <<u, "declined", q>> \in effects)

\* The effects that a row b of booking u calls for are among planned.
Announced(u, b, planned) ==
    CASE b.status = "cancelled" ->
           \/ <<u, "cancelled", b.req>> \in planned
           \/ u # Rescheduled /\ <<Rescheduled, "rescheduled", b.req>> \in planned
      [] b.status = "rejected" -> <<u, "declined", b.req>> \in planned
      [] b.status = "accepted" /\ u \in PendingUids -> <<u, "confirmed", b.req>> \in planned
      [] b.status = "accepted" /\ u = Rescheduled -> <<u, "rescheduled", b.req>> \in planned
      [] OTHER -> TRUE

\* The transactional outbox: whatever outdated copies, restarts and lost replies,
\* a row says that its booking was cancelled, declined, confirmed or moved only
\* if that has been announced under the request id of the row.  It may have
\* been announced of an earlier change: a second one of the same kind under the
\* same request id plans nothing (RescheduleIsAnnounced fails).
StatusIsAnnounced ==
    \A u \in Uids : db[u] # None => Announced(u, db[u], effects)

\* What a process has cached is what the database has: no answer and no write
\* is computed from an outdated copy.
CacheIsCurrent ==
    \A p \in Procs, u \in Uids : cache[p][u] # None => cache[p][u] = db[u]

\* Create and Reschedule never put a booking on a slot that another accepted
\* booking has ("slot reservation and booking creation must be race safe").
SlotIsFreeWhenTaken ==
    [][\A p \in Procs :
         (SaveCreated(p) \/ SaveReschedule(p)) =>
            \A u, v \in Uids :
               /\ u # v
               /\ db'[u] # None /\ db'[v] # None
               /\ db'[u].status = "accepted" /\ db'[v].status = "accepted"
               /\ db'[u] # db[u]
               => db'[u].start # db'[v].start]_vars

\* A reschedule that changes the replacement booking plans calendar, email and
\* webhook effects of its own ("reschedule emails emitted; reschedule webhook
\* emitted").
RescheduleIsAnnounced ==
    [][\A p \in Procs :
         SaveReschedule(p) /\ db'[Rescheduled] # db[Rescheduled] => effects' # effects]_vars
-----------------------------------------------------------------------------
(* The service that a lone process implements *)

Service == INSTANCE BookingService WITH bookings <- db, keys <- dbKeys

\* One process with its memory, its steps, failures and restarts does what a
\* store with a single map would: an operation takes effect at its commit, by
\* the booking as it is then, and only a slot that is free then is taken.
ImplementsBookingService == Service!Spec

\* What the running operation of p goes by is still so: the row it would make
\* is missing, the copy it merges into is the row, the slot it found is free.
Current(p) ==
    LET o == op[p]
    IN  /\ pc[p] = "materialize" => db[o.uid] = None
        /\ pc[p] = "save" /\ o.kind # "create" => cache[p][o.uid] = db[o.uid]
        /\ pc[p] = "save" /\ o.kind \in {"create", "reschedule"} => Available(o.start)

\* Whatever processes, restarts and lost acknowledgements do, a commit that no
\* single map could have made is that of an operation which something outdated
\* between its reads and its commit.
OnlyTheOvertakenDepart ==
    [][[Service!Next]_(Service!vars) \/ \E p \in Procs : Continue(p) /\ ~Current(p)]_vars
=============================================================================
