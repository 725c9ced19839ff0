------------------------- MODULE BookingStore_proofs -------------------------
(***************************************************************************)
(* What the booking store guarantees for any number of processes, keys,    *)
(* request ids and slots, whatever restarts and lost acknowledgements: its *)
(* types; that an idempotency key creates at most one booking; how copies  *)
(* become outdated; and that the store departs from its service only by    *)
(* commits of operations that something outdated.                          *)
(***************************************************************************)
EXTENDS BookingStore, TLAPS

-----------------------------------------------------------------------------
(* Idempotency keys *)

\* creates counts exactly the key rows, and memory holds no other key.
KeysAreBacked == \A p \in Procs : keyCache[p] \subseteq dbKeys

KeyInv ==
    /\ dbKeys \subseteq Keys
    /\ creates \in [Keys -> Nat]
    /\ \A k \in Keys : creates[k] = IF k \in dbKeys THEN 1 ELSE 0
    /\ keyCache \in [Procs -> SUBSET Keys]
    /\ KeysAreBacked

LEMMA InitKeyInv == Init => KeyInv
  BY DEF Init, KeyInv, KeysAreBacked

\* A process that adds a key of the database to its memory.
LEMMA LearnKeyInv ==
  ASSUME KeyInv, NEW p \in Procs, NEW k \in dbKeys, UNCHANGED <<dbKeys, creates>>,
         keyCache' = [keyCache EXCEPT ![p] = @ \cup {k}]
  PROVE  KeyInv'
  BY DEF KeyInv, KeysAreBacked

LEMMA SaveCreatedKeyInv ==
  ASSUME KeyInv, NEW p \in Procs, SaveCreated(p)
  PROVE  KeyInv'
  <1> DEFINE k == op[p].key
  <1>1. k \notin dbKeys
    BY DEF SaveCreated, KeyTaken
  <1>2. dbKeys' = dbKeys \cup ({k} \cap Keys)
    BY DEF SaveCreated, KeyRow
  <1>3. creates' = [j \in Keys |-> IF j = k THEN creates[j] + 1 ELSE creates[j]]
    BY DEF SaveCreated
  <1>4. PICK acked \in Acks :
          keyCache' = [keyCache EXCEPT ![p] = IF acked THEN @ \cup KeyRow(k) ELSE @]
    BY DEF SaveCreated
  <1>5. creates' \in [Keys -> Nat]
    BY <1>3 DEF KeyInv
  <1>6. ASSUME NEW j \in Keys
        PROVE  creates'[j] = IF j \in dbKeys' THEN 1 ELSE 0
    BY <1>1, <1>2, <1>3, <1>6 DEF KeyInv
  <1>7. keyCache' \in [Procs -> SUBSET Keys]
    BY <1>4 DEF KeyInv, KeyRow
  <1>8. KeysAreBacked'
    BY <1>2, <1>4 DEF KeyInv, KeysAreBacked, KeyRow
  <1> QED
    BY <1>2, <1>5, <1>6, <1>7, <1>8 DEF KeyInv

LEMMA NextKeyInv == KeyInv /\ [Next]_vars => KeyInv'
  <1> SUFFICES ASSUME KeyInv, [Next]_vars
               PROVE  KeyInv'
    OBVIOUS
  <1>1. ASSUME NEW p \in Procs, NEW o \in CreateRequests, ReplayCreate(p, o)
        PROVE  KeyInv'
    BY <1>1, LearnKeyInv DEF ReplayCreate
  <1>2. ASSUME NEW p \in Procs, SaveDuplicate(p)
        PROVE  KeyInv'
    BY <1>2, LearnKeyInv DEF SaveDuplicate, KeyTaken
  <1>3. ASSUME NEW p \in Procs, SaveCreated(p)
        PROVE  KeyInv'
    BY <1>3, SaveCreatedKeyInv
  <1>4. ASSUME NEW p \in Procs, Restart(p)
        PROVE  KeyInv'
    BY <1>4 DEF Restart, KeyInv, KeysAreBacked
  <1>5. ASSUME UNCHANGED <<dbKeys, creates, keyCache>>
        PROVE  KeyInv'
    BY <1>5 DEF KeyInv, KeysAreBacked
  <1> QED
    BY <1>1, <1>2, <1>3, <1>4, <1>5
    DEF Next, Begin, Continue, vars, BeginCreate, Find, FindFixture, Materialize,
        CheckSlot, SaveCancel, SaveConfirm, SaveDecline, SaveStatus, SaveReschedule, Fail

\* For any number of processes, whatever restarts and lost replies: an
\* idempotency key creates at most one booking, and no process answers from
\* memory for a key the database does not have.
THEOREM OneCreatePerKey == Spec => []CreatedOncePerKey
  <1>1. KeyInv => CreatedOncePerKey
    BY DEF KeyInv, KeysAreBacked, CreatedOncePerKey
  <1> QED
    BY <1>1, InitKeyInv, NextKeyInv, PTL DEF Spec

-----------------------------------------------------------------------------
(* Types *)

\* An operation past findLocked works on the copy findLocked left in the cache.
ArgumentCached ==
    \A p \in Procs :
        pc[p] \in {"check", "save"} /\ op[p].kind # "create" => cache[p][op[p].uid] # None

TypeInv == StoreTypeOK /\ KeyInv /\ ArgumentCached

LEMMA NoOpType == NoOp \in Ops
  <1>1. PICK r \in ReqIDs : TRUE
    BY StoreAssumption
  <1>2. [kind |-> "read", uid |-> Primary, start |-> PrimaryStart, key |-> NoKey,
         req |-> r] \in Ops
    BY StoreAssumption DEF Ops, OpKinds, Uids, Starts
  <1>3. \E o \in Ops : o.kind = "read"
    BY <1>2
  <1> QED
    BY <1>3 DEF NoOp

LEMMA RequestsType == Requests \subseteq Ops /\ CreateRequests \subseteq Ops
  BY NoOpType, StoreAssumption DEF Requests, CreateRequests, Ops, OpKinds, Uids

LEMMA NoneIsNoBooking == None \notin Bookings
  BY StoreAssumption DEF Bookings

\* Run changes the step of its own process only.
LEMMA RunType ==
  ASSUME pc \in [Procs -> Steps], op \in [Procs -> Ops],
         NEW p \in Procs, NEW o \in Ops, NEW step \in Steps, Run(p, o, step)
  PROVE  /\ pc' \in [Procs -> Steps]
         /\ op' \in [Procs -> Ops]
         /\ pc'[p] = step
         /\ step # "idle" => op'[p] = o
         /\ \A q \in Procs : q # p => pc'[q] = pc[q] /\ op'[q] = op[q]
  BY NoOpType DEF Run

LEMMA ReturnType ==
  ASSUME pc \in [Procs -> Steps], op \in [Procs -> Ops], NEW p \in Procs, Return(p)
  PROVE  /\ pc' \in [Procs -> Steps]
         /\ op' \in [Procs -> Ops]
         /\ pc'[p] = "idle"
         /\ \A q \in Procs : q # p => pc'[q] = pc[q] /\ op'[q] = op[q]
  BY NoOpType DEF Return, Run, Steps

LEMMA AfterFindType ==
  ASSUME NEW kind \in OpKinds, NEW b \in Bookings
  PROVE  AfterFind(kind, b) \in Steps
  BY DEF AfterFind, Steps, OpKinds

LEMMA FixtureType ==
  ASSUME NEW u \in Uids, NEW r \in ReqIDs
  PROVE  Fixture(u, r) \in Bookings
  BY StoreAssumption DEF Fixture, Bookings, Starts

LEMMA InitTypeInv == Init => TypeInv
  <1> SUFFICES ASSUME Init
               PROVE  TypeInv
    OBVIOUS
  <1>1. StoreTypeOK
    BY NoOpType DEF Init, StoreTypeOK, Steps
  <1>2. ArgumentCached
    BY DEF Init, ArgumentCached
  <1> QED
    BY <1>1, <1>2, InitKeyInv DEF TypeInv

\* Steps that leave the database's bookings and effects alone, give a process
\* copies cp to remember, and take it to a step its copies allow.
LEMMA CopyTypeInv ==
  ASSUME TypeInv, KeyInv', NEW p \in Procs, NEW cp \in [Uids -> Bookings \cup {None}],
         db' \in [Uids -> Bookings \cup {None}],
         effects' \subseteq
           Uids \X {"cancelled", "rescheduled", "confirmed", "declined"} \X ReqIDs,
         cache' = [cache EXCEPT ![p] = cp],
         pc' \in [Procs -> Steps], op' \in [Procs -> Ops],
         \A q \in Procs : q # p => pc'[q] = pc[q] /\ op'[q] = op[q],
         pc'[p] \in {"check", "save"} /\ op'[p].kind # "create" => cp[op'[p].uid] # None
  PROVE  TypeInv'
  <1>1. cache' \in [Procs -> [Uids -> Bookings \cup {None}]]
    BY DEF TypeInv, StoreTypeOK
  <1>2. StoreTypeOK'
    BY <1>1 DEF StoreTypeOK, KeyInv
  <1>3. ArgumentCached'
    <2> SUFFICES ASSUME NEW q \in Procs, pc'[q] \in {"check", "save"},
                        op'[q].kind # "create"
                 PROVE  cache'[q][op'[q].uid] # None
      BY DEF ArgumentCached
    <2>1. CASE q = p
      BY <2>1 DEF TypeInv, StoreTypeOK
    <2>2. CASE q # p
      BY <2>2 DEF TypeInv, StoreTypeOK, ArgumentCached
    <2> QED
      BY <2>1, <2>2
  <1> QED
    BY <1>2, <1>3 DEF TypeInv

LEMMA BeginTypeInv ==
  ASSUME TypeInv, KeyInv', NEW p \in Procs, Begin(p)
  PROVE  TypeInv'
  <1> USE DEF TypeInv, StoreTypeOK
  <1>1. ASSUME NEW o \in CreateRequests, ReplayCreate(p, o)
        PROVE  TypeInv'
    <2>1. cache' = [cache EXCEPT ![p] = [cache[p] EXCEPT ![Primary] = db[Primary]]]
      BY <1>1 DEF ReplayCreate
    <2>2. [cache[p] EXCEPT ![Primary] = db[Primary]] \in [Uids -> Bookings \cup {None}]
      BY DEF Uids
    <2>3. UNCHANGED <<db, effects, pc, op>> /\ pc[p] = "idle"
      BY <1>1 DEF ReplayCreate
    <2> QED
      BY <2>1, <2>2, <2>3, CopyTypeInv
  <1>2. ASSUME NEW o \in CreateRequests, BeginCreate(p, o)
        PROVE  TypeInv'
    <2>1. o \in Ops /\ o.kind = "create"
      BY RequestsType DEF CreateRequests
    <2>2. Run(p, o, "check") /\ UNCHANGED <<db, effects, cache>>
      BY <1>2 DEF BeginCreate
    <2>3. cache' = [cache EXCEPT ![p] = cache[p]]
      BY <2>2
    <2>4. /\ pc' \in [Procs -> Steps] /\ op' \in [Procs -> Ops] /\ op'[p] = o
          /\ \A q \in Procs : q # p => pc'[q] = pc[q] /\ op'[q] = op[q]
      BY <2>1, <2>2, RunType DEF Steps
    <2> QED
      BY <2>1, <2>2, <2>3, <2>4, CopyTypeInv
  <1>3. ASSUME NEW o \in Requests, Find(p, o)
        PROVE  TypeInv'
    <2> DEFINE b == Found(p, o.uid)
               cp == [cache[p] EXCEPT ![o.uid] = b]
    <2>1. o \in Ops /\ o.uid \in Uids /\ o.kind \in OpKinds
      BY RequestsType DEF Ops
    <2>2. b \in Bookings
      BY <1>3, <2>1 DEF Find, Found
    <2>3. /\ Run(p, o, AfterFind(o.kind, b))
          /\ UNCHANGED <<db, effects>>
          /\ cache' = [cache EXCEPT ![p] = cp]
      BY <1>3 DEF Find
    <2>4. AfterFind(o.kind, b) \in Steps
      BY <2>1, <2>2, AfterFindType
    <2>5. cp \in [Uids -> Bookings \cup {None}] /\ cp[o.uid] # None
      BY <2>1, <2>2, NoneIsNoBooking
    <2>6. /\ pc' \in [Procs -> Steps] /\ op' \in [Procs -> Ops]
          /\ pc'[p] # "idle" => op'[p] = o
          /\ \A q \in Procs : q # p => pc'[q] = pc[q] /\ op'[q] = op[q]
      <3> HIDE DEF b
      <3> QED
        BY <2>1, <2>3, <2>4, RunType
    <2>7. /\ db' \in [Uids -> Bookings \cup {None}]
          /\ effects' \subseteq
               Uids \X {"cancelled", "rescheduled", "confirmed", "declined"} \X ReqIDs
      BY <2>3
    <2> HIDE DEF b, cp, TypeInv
    <2> QED
      BY <2>3, <2>5, <2>6, <2>7, CopyTypeInv
  <1>4. ASSUME NEW o \in Requests, FindFixture(p, o)
        PROVE  TypeInv'
    <2>1. o \in Ops
      BY RequestsType
    <2>2. Run(p, o, "materialize") /\ UNCHANGED <<db, effects, cache>>
      BY <1>4 DEF FindFixture
    <2>3. cache' = [cache EXCEPT ![p] = cache[p]]
      BY <2>2
    <2>4. /\ pc' \in [Procs -> Steps] /\ op' \in [Procs -> Ops] /\ pc'[p] = "materialize"
          /\ \A q \in Procs : q # p => pc'[q] = pc[q] /\ op'[q] = op[q]
      BY <2>1, <2>2, RunType DEF Steps
    <2> QED
      BY <2>2, <2>3, <2>4, CopyTypeInv
  <1> QED
    BY <1>1, <1>2, <1>3, <1>4 DEF Begin

\* A transaction that ends an operation: it writes bookings, plans effects and
\* returns, remembering the copies or not.
LEMMA SaveTypeInv ==
  ASSUME TypeInv, KeyInv', NEW p \in Procs, Return(p),
         NEW copies \in [Uids -> Bookings \cup {None}],
         NEW acked \in BOOLEAN, Remember(p, acked, copies),
         db' \in [Uids -> Bookings \cup {None}],
         effects' \subseteq
           Uids \X {"cancelled", "rescheduled", "confirmed", "declined"} \X ReqIDs
  PROVE  TypeInv'
  <1> DEFINE cp == IF acked THEN copies ELSE cache[p]
  <1>1. cache' = [cache EXCEPT ![p] = cp]
    BY DEF Remember
  <1>2. cp \in [Uids -> Bookings \cup {None}]
    BY DEF TypeInv, StoreTypeOK
  <1>3. /\ pc' \in [Procs -> Steps] /\ op' \in [Procs -> Ops] /\ pc'[p] = "idle"
        /\ \A q \in Procs : q # p => pc'[q] = pc[q] /\ op'[q] = op[q]
    BY ReturnType DEF TypeInv, StoreTypeOK
  <1> HIDE DEF cp
  <1> QED
    BY <1>1, <1>2, <1>3, CopyTypeInv

LEMMA MaterializeTypeInv ==
  ASSUME TypeInv, KeyInv', NEW p \in Procs, Materialize(p)
  PROVE  TypeInv'
  <1> USE DEF TypeInv, StoreTypeOK
  <1> DEFINE u == op[p].uid
             b == Fixture(u, op[p].req)
             cp == [cache[p] EXCEPT ![u] = b]
  <1>1. u \in Uids /\ op[p] \in Ops /\ op[p].kind \in OpKinds /\ op[p].req \in ReqIDs
    BY DEF Ops
  <1>2. b \in Bookings
    BY <1>1, FixtureType
  <1>3. /\ db' = [db EXCEPT ![u] = b]
        /\ UNCHANGED effects
        /\ \/ /\ cache' = [cache EXCEPT ![p] = cp]
              /\ Run(p, op[p], AfterFind(op[p].kind, b))
           \/ UNCHANGED cache /\ Return(p)
    BY DEF Materialize
  <1>4. AfterFind(op[p].kind, b) \in Steps
    BY <1>1, <1>2, AfterFindType
  <1>5. cp \in [Uids -> Bookings \cup {None}] /\ cp[u] # None
    BY <1>1, <1>2, NoneIsNoBooking
  <1>6. db' \in [Uids -> Bookings \cup {None}]
    BY <1>1, <1>2, <1>3
  <1>7. effects' \subseteq
          Uids \X {"cancelled", "rescheduled", "confirmed", "declined"} \X ReqIDs
    BY <1>3
  <1> HIDE DEF b, cp
  <1>8. CASE cache' = [cache EXCEPT ![p] = cp] /\ Run(p, op[p], AfterFind(op[p].kind, b))
    <2>1. /\ pc' \in [Procs -> Steps] /\ op' \in [Procs -> Ops]
          /\ pc'[p] # "idle" => op'[p] = op[p]
          /\ \A q \in Procs : q # p => pc'[q] = pc[q] /\ op'[q] = op[q]
      BY <1>1, <1>4, <1>8, RunType
    <2> HIDE DEF TypeInv
    <2> QED
      BY <1>5, <1>6, <1>7, <1>8, <2>1, CopyTypeInv
  <1>9. CASE UNCHANGED cache /\ Return(p)
    <2>1. cache[p] \in [Uids -> Bookings \cup {None}]
      OBVIOUS
    <2>2. Remember(p, FALSE, cache[p])
      BY <1>9 DEF Remember
    <2> HIDE DEF TypeInv
    <2> QED
      BY <1>6, <1>7, <1>9, <2>1, <2>2, SaveTypeInv
  <1> QED
    BY <1>3, <1>8, <1>9

LEMMA AcksBoolean == Acks \subseteq BOOLEAN
  BY DEF Acks

LEMMA SaveCreatedTypeInv ==
  ASSUME TypeInv, KeyInv', NEW p \in Procs, SaveCreated(p)
  PROVE  TypeInv'
  <1> USE DEF TypeInv, StoreTypeOK
  <1> DEFINE created == [status |-> "accepted", start |-> op[p].start, req |-> op[p].req]
             copies == [cache[p] EXCEPT ![Primary] = created]
  <1>1. created \in Bookings /\ Primary \in Uids
    BY DEF Bookings, Ops, Uids
  <1>2. db' = [db EXCEPT ![Primary] = created] /\ Return(p) /\ UNCHANGED effects
    BY DEF SaveCreated
  <1>3. PICK acked \in Acks : Remember(p, acked, copies)
    BY DEF SaveCreated
  <1>4. copies \in [Uids -> Bookings \cup {None}]
    BY <1>1
  <1>5. db' \in [Uids -> Bookings \cup {None}]
    BY <1>1, <1>2
  <1>6. effects' \subseteq
          Uids \X {"cancelled", "rescheduled", "confirmed", "declined"} \X ReqIDs
    BY <1>2
  <1>7. acked \in BOOLEAN
    BY AcksBoolean
  <1> HIDE DEF copies, TypeInv
  <1> QED
    BY <1>2, <1>3, <1>4, <1>5, <1>6, <1>7, SaveTypeInv

LEMMA MergedType ==
  ASSUME TypeInv, NEW p \in Procs, pc[p] = "save", op[p].kind # "create",
         NEW s \in {"accepted", "pending", "cancelled", "rejected"}
  PROVE  /\ op[p].uid \in Uids
         /\ Merged(p, s) \in Bookings
  <1>1. op[p].uid \in Uids
    BY DEF TypeInv, StoreTypeOK, Ops
  <1>2. cache[p][op[p].uid] # None
    BY DEF TypeInv, ArgumentCached
  <1>3. cache[p][op[p].uid] \in Bookings
    BY <1>1, <1>2 DEF TypeInv, StoreTypeOK
  <1> QED
    BY <1>1, <1>3 DEF Merged, Bookings

LEMMA SaveStatusTypeInv ==
  ASSUME TypeInv, KeyInv', NEW p \in Procs, SaveCancel(p) \/ SaveConfirm(p) \/ SaveDecline(p)
  PROVE  TypeInv'
  <1>1. PICK kind \in {"cancel", "confirm", "decline"},
             s \in {"accepted", "cancelled", "rejected"},
             e \in {"cancelled", "confirmed", "declined"} : SaveStatus(p, kind, s, e)
    BY DEF SaveCancel, SaveConfirm, SaveDecline
  <1> DEFINE u == op[p].uid
             copies == [cache[p] EXCEPT ![u] = Merged(p, s)]
  <1>2. u \in Uids /\ Merged(p, s) \in Bookings
    BY <1>1, MergedType DEF SaveStatus
  <1>3. /\ db' = [db EXCEPT ![u] = Merged(p, s)]
        /\ effects' = effects \cup {<<u, e, Merged(p, s).req>>}
        /\ Return(p)
    BY <1>1 DEF SaveStatus, PlanEffects
  <1>4. PICK acked \in Acks : Remember(p, acked, copies)
    BY <1>1 DEF SaveStatus
  <1>5. copies \in [Uids -> Bookings \cup {None}]
    BY <1>2 DEF TypeInv, StoreTypeOK
  <1>6. db' \in [Uids -> Bookings \cup {None}]
    BY <1>2, <1>3 DEF TypeInv, StoreTypeOK
  <1>7. effects' \subseteq
          Uids \X {"cancelled", "rescheduled", "confirmed", "declined"} \X ReqIDs
    BY <1>2, <1>3 DEF TypeInv, StoreTypeOK, Bookings
  <1> HIDE DEF copies
  <1> QED
    BY <1>3, <1>4, <1>5, <1>6, <1>7, AcksBoolean, SaveTypeInv

LEMMA SaveRescheduleTypeInv ==
  ASSUME TypeInv, KeyInv', NEW p \in Procs, SaveReschedule(p)
  PROVE  TypeInv'
  <1> DEFINE u == op[p].uid
             old == Merged(p, "cancelled")
             new == [Merged(p, "accepted") EXCEPT !.start = op[p].start]
             copies == [cache[p] EXCEPT ![u] = old, ![Rescheduled] = new]
  <1>1. u \in Uids /\ Rescheduled \in Uids /\ old \in Bookings
        /\ Merged(p, "accepted") \in Bookings
    BY MergedType DEF SaveReschedule, Uids
  <1>2. new \in Bookings
    BY <1>1 DEF TypeInv, StoreTypeOK, Bookings, Ops
  <1>3. /\ db' = [db EXCEPT ![u] = old, ![Rescheduled] = new]
        /\ effects' = effects \cup {<<Rescheduled, "rescheduled", new.req>>}
        /\ Return(p)
    BY DEF SaveReschedule, PlanEffects
  <1>4. PICK acked \in Acks : Remember(p, acked, copies)
    BY DEF SaveReschedule
  <1>5. copies \in [Uids -> Bookings \cup {None}]
    BY <1>1, <1>2 DEF TypeInv, StoreTypeOK
  <1>6. db' \in [Uids -> Bookings \cup {None}]
    BY <1>1, <1>2, <1>3 DEF TypeInv, StoreTypeOK
  <1>7. effects' \subseteq
          Uids \X {"cancelled", "rescheduled", "confirmed", "declined"} \X ReqIDs
    BY <1>1, <1>2, <1>3 DEF TypeInv, StoreTypeOK, Bookings
  <1> HIDE DEF copies
  <1> QED
    BY <1>3, <1>4, <1>5, <1>6, <1>7, AcksBoolean, SaveTypeInv

LEMMA NextTypeInv == TypeInv /\ [Next]_vars => TypeInv'
  <1> SUFFICES ASSUME TypeInv, [Next]_vars
               PROVE  TypeInv'
    OBVIOUS
  <1>1. KeyInv'
    BY NextKeyInv DEF TypeInv
  <1>2. ASSUME NEW p \in Procs, Begin(p)
        PROVE  TypeInv'
    BY <1>1, <1>2, BeginTypeInv
  <1>3. ASSUME NEW p \in Procs, CheckSlot(p)
        PROVE  TypeInv'
    <2>1. cache' = [cache EXCEPT ![p] = cache[p]] /\ UNCHANGED <<db, effects>>
      BY <1>3 DEF CheckSlot, TypeInv, StoreTypeOK
    <2>2. CASE Run(p, op[p], "save")
      <3>1. /\ pc' \in [Procs -> Steps] /\ op' \in [Procs -> Ops] /\ op'[p] = op[p]
            /\ \A q \in Procs : q # p => pc'[q] = pc[q] /\ op'[q] = op[q]
        BY <2>2, RunType DEF TypeInv, StoreTypeOK, Steps
      <3>2. op'[p].kind # "create" => cache[p][op'[p].uid] # None
        BY <1>3, <3>1 DEF CheckSlot, TypeInv, ArgumentCached
      <3>3. cache[p] \in [Uids -> Bookings \cup {None}]
        BY DEF TypeInv, StoreTypeOK
      <3>4. /\ db' \in [Uids -> Bookings \cup {None}]
            /\ effects' \subseteq
                 Uids \X {"cancelled", "rescheduled", "confirmed", "declined"} \X ReqIDs
        BY <2>1 DEF TypeInv, StoreTypeOK
      <3> QED
        BY <1>1, <2>1, <3>1, <3>2, <3>3, <3>4, CopyTypeInv
    <2>3. CASE Return(p)
      BY <1>1, <2>1, <2>3, ReturnType, CopyTypeInv DEF TypeInv, StoreTypeOK
    <2> QED
      BY <1>3, <2>2, <2>3 DEF CheckSlot
  <1>4. ASSUME NEW p \in Procs, SaveDuplicate(p)
        PROVE  TypeInv'
    <2> DEFINE cp == [cache[p] EXCEPT ![Primary] = db[Primary]]
    <2>1. cache' = [cache EXCEPT ![p] = cp] /\ UNCHANGED <<db, effects>> /\ Return(p)
      BY <1>4 DEF SaveDuplicate
    <2>2. cp \in [Uids -> Bookings \cup {None}]
      BY DEF TypeInv, StoreTypeOK, Uids
    <2> HIDE DEF cp
    <2> QED
      BY <1>1, <2>1, <2>2, ReturnType, CopyTypeInv DEF TypeInv, StoreTypeOK
  <1>5. ASSUME NEW p \in Procs, Fail(p)
        PROVE  TypeInv'
    <2>1. cache' = [cache EXCEPT ![p] = cache[p]] /\ UNCHANGED <<db, effects>> /\ Return(p)
      BY <1>5 DEF Fail, TypeInv, StoreTypeOK
    <2> QED
      BY <1>1, <2>1, ReturnType, CopyTypeInv DEF TypeInv, StoreTypeOK
  <1>6. ASSUME NEW p \in Procs, Restart(p)
        PROVE  TypeInv'
    <2>1. /\ cache' = [cache EXCEPT ![p] = [u \in Uids |-> None]]
          /\ UNCHANGED <<db, effects>> /\ Return(p)
      BY <1>6 DEF Restart
    <2> QED
      BY <1>1, <2>1, ReturnType, CopyTypeInv DEF TypeInv, StoreTypeOK
  <1>7. CASE UNCHANGED vars
    BY <1>1, <1>7 DEF vars, TypeInv, StoreTypeOK, ArgumentCached
  <1> QED
    BY <1>1, <1>2, <1>3, <1>4, <1>5, <1>6, <1>7, MaterializeTypeInv, SaveCreatedTypeInv,
       SaveStatusTypeInv, SaveRescheduleTypeInv
    DEF Next, Continue

\* Type correctness for every value of the constants.
THEOREM StoreTypeCorrect == Spec => []StoreTypeOK
  <1>1. TypeInv => StoreTypeOK
    BY DEF TypeInv
  <1> QED
    BY <1>1, InitTypeInv, NextTypeInv, PTL DEF Spec

-----------------------------------------------------------------------------
(* What an operation knows by itself *)

\* A create materializes nothing, only creates and reschedules look at a slot,
\* and a host decision is about to be saved over a copy that is pending.
OperationOK(p) ==
    /\ pc[p] = "materialize" => op[p].kind # "create" /\ op[p].uid # Rescheduled
    /\ pc[p] = "check" => op[p].kind \in {"create", "reschedule"}
    /\ pc[p] = "save" /\ op[p].kind \in {"confirm", "decline"} =>
         cache[p][op[p].uid].status = "pending"

OperationInv == \A p \in Procs : OperationOK(p)

\* A process moves no other process and writes no other memory.
LEMMA OthersKept ==
  ASSUME TypeInv, NEW p \in Procs, Begin(p) \/ Continue(p) \/ Fail(p) \/ Restart(p),
         NEW q \in Procs, q # p
  PROVE  pc'[q] = pc[q] /\ op'[q] = op[q] /\ cache'[q] = cache[q]
  <1> USE DEF TypeInv, StoreTypeOK
  <1>1. (\E o, step : Run(p, o, step)) \/ UNCHANGED <<pc, op>>
    BY DEF Begin, Continue, ReplayCreate, BeginCreate, Find, FindFixture, Materialize,
           CheckSlot, SaveDuplicate, SaveCreated, SaveCancel, SaveConfirm, SaveDecline,
           SaveStatus, SaveReschedule, Fail, Restart, Return
  <1>2. pc'[q] = pc[q] /\ op'[q] = op[q]
    BY <1>1 DEF Run
  <1>3. \/ UNCHANGED cache
        \/ \E copies : cache' = [cache EXCEPT ![p] = copies]
        \/ \E u, b : cache' = [cache EXCEPT ![p][u] = b]
    BY DEF Begin, Continue, ReplayCreate, BeginCreate, Find, FindFixture, Materialize,
           CheckSlot, SaveDuplicate, SaveCreated, SaveCancel, SaveConfirm, SaveDecline,
           SaveStatus, SaveReschedule, Fail, Restart, Remember
  <1>4. cache'[q] = cache[q]
    BY <1>3
  <1> QED
    BY <1>2, <1>4

LEMMA IdleOperationOK ==
  ASSUME NEW p \in Procs, pc'[p] = "idle"
  PROVE  OperationOK(p)'
  BY DEF OperationOK

\* findLocked has given the process its copy b.
LEMMA FoundOperationOK ==
  ASSUME TypeInv, NEW p \in Procs, NEW o \in Ops, o.kind # "create",
         NEW b \in Bookings, Run(p, o, AfterFind(o.kind, b)), cache'[p][o.uid] = b
  PROVE  OperationOK(p)'
  <1>1. o.kind \in OpKinds
    BY DEF Ops
  <1>2. AfterFind(o.kind, b) \in Steps
    BY <1>1, AfterFindType
  <1>3. pc'[p] = AfterFind(o.kind, b) /\ (pc'[p] # "idle" => op'[p] = o)
    BY <1>2, RunType DEF TypeInv, StoreTypeOK
  <1>4. /\ pc'[p] # "materialize"
        /\ pc'[p] = "check" => o.kind = "reschedule"
        /\ pc'[p] = "save" /\ o.kind \in {"confirm", "decline"} => b.status = "pending"
    BY <1>1, <1>3 DEF AfterFind, ConfirmableStatus, OpKinds
  <1> QED
    BY <1>3, <1>4 DEF OperationOK

LEMMA BeginOperationOK ==
  ASSUME TypeInv, OperationInv, NEW p \in Procs, Begin(p)
  PROVE  OperationOK(p)'
  <1> USE DEF TypeInv, StoreTypeOK
  <1>1. ASSUME NEW o \in CreateRequests, ReplayCreate(p, o) PROVE OperationOK(p)'
    BY <1>1, IdleOperationOK DEF ReplayCreate
  <1>2. ASSUME NEW o \in CreateRequests, BeginCreate(p, o) PROVE OperationOK(p)'
    <2>1. o \in Ops /\ o.kind = "create"
      BY RequestsType DEF CreateRequests
    <2>2. pc'[p] = "check" /\ op'[p] = o
      BY <1>2, <2>1, RunType DEF BeginCreate, Steps
    <2> QED
      BY <2>1, <2>2 DEF OperationOK
  <1>3. ASSUME NEW o \in Requests, Find(p, o) PROVE OperationOK(p)'
    <2>1. o \in Ops /\ o.uid \in Uids /\ o.kind # "create"
      BY RequestsType DEF Ops, Requests
    <2>2. Found(p, o.uid) \in Bookings
      BY <1>3, <2>1 DEF Find, Found
    <2>3. cache' = [cache EXCEPT ![p][o.uid] = Found(p, o.uid)]
      BY <1>3 DEF Find
    <2>4. cache'[p][o.uid] = Found(p, o.uid)
      BY <2>1, <2>3
    <2> HIDE DEF TypeInv
    <2> QED
      BY <1>3, <2>1, <2>2, <2>4, FoundOperationOK DEF Find
  <1>4. ASSUME NEW o \in Requests, FindFixture(p, o) PROVE OperationOK(p)'
    <2>1. o \in Ops /\ o.kind # "create"
      BY RequestsType DEF Requests
    <2>2. pc'[p] = "materialize" /\ op'[p] = o /\ o.uid # Rescheduled
      BY <1>4, <2>1, RunType DEF FindFixture, Steps
    <2> QED
      BY <2>1, <2>2 DEF OperationOK
  <1> QED
    BY <1>1, <1>2, <1>3, <1>4 DEF Begin

LEMMA StepOperationInv ==
  ASSUME TypeInv, OperationInv, [Next]_vars
  PROVE  OperationInv'
  <1> USE DEF TypeInv, StoreTypeOK
  <1>1. ASSUME NEW p \in Procs, Return(p) PROVE OperationOK(p)'
    BY <1>1, ReturnType, IdleOperationOK
  <1>2. ASSUME NEW p \in Procs, Materialize(p) PROVE OperationOK(p)'
    <2> DEFINE u == op[p].uid
               b == Fixture(u, op[p].req)
    <2>1. op[p] \in Ops /\ u \in Uids /\ op[p].kind # "create"
      BY <1>2 DEF Ops, OperationInv, OperationOK, Materialize
    <2>2. b \in Bookings
      BY <2>1, FixtureType DEF Ops
    <2>3. CASE cache' = [cache EXCEPT ![p][u] = b] /\ Run(p, op[p], AfterFind(op[p].kind, b))
      <3>1. cache'[p][u] = b
        BY <2>1, <2>3
      <3> HIDE DEF b, TypeInv
      <3> QED
        BY <2>1, <2>2, <2>3, <3>1, FoundOperationOK
    <2>4. CASE Return(p)
      BY <1>1, <2>4
    <2> QED
      BY <1>2, <2>3, <2>4 DEF Materialize
  <1>3. ASSUME NEW p \in Procs, CheckSlot(p) PROVE OperationOK(p)'
    <2>1. CASE Run(p, op[p], "save")
      <3>1. op[p] \in Ops /\ op[p].kind \in {"create", "reschedule"}
        BY <1>3 DEF OperationInv, OperationOK, CheckSlot
      <3>2. pc'[p] = "save" /\ op'[p] = op[p]
        BY <2>1, <3>1, RunType DEF Steps
      <3> QED
        BY <3>1, <3>2 DEF OperationOK
    <2> QED
      BY <1>1, <1>3, <2>1 DEF CheckSlot
  <1>4. ASSUME NEW p \in Procs, Continue(p) \/ Fail(p) \/ Restart(p) PROVE OperationOK(p)'
    BY <1>1, <1>2, <1>3, <1>4
    DEF Continue, SaveDuplicate, SaveCreated, SaveCancel, SaveConfirm, SaveDecline,
        SaveStatus, SaveReschedule, Fail, Restart
  <1>5. ASSUME NEW p \in Procs, Begin(p) \/ Continue(p) \/ Fail(p) \/ Restart(p),
               NEW q \in Procs
        PROVE  OperationOK(q)'
    <2>1. CASE q = p
      BY <1>4, <1>5, <2>1, BeginOperationOK
    <2>2. CASE q # p
      <3>1. pc'[q] = pc[q] /\ op'[q] = op[q] /\ cache'[q] = cache[q]
        BY <1>5, <2>2, OthersKept
      <3> QED
        BY <3>1 DEF OperationInv, OperationOK
    <2> QED
      BY <2>1, <2>2
  <1>6. CASE UNCHANGED vars
    BY <1>6 DEF vars, OperationInv, OperationOK
  <1> QED
    BY <1>5, <1>6 DEF Next, OperationInv

LEMMA InitOperationInv == Init => OperationInv
  BY DEF Init, OperationInv, OperationOK

\* What an operation knows by itself holds whatever the others do.
THEOREM OperationInvariance == Spec => [](TypeInv /\ OperationInv)
  BY InitTypeInv, NextTypeInv, InitOperationInv, StepOperationInv, PTL DEF Spec

-----------------------------------------------------------------------------
(* The transactional outbox *)

\* Only the fixtures of the host are ever pending, in the database or in memory.
Decided(u, b) == b # None /\ u \notin PendingUids => b.status # "pending"

OnlyFixturesPend ==
    \A u \in Uids : Decided(u, db[u]) /\ \A p \in Procs : Decided(u, cache[p][u])

OutboxInv == OnlyFixturesPend /\ StatusIsAnnounced

LEMMA AnnouncedKept ==
  ASSUME NEW u, NEW b, NEW planned, NEW more, planned \subseteq more,
         Announced(u, b, planned)
  PROVE  Announced(u, b, more)
  BY DEF Announced

LEMMA FixtureAnnounced ==
  ASSUME NEW u \in Uids, u # Rescheduled, NEW r \in ReqIDs, NEW planned
  PROVE  Decided(u, Fixture(u, r)) /\ Announced(u, Fixture(u, r), planned)
  BY StoreAssumption DEF Fixture, Decided, Announced, Uids

\* A commit plans the effects of each row that it changes.
LEMMA CommitAnnounces ==
  ASSUME TypeInv, OperationInv, OnlyFixturesPend, NEW p \in Procs, Continue(p)
  PROVE  /\ effects \subseteq effects'
         /\ \A u \in Uids : \/ db'[u] = db[u]
                            \/ Decided(u, db'[u]) /\ Announced(u, db'[u], effects')
  <1> DEFINE v == op[p].uid
  <1>1. CASE CheckSlot(p) \/ SaveDuplicate(p)
    BY <1>1 DEF CheckSlot, SaveDuplicate
  <1>2. CASE Materialize(p)
    <2>1. v \in Uids /\ op[p].req \in ReqIDs /\ v # Rescheduled
      BY <1>2 DEF TypeInv, StoreTypeOK, Ops, OperationInv, OperationOK, Materialize
    <2>2. db' = [db EXCEPT ![v] = Fixture(v, op[p].req)] /\ UNCHANGED effects
      BY <1>2 DEF Materialize
    <2> QED
      BY <2>1, <2>2, FixtureAnnounced DEF TypeInv, StoreTypeOK
  <1>3. CASE SaveCreated(p)
    <2> DEFINE created == [status |-> "accepted", start |-> op[p].start, req |-> op[p].req]
    <2>1. db' = [db EXCEPT ![Primary] = created] /\ UNCHANGED effects
      BY <1>3 DEF SaveCreated
    <2>2. Decided(Primary, created) /\ Announced(Primary, created, effects)
      BY StoreAssumption DEF Decided, Announced
    <2> HIDE DEF created
    <2> QED
      BY <2>1, <2>2 DEF TypeInv, StoreTypeOK
  <1>4. CASE SaveCancel(p) \/ SaveConfirm(p) \/ SaveDecline(p)
    <2>1. PICK s \in {"accepted", "cancelled", "rejected"},
               e \in {"confirmed", "cancelled", "declined"} :
            /\ \/ s = "accepted" /\ e = "confirmed" /\ v \in PendingUids
               \/ s = "cancelled" /\ e = "cancelled"
               \/ s = "rejected" /\ e = "declined"
            /\ pc[p] = "save" /\ op[p].kind # "create"
            /\ db' = [db EXCEPT ![v] = Merged(p, s)]
            /\ effects' = effects \cup {<<v, e, Merged(p, s).req>>}
      <3>1. CASE SaveConfirm(p)
        <4>1. pc[p] = "save" /\ op[p].kind = "confirm"
          BY <3>1 DEF SaveConfirm, SaveStatus
        <4>2. v \in Uids /\ cache[p][v] # None /\ cache[p][v].status = "pending"
          BY <4>1, MergedType DEF OperationInv, OperationOK, TypeInv, ArgumentCached
        <4>3. v \in PendingUids
          BY <4>2 DEF OnlyFixturesPend, Decided
        <4> QED
          BY <3>1, <4>1, <4>3 DEF SaveConfirm, SaveStatus, PlanEffects
      <3>2. CASE SaveCancel(p)
        BY <3>2 DEF SaveCancel, SaveStatus, PlanEffects
      <3>3. CASE SaveDecline(p)
        BY <3>3 DEF SaveDecline, SaveStatus, PlanEffects
      <3> QED
        BY <1>4, <3>1, <3>2, <3>3
    <2>2. v \in Uids /\ Merged(p, s) \in Bookings /\ Merged(p, s).status = s
      <3>1. cache[p][v] \in Bookings
        BY <2>1, MergedType DEF TypeInv, ArgumentCached, StoreTypeOK
      <3> QED
        BY <2>1, <3>1, MergedType DEF Merged, Bookings
    <2> DEFINE b == Merged(p, s)
    <2>3. b.status = s /\ <<v, e, b.req>> \in effects'
      BY <2>1, <2>2
    <2> HIDE DEF b
    <2>4. Decided(v, b)
      BY <2>1, <2>3 DEF Decided
    <2>5. Announced(v, b, effects')
      <3>1. CASE s = "cancelled" /\ e = "cancelled"
        BY <2>3, <3>1 DEF Announced
      <3>2. CASE s = "rejected" /\ e = "declined"
        BY <2>3, <3>2 DEF Announced
      <3>3. CASE s = "accepted" /\ e = "confirmed" /\ v \in PendingUids
        BY <2>3, <3>3, StoreAssumption DEF Announced
      <3> QED
        BY <2>1, <3>1, <3>2, <3>3
    <2>6. db' = [db EXCEPT ![v] = b]
      BY <2>1 DEF b
    <2> QED
      BY <2>1, <2>4, <2>5, <2>6 DEF TypeInv, StoreTypeOK
  <1>5. CASE SaveReschedule(p)
    <2> DEFINE old == Merged(p, "cancelled")
               new == [Merged(p, "accepted") EXCEPT !.start = op[p].start]
    <2>1. /\ db' = [db EXCEPT ![v] = old, ![Rescheduled] = new]
          /\ effects' = effects \cup {<<Rescheduled, "rescheduled", new.req>>}
      BY <1>5 DEF SaveReschedule, PlanEffects
    <2>2. v \in Uids /\ cache[p][v] \in Bookings
      BY <1>5, MergedType DEF SaveReschedule, TypeInv, ArgumentCached, StoreTypeOK
    <2>3. /\ old.status = "cancelled" /\ new.status = "accepted"
          /\ old.req = new.req
      BY <2>2 DEF Merged, Bookings
    <2> HIDE DEF old, new
    <2>4. /\ Decided(Rescheduled, new) /\ Announced(Rescheduled, new, effects')
          /\ Decided(v, old) /\ (v # Rescheduled => Announced(v, old, effects'))
      BY <2>1, <2>3, StoreAssumption DEF Decided, Announced
    <2> QED
      BY <2>1, <2>2, <2>4 DEF TypeInv, StoreTypeOK
  <1> QED
    BY <1>1, <1>2, <1>3, <1>4, <1>5 DEF Continue

\* A process remembers of a booking what it did, a row as it was or as its own
\* step has made it, or nothing.
LEMMA CopyOrigin ==
  ASSUME TypeInv, NEW p \in Procs, Begin(p) \/ Continue(p) \/ Fail(p) \/ Restart(p),
         NEW u \in Uids
  PROVE  cache'[p][u] \in {cache[p][u], db[u], db'[u], None}
  <1> USE DEF TypeInv, StoreTypeOK
  <1>2. CASE Begin(p)
    <2>1. ASSUME NEW o \in CreateRequests, ReplayCreate(p, o)
          PROVE  cache'[p][u] \in {cache[p][u], db[u]}
      BY <2>1 DEF ReplayCreate
    <2>2. ASSUME NEW o \in Requests, Find(p, o)
          PROVE  cache'[p][u] \in {cache[p][u], db[u]}
      BY <2>2 DEF Find, Found
    <2>3. cache' = cache \/ cache'[p][u] \in {cache[p][u], db[u]}
      BY <1>2, <2>1, <2>2 DEF Begin, BeginCreate, FindFixture
    <2> HIDE DEF TypeInv
    <2> QED
      BY <2>3
  <1>3. CASE Fail(p) \/ Restart(p) \/ CheckSlot(p) \/ SaveDuplicate(p)
    BY <1>3 DEF Fail, Restart, CheckSlot, SaveDuplicate
  <1>4. CASE Materialize(p)
    <2>1. PICK v, b : /\ db' = [db EXCEPT ![v] = b]
                      /\ cache' \in {cache, [cache EXCEPT ![p][v] = b]}
      BY <1>4 DEF Materialize
    <2> QED
      BY <2>1
  <1>5. CASE SaveCreated(p) \/ SaveCancel(p) \/ SaveConfirm(p) \/ SaveDecline(p)
    <2>1. PICK v, b : /\ db' = [db EXCEPT ![v] = b]
                      /\ \E acked \in Acks : Remember(p, acked, [cache[p] EXCEPT ![v] = b])
      BY <1>5 DEF SaveCreated, SaveCancel, SaveConfirm, SaveDecline, SaveStatus
    <2> QED
      BY <2>1 DEF Remember
  <1>6. CASE SaveReschedule(p)
    <2>1. PICK v, old, new :
             /\ db' = [db EXCEPT ![v] = old, ![Rescheduled] = new]
             /\ \E acked \in Acks :
                   Remember(p, acked, [cache[p] EXCEPT ![v] = old, ![Rescheduled] = new])
      BY <1>6 DEF SaveReschedule
    <2> QED
      BY <2>1 DEF Remember
  <1> QED
    BY <1>2, <1>3, <1>4, <1>5, <1>6 DEF Continue

LEMMA StepOutboxInv ==
  ASSUME TypeInv, OperationInv, OutboxInv, [Next]_vars
  PROVE  OutboxInv'
  <1>1. CASE UNCHANGED vars
    BY <1>1 DEF vars, OutboxInv, OnlyFixturesPend, StatusIsAnnounced
  <1>2. ASSUME NEW p \in Procs, Begin(p) \/ Continue(p) \/ Fail(p) \/ Restart(p)
        PROVE  OutboxInv'
    <2>1. /\ effects \subseteq effects'
          /\ \A u \in Uids : \/ db'[u] = db[u]
                             \/ Decided(u, db'[u]) /\ Announced(u, db'[u], effects')
      <3>1. ~Continue(p) => UNCHANGED <<db, effects>>
        BY <1>2 DEF Begin, ReplayCreate, BeginCreate, Find, FindFixture, Fail, Restart
      <3> QED
        BY <3>1, CommitAnnounces DEF OutboxInv
    <2>2. \A u \in Uids : Decided(u, db[u]) /\ Decided(u, db'[u])
      BY <2>1 DEF OutboxInv, OnlyFixturesPend
    <2>3. ASSUME NEW q \in Procs, NEW u \in Uids
          PROVE  Decided(u, cache'[q][u])
      <3>1. CASE q = p
        <4>1. Decided(u, None) /\ Decided(u, cache[p][u])
          BY DEF Decided, OutboxInv, OnlyFixturesPend
        <4> QED
          BY <1>2, <2>2, <3>1, <4>1, CopyOrigin
      <3>2. CASE q # p
        BY <1>2, <3>2, OthersKept DEF OutboxInv, OnlyFixturesPend
      <3> QED
        BY <3>1, <3>2
    <2>4. ASSUME NEW u \in Uids, db'[u] # None
          PROVE  Announced(u, db'[u], effects')
      BY <2>1, <2>4, AnnouncedKept DEF OutboxInv, StatusIsAnnounced
    <2> QED
      BY <2>2, <2>3, <2>4 DEF OutboxInv, OnlyFixturesPend, StatusIsAnnounced
  <1> QED
    BY <1>1, <1>2 DEF Next

LEMMA InitOutboxInv == Init => OutboxInv
  BY DEF Init, OutboxInv, OnlyFixturesPend, Decided, StatusIsAnnounced

\* For any number of processes, whatever they remember and whatever restarts and
\* lost acknowledgements: what a row says of its booking has been announced under
\* the request id of the row, though perhaps of an earlier change.
THEOREM RowsAreAnnounced == Spec => []StatusIsAnnounced
  <1>1. OutboxInv => StatusIsAnnounced
    BY DEF OutboxInv
  <1> QED
    BY <1>1, InitOutboxInv, StepOutboxInv, OperationInvariance, PTL DEF Spec

-----------------------------------------------------------------------------
(* How a copy becomes outdated *)

Fresh(p, u) == cache[p][u] # None => cache[p][u] = db[u]

\* Reading a row makes a copy of it or keeps the copy there is.
LEMMA BeginKeepsFresh ==
  ASSUME TypeInv, NEW p \in Procs, Begin(p), NEW u \in Uids, Fresh(p, u)
  PROVE  Fresh(p, u)'
  <1> USE DEF TypeInv, StoreTypeOK
  <1>1. db' = db
    BY DEF Begin, ReplayCreate, BeginCreate, Find, FindFixture
  <1>2. ASSUME NEW o \in CreateRequests, ReplayCreate(p, o) PROVE Fresh(p, u)'
    BY <1>1, <1>2 DEF ReplayCreate, Fresh
  <1>3. ASSUME NEW o \in Requests, Find(p, o) PROVE Fresh(p, u)'
    BY <1>1, <1>3 DEF Find, Found, Fresh
  <1> QED
    BY <1>1, <1>2, <1>3 DEF Begin, BeginCreate, FindFixture, Fresh

\* A process that learns of its commit remembers what it wrote.
LEMMA CommitKeepsFresh ==
  ASSUME TypeInv, ~AcksLost, NEW p \in Procs, Continue(p), NEW u \in Uids, Fresh(p, u)
  PROVE  Fresh(p, u)'
  <1> USE DEF TypeInv, StoreTypeOK
  <1>1. ASSUME NEW copies, \E acked \in Acks : Remember(p, acked, copies)
        PROVE  cache'[p] = copies
    <2>1. Remember(p, TRUE, copies)
      BY <1>1 DEF Acks
    <2> QED
      BY <2>1 DEF Remember
  <1>2. ASSUME NEW v, NEW b, db' = [db EXCEPT ![v] = b], cache'[p] = [cache[p] EXCEPT ![v] = b]
        PROVE  Fresh(p, u)'
    BY <1>2 DEF Fresh
  <1>3. CASE Materialize(p)
    <2>1. \E v, b : db' = [db EXCEPT ![v] = b] /\ cache' = [cache EXCEPT ![p][v] = b]
      BY <1>3 DEF Materialize
    <2>2. \E v, b : db' = [db EXCEPT ![v] = b] /\ cache'[p] = [cache[p] EXCEPT ![v] = b]
      BY <2>1
    <2> QED
      BY <1>2, <2>2
  <1>4. CASE SaveCreated(p)
    <2>1. \E v, b : /\ db' = [db EXCEPT ![v] = b]
                    /\ \E acked \in Acks : Remember(p, acked, [cache[p] EXCEPT ![v] = b])
      BY <1>4 DEF SaveCreated
    <2> QED
      BY <1>1, <1>2, <2>1
  <1>5. CASE SaveCancel(p) \/ SaveConfirm(p) \/ SaveDecline(p)
    <2>1. \E v, b : /\ db' = [db EXCEPT ![v] = b]
                    /\ \E acked \in Acks : Remember(p, acked, [cache[p] EXCEPT ![v] = b])
      BY <1>5 DEF SaveCancel, SaveConfirm, SaveDecline, SaveStatus
    <2> QED
      BY <1>1, <1>2, <2>1
  <1>6. CASE SaveReschedule(p)
    <2>1. PICK v, old, new :
             /\ db' = [db EXCEPT ![v] = old, ![Rescheduled] = new]
             /\ \E acked \in Acks :
                   Remember(p, acked, [cache[p] EXCEPT ![v] = old, ![Rescheduled] = new])
      BY <1>6 DEF SaveReschedule
    <2>2. cache'[p] = [cache[p] EXCEPT ![v] = old, ![Rescheduled] = new]
      BY <1>1, <2>1
    <2> QED
      BY <2>1, <2>2 DEF Fresh
  <1>7. CASE SaveDuplicate(p)
    BY <1>7 DEF SaveDuplicate, Fresh
  <1>8. CASE CheckSlot(p)
    BY <1>8 DEF CheckSlot, Fresh
  <1> QED
    BY <1>3, <1>4, <1>5, <1>6, <1>7, <1>8 DEF Continue

\* What makes a copy outdated, as a fact about one step.
CopiesAge ==
    \A p \in Procs, u \in Uids :
        Fresh(p, u) /\ ~Fresh(p, u)' =>
            \/ AcksLost
            \/ db'[u] # db[u] /\ \E q \in Procs \ {p} : Continue(q)

LEMMA StepAges == ASSUME TypeInv, Next PROVE CopiesAge
  <1> SUFFICES ASSUME NEW p \in Procs, NEW u \in Uids,
                      Fresh(p, u), ~Fresh(p, u)', ~AcksLost
               PROVE  db'[u] # db[u] /\ \E q \in Procs \ {p} : Continue(q)
    BY DEF CopiesAge
  <1>1. PICK q \in Procs : Begin(q) \/ Continue(q) \/ Fail(q) \/ Restart(q)
    BY DEF Next
  <1>2. CASE q = p
    <2>1. ~Begin(p) /\ ~Continue(p)
      BY BeginKeepsFresh, CommitKeepsFresh
    <2>2. ~Fail(p)
      BY DEF Fail, Fresh
    <2>3. ~Restart(p)
      BY DEF Restart, Fresh, TypeInv, StoreTypeOK
    <2> QED
      BY <1>1, <1>2, <2>1, <2>2, <2>3
  <1>3. CASE q # p
    <2>1. cache'[p] = cache[p]
      BY <1>1, <1>3, OthersKept
    <2>2. db'[u] # db[u]
      BY <2>1 DEF Fresh
    <2>3. Continue(q)
      BY <1>1, <2>2 DEF Begin, ReplayCreate, BeginCreate, Find, FindFixture, Fail, Restart
    <2> QED
      BY <1>3, <2>2, <2>3
  <1> QED
    BY <1>2, <1>3

\* For any number of processes: what a process remembers of a booking becomes
\* outdated only when another process commits a change of it, or an
\* acknowledgement is lost; in particular not by failures or restarts.
THEOREM CopiesAgeByOthers == Spec => [][CopiesAge]_vars
  <1>1. TypeInv /\ [Next]_vars => [CopiesAge]_vars
    BY StepAges
  <1>2. Spec => []TypeInv
    BY InitTypeInv, NextTypeInv, PTL DEF Spec
  <1> QED
    BY <1>1, <1>2, PTL DEF Spec

-----------------------------------------------------------------------------
(* The service that the steps implement: all but commits are stutters *)

Quiet == UNCHANGED <<db, dbKeys, effects>>

LEMMA QuietRefines ==
  ASSUME Quiet
  PROVE  [Service!Next]_Service!vars
  BY DEF Quiet, Service!vars

LEMMA SameUids == Uids = Service!Uids
  BY DEF Uids, Service!Uids

\* A slot that is available to a process is free to the service.
LEMMA AvailableIsFree ==
  ASSUME NEW start, Available(start)
  PROVE  Service!Free(start) /\ start \in Offered
  BY SameUids DEF Available, Busy, Service!Free

LEMMA MaterializeRefines ==
  ASSUME TypeInv, OperationInv, NEW p \in Procs, Materialize(p), Current(p)
  PROVE  Service!Next
  <1>1. op[p].uid \in Uids /\ op[p].req \in ReqIDs
    BY DEF TypeInv, StoreTypeOK, Ops
  <1>2. db[op[p].uid] = None /\ op[p].uid # Rescheduled
    BY DEF Current, OperationInv, OperationOK, Materialize
  <1>3. Service!FindFixture(op[p].uid, op[p].req)
    BY <1>2 DEF Materialize, Fixture, Service!FindFixture, Service!Accepted
  <1> QED
    BY <1>1, <1>3, SameUids DEF Service!Next

LEMMA SaveCreatedRefines ==
  ASSUME TypeInv, NEW p \in Procs, SaveCreated(p), Current(p)
  PROVE  Service!Next
  <1>1. op[p].key \in Keys \cup {NoKey} /\ op[p].req \in ReqIDs
    BY DEF TypeInv, StoreTypeOK, Ops
  <1>2. Service!Free(op[p].start) /\ op[p].start \in Offered
    BY AvailableIsFree DEF Current, SaveCreated
  <1>3. Service!Create(op[p].key, op[p].start, op[p].req)
    BY <1>2 DEF SaveCreated, KeyTaken, KeyRow, Service!Create, Service!Accepted
  <1> QED
    BY <1>1, <1>2, <1>3 DEF Service!Next

\* The copy that a status is merged into is the row.
LEMMA SaveStatusRefines ==
  ASSUME TypeInv, OperationInv, NEW p \in Procs, Current(p),
         NEW kind \in {"cancel", "confirm", "decline"},
         NEW status, NEW effect, SaveStatus(p, kind, status, effect)
  PROVE  /\ op[p].uid \in Uids
         /\ Service!Change(op[p].uid, status, effect)
         /\ kind \in {"confirm", "decline"} => Service!Decide(op[p].uid, status, effect)
  <1> DEFINE u == op[p].uid
  <1>1. u \in Uids /\ pc[p] = "save" /\ op[p].kind = kind
    BY MergedType DEF SaveStatus
  <1>2. cache[p][u] = db[u] /\ db[u] # None
    BY <1>1 DEF Current, TypeInv, ArgumentCached
  <1>3. db[u] \in Bookings
    BY <1>1, <1>2 DEF TypeInv, StoreTypeOK
  <1>4. Merged(p, status) = [db[u] EXCEPT !.status = status]
    BY <1>2 DEF Merged
  <1>5. Merged(p, status).req = db[u].req
    BY <1>3, <1>4 DEF Bookings
  <1>6. db' = [db EXCEPT ![u].status = status]
    BY <1>4 DEF SaveStatus
  <1>7. effects' = effects \cup {<<u, effect, db[u].req>>} /\ UNCHANGED dbKeys
    BY <1>5 DEF SaveStatus, PlanEffects
  <1>8. Service!Change(u, status, effect)
    BY <1>2, <1>6, <1>7 DEF Service!Change
  <1>9. kind \in {"confirm", "decline"} => db[u].status = "pending"
    BY <1>1, <1>2 DEF OperationInv, OperationOK
  <1> QED
    BY <1>1, <1>2, <1>8, <1>9 DEF Service!Decide

LEMMA SaveRescheduleRefines ==
  ASSUME TypeInv, NEW p \in Procs, SaveReschedule(p), Current(p)
  PROVE  Service!Next
  <1> DEFINE u == op[p].uid
             new == [Merged(p, "accepted") EXCEPT !.start = op[p].start]
  <1>1. u \in Uids
    BY MergedType DEF SaveReschedule
  <1>2. cache[p][u] = db[u] /\ db[u] # None
    BY <1>1 DEF Current, TypeInv, ArgumentCached, SaveReschedule
  <1>3. db[u] \in Bookings
    BY <1>1, <1>2 DEF TypeInv, StoreTypeOK
  <1>4. Service!Free(op[p].start) /\ op[p].start \in Offered
    BY AvailableIsFree DEF Current, SaveReschedule
  <1>5. new = Service!Accepted(op[p].start, db[u].req)
    <2>1. db[u] = [status |-> db[u].status, start |-> db[u].start, req |-> db[u].req]
      BY <1>3 DEF Bookings
    <2>2. new = [[db[u] EXCEPT !.status = "accepted"] EXCEPT !.start = op[p].start]
      BY <1>2 DEF Merged
    <2> HIDE DEF new, u
    <2> QED
      BY <2>1, <2>2 DEF Service!Accepted
  <1>6. new.req = db[u].req
    BY <1>5 DEF Service!Accepted
  <1>7. Merged(p, "cancelled") = [db[u] EXCEPT !.status = "cancelled"]
    BY <1>2 DEF Merged
  <1>8. /\ db' = [db EXCEPT ![u] = Merged(p, "cancelled"), ![Rescheduled] = new]
        /\ effects' = effects \cup {<<Rescheduled, "rescheduled", new.req>>}
        /\ UNCHANGED dbKeys
    BY DEF SaveReschedule, PlanEffects
  <1> HIDE DEF new
  <1>9. Service!Reschedule(u, op[p].start)
    BY <1>2, <1>4, <1>5, <1>6, <1>7, <1>8 DEF Service!Reschedule
  <1> QED
    BY <1>1, <1>4, <1>9, SameUids DEF Service!Next

LEMMA CommitRefines ==
  ASSUME TypeInv, OperationInv, NEW p \in Procs, Continue(p), Current(p)
  PROVE  [Service!Next]_Service!vars
  <1>1. CASE SaveCancel(p)
    BY <1>1, SaveStatusRefines, SameUids DEF SaveCancel, Service!Cancel, Service!Next
  <1>2. CASE SaveConfirm(p)
    BY <1>2, SaveStatusRefines, SameUids DEF SaveConfirm, Service!Confirm, Service!Next
  <1>3. CASE SaveDecline(p)
    BY <1>3, SaveStatusRefines, SameUids DEF SaveDecline, Service!Decline, Service!Next
  <1>4. CASE CheckSlot(p) \/ SaveDuplicate(p)
    BY <1>4, QuietRefines DEF CheckSlot, SaveDuplicate, Quiet
  <1> QED
    BY <1>1, <1>2, <1>3, <1>4, MaterializeRefines, SaveCreatedRefines, SaveRescheduleRefines
    DEF Continue

LEMMA OthersRefine ==
  ASSUME NEW p \in Procs, Begin(p) \/ Fail(p) \/ Restart(p)
  PROVE  [Service!Next]_Service!vars
  BY QuietRefines DEF Begin, ReplayCreate, BeginCreate, Find, FindFixture, Fail, Restart, Quiet

LEMMA StepRefines ==
  ASSUME TypeInv, OperationInv, [Next]_vars
  PROVE  [Service!Next]_Service!vars \/ \E p \in Procs : Continue(p) /\ ~Current(p)
  <1>1. CASE UNCHANGED vars
    BY <1>1, QuietRefines DEF vars, Quiet
  <1> QED
    BY <1>1, CommitRefines, OthersRefine DEF Next

\* For any number of processes, with restarts and lost acknowledgements: every
\* departure from the service is the commit of an operation that was overtaken.
THEOREM DeparturesAreOvertaken == Spec => OnlyTheOvertakenDepart
  <1> DEFINE Explained == [Service!Next]_(Service!vars)
                            \/ \E p \in Procs : Continue(p) /\ ~Current(p)
  <1>1. TypeInv /\ OperationInv /\ [Next]_vars => [Explained]_vars
    BY StepRefines
  <1> HIDE DEF Explained
  <1>2. Spec => [][Explained]_vars
    BY <1>1, OperationInvariance, PTL DEF Spec
  <1> QED
    BY <1>2 DEF OnlyTheOvertakenDepart, Explained

\* No operation goes on when something has outdated what it goes by.
NeverOvertaken == [][\A p \in Procs : Continue(p) => Current(p)]_vars

\* Steps that are not overtaken are steps of the service.
LEMMA ConditionalCommitsImplementService ==
  Spec /\ NeverOvertaken => ImplementsBookingService
  <1> DEFINE Going == \A p \in Procs : Continue(p) => Current(p)
  <1>1. Init => Service!Init
    BY SameUids DEF Init, Service!Init
  <1>2. TypeInv /\ OperationInv /\ [Next]_vars /\ [Going]_vars => [Service!Next]_Service!vars
    <2>1. CASE UNCHANGED vars
      BY <2>1, QuietRefines DEF vars, Quiet
    <2> QED
      BY <2>1, StepRefines
  <1> HIDE DEF Going
  <1>3. Spec /\ [][Going]_vars => Service!Init /\ [][Service!Next]_Service!vars
    BY <1>1, <1>2, OperationInvariance, PTL DEF Spec
  <1>4. Spec /\ NeverOvertaken => Spec /\ [][Going]_vars
    BY DEF NeverOvertaken, Going
  <1> QED
    BY <1>3, <1>4 DEF ImplementsBookingService, Service!Spec
=============================================================================
