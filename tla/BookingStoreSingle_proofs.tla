---------------------- MODULE BookingStoreSingle_proofs ----------------------
(***************************************************************************)
(* When the booking store keeps its promises.  Decisions of a host are     *)
(* proved of the service, so whatever implements it keeps them: any number *)
(* of processes none of whose operations is overtaken, and in particular   *)
(* a lone process whose commits are all acknowledged.  Of a lone process   *)
(* that may lose acknowledgements it is still true that no slot is taken   *)
(* twice.  None of this holds of two processes as the code has them: see   *)
(* the runs host_decision and slot_race.                                   *)
(***************************************************************************)
EXTENDS BookingStore_proofs

OneProcess == \E p \in Procs : Procs = {p}

SingleProcess == OneProcess /\ ~AcksLost

\* What the running operation has found in the tables is still so: the row it
\* materializes is missing, the slot it is about to take is free.
StepInv ==
    \A p \in Procs :
        /\ pc[p] = "materialize" => db[op[p].uid] = None
        /\ pc[p] = "save" /\ op[p].kind \in {"create", "reschedule"} =>
             Available(op[p].start)

-----------------------------------------------------------------------------
(* One process, acknowledgements may be lost *)

KnownInv == TypeInv /\ OperationInv /\ StepInv

LEMMA InitKnownInv == Init => KnownInv
  BY InitTypeInv, InitOperationInv DEF Init, KnownInv, StepInv

LEMMA StepStepInv ==
  ASSUME KnownInv, OneProcess, [Next]_vars
  PROVE  StepInv'
  <1>1. StoreTypeOK
    BY DEF KnownInv, TypeInv
  <1>2. ASSUME NEW p \in Procs, pc'[p] \notin {"save", "materialize"} PROVE StepInv'
    BY <1>2 DEF StepInv, OneProcess
  <1>3. ASSUME NEW p \in Procs, CheckSlot(p) PROVE StepInv'
    <2>1. CASE Return(p)
      BY <1>1, <1>2, <2>1, ReturnType DEF StoreTypeOK
    <2>2. CASE Available(op[p].start) /\ Run(p, op[p], "save")
      <3>1. op'[p] = op[p] /\ pc'[p] = "save"
        BY <1>1, <2>2, RunType DEF StoreTypeOK, Steps
      <3>2. Available(op[p].start) /\ db' = db
        BY <1>3, <2>2 DEF CheckSlot
      <3>3. \A q \in Procs : q = p
        BY DEF OneProcess
      <3>4. ASSUME NEW q \in Procs PROVE Available(op[q].start)'
        BY <3>1, <3>2, <3>3, <3>4 DEF Available, Busy
      <3> QED
        BY <3>1, <3>3, <3>4 DEF StepInv
    <2> QED
      BY <1>3, <2>1, <2>2 DEF CheckSlot
  <1>4. ASSUME NEW p \in Procs, NEW o \in CreateRequests,
               ReplayCreate(p, o) \/ BeginCreate(p, o)
        PROVE  StepInv'
    <2>1. CASE ReplayCreate(p, o)
      BY <1>2, <2>1 DEF ReplayCreate
    <2>2. CASE BeginCreate(p, o)
      <3>1. pc'[p] = "check"
        BY <1>1, <2>2, RunType, RequestsType DEF BeginCreate, StoreTypeOK, Steps
      <3> QED
        BY <1>2, <3>1
    <2> QED
      BY <1>4, <2>1, <2>2
  <1>5. ASSUME NEW p \in Procs, NEW o \in Ops, NEW b \in Bookings,
               Run(p, o, AfterFind(o.kind, b)), o.kind # "create"
        PROVE  StepInv'
    <2>1. o.kind \in OpKinds
      BY DEF Ops
    <2>2. AfterFind(o.kind, b) \in Steps
      BY <2>1, AfterFindType
    <2>3. pc'[p] = AfterFind(o.kind, b) /\ (pc'[p] # "idle" => op'[p] = o)
      BY <1>1, <1>5, <2>2, RunType DEF StoreTypeOK
    <2>4. /\ o.kind = "reschedule" => AfterFind(o.kind, b) = "check"
          /\ AfterFind(o.kind, b) # "materialize"
      BY DEF AfterFind
    <2>5. pc'[p] = "save" => op'[p].kind \notin {"create", "reschedule"}
      BY <1>5, <2>3, <2>4
    <2> QED
      BY <2>3, <2>4, <2>5 DEF StepInv, OneProcess
  <1>6. ASSUME NEW p \in Procs, NEW o \in Requests, Find(p, o) PROVE StepInv'
    <2>1. o \in Ops /\ o.uid \in Uids /\ o.kind # "create"
      BY RequestsType DEF Ops, Requests
    <2>2. Found(p, o.uid) \in Bookings
      BY <1>1, <1>6, <2>1 DEF Find, Found, StoreTypeOK
    <2> QED
      BY <1>5, <1>6, <2>1, <2>2 DEF Find
  <1>7. ASSUME NEW p \in Procs, NEW o \in Requests, FindFixture(p, o) PROVE StepInv'
    <2>1. o \in Ops
      BY RequestsType
    <2>2. pc'[p] = "materialize" /\ op'[p] = o /\ db'[o.uid] = None
      BY <1>1, <1>7, <2>1, RunType DEF FindFixture, Found, StoreTypeOK, Steps
    <2> QED
      BY <2>2 DEF StepInv, OneProcess
  <1>8. ASSUME NEW p \in Procs, Return(p) PROVE StepInv'
    BY <1>1, <1>2, <1>8, ReturnType DEF StoreTypeOK
  <1>9. ASSUME NEW p \in Procs, Materialize(p) PROVE StepInv'
    <2> DEFINE b == Fixture(op[p].uid, op[p].req)
    <2>1. op[p] \in Ops /\ op[p].kind # "create"
      BY <1>1, <1>9 DEF StoreTypeOK, KnownInv, OperationInv, OperationOK, Materialize
    <2>2. b \in Bookings
      BY <2>1, FixtureType DEF Ops
    <2>3. CASE Run(p, op[p], AfterFind(op[p].kind, b))
      <3> HIDE DEF b
      <3> QED
        BY <1>5, <2>1, <2>2, <2>3
    <2>4. CASE Return(p)
      BY <1>8, <2>4
    <2> QED
      BY <1>9, <2>3, <2>4 DEF Materialize
  <1>10. CASE UNCHANGED vars
    <2>1. ASSUME NEW q \in Procs PROVE Available(op[q].start) => Available(op[q].start)'
      BY <1>10 DEF Available, Busy, vars
    <2> QED
      BY <1>10, <2>1 DEF KnownInv, StepInv, vars
  <1> QED
    BY <1>3, <1>4, <1>6, <1>7, <1>8, <1>9, <1>10
    DEF Next, Begin, Continue, SaveDuplicate, SaveCreated, SaveCancel, SaveConfirm,
        SaveDecline, SaveStatus, SaveReschedule, Fail, Restart

\* One process, whatever acknowledgements are lost: a row found missing is
\* missing and a slot found free is free until the commit.
LEMMA KnownInvariance == ASSUME OneProcess PROVE Spec => []KnownInv
  <1>1. KnownInv /\ [Next]_vars => KnownInv'
    BY NextTypeInv, StepOperationInv, StepStepInv DEF KnownInv
  <1> QED
    BY <1>1, InitKnownInv, PTL DEF Spec

LEMMA PendingUidsType ==
  /\ PendingUids \subseteq Uids
  /\ Primary \in Uids \ PendingUids
  /\ Rescheduled \in Uids \ PendingUids
  BY StoreAssumption DEF Uids

-----------------------------------------------------------------------------
(* The slot a create or a reschedule takes *)

\* A row that is written to a free slot shares it with no other accepted row.
LEMMA FreeSlot ==
  ASSUME NEW r \in Uids, NEW s, ~Busy(s), db'[r].start = s,
         \A v \in Uids : v # r =>
            \/ db'[v] = db[v]
            \/ db'[v].status # "accepted",
         NEW u \in Uids, NEW v \in Uids, u # v,
         db'[u] # None, db'[v] # None,
         db'[u].status = "accepted", db'[v].status = "accepted", db'[u] # db[u]
  PROVE  db'[u].start # db'[v].start
  <1>1. u = r /\ v # r /\ db'[v] = db[v]
    OBVIOUS
  <1>2. db[v].start # s
    BY <1>1 DEF Busy
  <1> QED
    BY <1>1, <1>2

NotTaken ==
    \A u, v \in Uids :
       /\ u # v
       /\ db'[u] # None /\ db'[v] # None
       /\ db'[u].status = "accepted" /\ db'[v].status = "accepted"
       /\ db'[u] # db[u]
       => db'[u].start # db'[v].start

LEMMA CreatedOnFreeSlot ==
  ASSUME TypeInv, NEW p \in Procs, SaveCreated(p), Available(op[p].start)
  PROVE  NotTaken
  <1>1. ~Busy(op[p].start)
    BY DEF Available
  <1>2. /\ db'[Primary].start = op[p].start
        /\ \A v \in Uids : v # Primary => db'[v] = db[v]
    BY PendingUidsType DEF SaveCreated, TypeInv, StoreTypeOK
  <1> QED
    BY <1>1, <1>2, FreeSlot, PendingUidsType DEF NotTaken

LEMMA MovedToFreeSlot ==
  ASSUME TypeInv, NEW p \in Procs, SaveReschedule(p), Available(op[p].start)
  PROVE  NotTaken
  <1> DEFINE w == op[p].uid
             old == Merged(p, "cancelled")
             new == [Merged(p, "accepted") EXCEPT !.start = op[p].start]
  <1>1. ~Busy(op[p].start)
    BY DEF Available
  <1>2. w \in Uids /\ cache[p][w] \in Bookings
    BY MergedType DEF SaveReschedule, TypeInv, StoreTypeOK, ArgumentCached
  <1>3. Merged(p, "accepted") \in Bookings /\ old.status = "cancelled"
    BY <1>2 DEF Merged, Bookings
  <1>4. new.start = op[p].start
    BY <1>3 DEF Bookings
  <1>5. db' = [db EXCEPT ![w] = old, ![Rescheduled] = new]
    BY DEF SaveReschedule
  <1>6. /\ db'[Rescheduled] = new
        /\ \A v \in Uids : v # Rescheduled => db'[v] = db[v] \/ db'[v] = old
    <2> HIDE DEF old, new
    <2> QED
      BY <1>2, <1>5, PendingUidsType DEF TypeInv, StoreTypeOK
  <1> HIDE DEF old, new
  <1>7. /\ db'[Rescheduled].start = op[p].start
        /\ \A v \in Uids : v # Rescheduled => db'[v] = db[v] \/ db'[v].status # "accepted"
    BY <1>3, <1>4, <1>6
  <1> QED
    BY <1>1, <1>7, FreeSlot, PendingUidsType DEF NotTaken

SlotsHold == \A p \in Procs : (SaveCreated(p) \/ SaveReschedule(p)) => NotTaken

LEMMA SlotsHoldIsProperty == SlotIsFreeWhenTaken <=> [][SlotsHold]_vars
  BY DEF SlotIsFreeWhenTaken, SlotsHold, NotTaken

\* One process, whatever acknowledgements are lost: Create and Reschedule never
\* double-book a slot, for the busy times are read from the database.
THEOREM OneProcessSlotIsFree ==
  ASSUME OneProcess
  PROVE  Spec => SlotIsFreeWhenTaken
  <1>1. ASSUME KnownInv, NEW p \in Procs, SaveCreated(p) \/ SaveReschedule(p)
        PROVE  TypeInv /\ Available(op[p].start)
    BY <1>1 DEF KnownInv, StepInv, SaveCreated, SaveReschedule
  <1>2. KnownInv /\ [Next]_vars => [SlotsHold]_vars
    BY <1>1, CreatedOnFreeSlot, MovedToFreeSlot DEF SlotsHold
  <1> QED
    BY <1>2, KnownInvariance, SlotsHoldIsProperty, PTL DEF Spec

-----------------------------------------------------------------------------
(* What the service does with the decisions of a host *)

\* The decisions on booking u that were announced.
Told(u) == {d \in {"confirmed", "declined"} : \E r \in ReqIDs : <<u, d, r>> \in effects}

\* A booking that waits for its host was announced no decision, and any other
\* at most one.
HostInv ==
    \A u \in PendingUids :
        /\ db[u] = None \/ db[u].status = "pending" => Told(u) = {}
        /\ "confirmed" \notin Told(u) \/ "declined" \notin Told(u)

\* What one step of the service may do to a booking with a host.
HostStep(u) ==
    \/ db'[u] = db[u] /\ Told(u)' = Told(u)
    \/ db[u] = None /\ db'[u].status = "pending" /\ Told(u)' = Told(u)
    \/ /\ db[u] # None /\ db'[u] # None
       /\ db'[u].status = "cancelled" /\ Told(u)' = Told(u)
    \/ /\ db[u] # None /\ db[u].status = "pending" /\ db'[u] # None
       /\ \/ db'[u].status = "accepted" /\ Told(u)' = {"confirmed"} \cup Told(u)
          \/ db'[u].status = "rejected" /\ Told(u)' = {"declined"} \cup Told(u)

LEMMA ChangeOfHost ==
  ASSUME TypeInv, NEW w \in Uids, NEW status \in {"accepted", "rejected", "cancelled"},
         NEW effect, Service!Change(w, status, effect), NEW u \in PendingUids
  PROVE  \/ u # w /\ db'[u] = db[u] /\ Told(u)' = Told(u)
         \/ /\ u = w /\ db'[u] # None /\ db'[u].status = status
            /\ Told(u)' = ({effect} \cap {"confirmed", "declined"}) \cup Told(u)
  <1> USE DEF TypeInv, StoreTypeOK
  <1>1. /\ db[w] # None
        /\ db' = [db EXCEPT ![w].status = status]
        /\ effects' = effects \cup {<<w, effect, db[w].req>>}
    BY DEF Service!Change
  <1>2. db[w] \in Bookings
    BY <1>1
  <1>3. db[w].req \in ReqIDs
    BY <1>2 DEF Bookings
  <1>4. db'[w] = [db[w] EXCEPT !.status = status]
    BY <1>1
  <1>5. db'[w] \in Bookings /\ db'[w].status = status
    BY <1>2, <1>4 DEF Bookings
  <1>6. u # w => db'[u] = db[u] /\ Told(u)' = Told(u)
    BY <1>1, PendingUidsType DEF Told
  <1>7. Told(w)' = ({effect} \cap {"confirmed", "declined"}) \cup Told(w)
    BY <1>1, <1>3 DEF Told
  <1> QED
    BY <1>5, <1>6, <1>7, NoneIsNoBooking

LEMMA RescheduleOfHost ==
  ASSUME TypeInv, NEW w \in Uids, NEW start, Service!Reschedule(w, start),
         NEW u \in PendingUids
  PROVE  HostStep(u)
  <1> DEFINE new == Service!Accepted(start, db[w].req)
  <1> USE DEF TypeInv, StoreTypeOK
  <1>1. /\ db[w] # None
        /\ db' = [db EXCEPT ![w].status = "cancelled", ![Rescheduled] = new]
        /\ effects' = effects \cup {<<Rescheduled, "rescheduled", db[w].req>>}
    BY DEF Service!Reschedule
  <1>2. u \in Uids /\ u # Rescheduled
    BY PendingUidsType
  <1>3. Told(u)' = Told(u)
    BY <1>1 DEF Told
  <1> HIDE DEF new
  <1>4. CASE u = w
    <2>1. db'[u] = [db[u] EXCEPT !.status = "cancelled"] /\ db[u] \in Bookings
      BY <1>1, <1>2, <1>4
    <2>2. db'[u] \in Bookings /\ db'[u].status = "cancelled"
      BY <2>1 DEF Bookings
    <2> QED
      BY <1>1, <1>3, <1>4, <2>2, NoneIsNoBooking DEF HostStep
  <1>5. CASE u # w
    <2>1. db'[u] = db[u]
      BY <1>1, <1>2, <1>5
    <2> QED
      BY <1>3, <2>1 DEF HostStep
  <1> QED
    BY <1>4, <1>5

LEMMA FixtureOfHost ==
  ASSUME TypeInv, NEW w \in Uids, NEW req \in ReqIDs, Service!FindFixture(w, req),
         NEW u \in PendingUids
  PROVE  HostStep(u)
  <1> DEFINE b == IF w = Primary THEN Service!Accepted(PrimaryStart, req)
                  ELSE [status |-> "pending", start |-> PendingStart, req |-> req]
  <1>1. db[w] = None /\ db' = [db EXCEPT ![w] = b] /\ Told(u)' = Told(u)
    BY DEF Service!FindFixture, Told
  <1>2. u \in Uids /\ u # Primary
    BY PendingUidsType
  <1>3. w # Primary => b.status = "pending"
    OBVIOUS
  <1> HIDE DEF b
  <1>4. db'[u] = IF u = w THEN b ELSE db[u]
    BY <1>1, <1>2 DEF TypeInv, StoreTypeOK
  <1> QED
    BY <1>1, <1>2, <1>3, <1>4 DEF HostStep

LEMMA ServiceHostStep ==
  ASSUME TypeInv, [Service!Next]_Service!vars, NEW u \in PendingUids
  PROVE  HostStep(u)
  <1>1. CASE UNCHANGED Service!vars
    BY <1>1 DEF Service!vars, HostStep, Told
  <1>2. ASSUME NEW k, NEW start, NEW req, Service!Create(k, start, req)
        PROVE  HostStep(u)
    <2>1. \E b : db' = [db EXCEPT ![Primary] = b]
      BY <1>2 DEF Service!Create
    <2>2. effects' = effects
      BY <1>2 DEF Service!Create
    <2> QED
      BY <2>1, <2>2, PendingUidsType DEF HostStep, Told, TypeInv, StoreTypeOK
  <1>3. ASSUME NEW w \in Uids, Service!Cancel(w) PROVE HostStep(u)
    <2>1. Service!Change(w, "cancelled", "cancelled") /\ db[w] # None
      BY <1>3 DEF Service!Cancel, Service!Change
    <2> QED
      BY <2>1, ChangeOfHost DEF HostStep
  <1>4. ASSUME NEW w \in Uids, Service!Confirm(w) PROVE HostStep(u)
    <2>1. /\ Service!Change(w, "accepted", "confirmed")
          /\ db[w] # None /\ db[w].status = "pending"
      BY <1>4 DEF Service!Confirm, Service!Decide
    <2>2. \/ u # w /\ db'[u] = db[u] /\ Told(u)' = Told(u)
          \/ /\ u = w /\ db'[u] # None /\ db'[u].status = "accepted"
             /\ Told(u)' = ({"confirmed"} \cap {"confirmed", "declined"}) \cup Told(u)
      BY <2>1, ChangeOfHost
    <2>3. {"confirmed"} \cap {"confirmed", "declined"} = {"confirmed"}
      OBVIOUS
    <2> QED
      BY <2>1, <2>2, <2>3 DEF HostStep
  <1>5. ASSUME NEW w \in Uids, Service!Decline(w) PROVE HostStep(u)
    <2>1. /\ Service!Change(w, "rejected", "declined")
          /\ db[w] # None /\ db[w].status = "pending"
      BY <1>5 DEF Service!Decline, Service!Decide
    <2>2. \/ u # w /\ db'[u] = db[u] /\ Told(u)' = Told(u)
          \/ /\ u = w /\ db'[u] # None /\ db'[u].status = "rejected"
             /\ Told(u)' = ({"declined"} \cap {"confirmed", "declined"}) \cup Told(u)
      BY <2>1, ChangeOfHost
    <2>3. {"declined"} \cap {"confirmed", "declined"} = {"declined"}
      OBVIOUS
    <2> QED
      BY <2>1, <2>2, <2>3 DEF HostStep
  <1> QED
    BY <1>1, <1>2, <1>3, <1>4, <1>5, RescheduleOfHost, FixtureOfHost, SameUids
    DEF Service!Next

LEMMA StepHostInv ==
  ASSUME HostInv, \A u \in PendingUids : HostStep(u), TypeInv'
  PROVE  HostInv'
  <1> SUFFICES ASSUME NEW u \in PendingUids
               PROVE  /\ db'[u] = None \/ db'[u].status = "pending" => Told(u)' = {}
                      /\ "confirmed" \notin Told(u)' \/ "declined" \notin Told(u)'
    BY DEF HostInv
  <1>1. HostStep(u)
    OBVIOUS
  <1> QED
    BY <1>1 DEF HostInv, HostStep

LEMMA InitHostInv == Init => HostInv
  BY DEF Init, HostInv, Told

LEMMA HostInvDecides == HostInv => OneHostDecision
  BY DEF HostInv, OneHostDecision, Told

HostChanges == {<<"pending", "accepted">>, <<"pending", "rejected">>,
              <<"pending", "cancelled">>, <<"accepted", "cancelled">>,
              <<"rejected", "cancelled">>}

HostChangesStep ==
    \A u \in PendingUids : db[u] # None =>
        /\ db'[u].status # db[u].status => <<db[u].status, db'[u].status>> \in HostChanges

LEMMA HostStepChanges ==
  ASSUME TypeInv, \A u \in PendingUids : HostStep(u)
  PROVE  HostChangesStep
  <1> SUFFICES ASSUME NEW u \in PendingUids, db[u] # None, db'[u].status # db[u].status
               PROVE  <<db[u].status, db'[u].status>> \in HostChanges
    BY DEF HostChangesStep
  <1>1. db[u] \in Bookings
    BY PendingUidsType DEF TypeInv, StoreTypeOK
  <1>2. db[u].status \in {"accepted", "pending", "cancelled", "rejected"}
    BY <1>1 DEF Bookings
  <1>3. HostStep(u)
    OBVIOUS
  <1> QED
    BY <1>2, <1>3 DEF HostStep, HostChanges

LEMMA HostChangesIsProperty == HostDecisionIsFinal <=> [][HostChangesStep]_vars
  BY DEF HostDecisionIsFinal, HostChangesStep, HostChanges

\* Whatever implements the service, with however many processes, tells the
\* attendee at most one decision and never decides a booking again.
THEOREM ServiceDecidesOnce ==
  Spec /\ ImplementsBookingService => []OneHostDecision /\ HostDecisionIsFinal
  <1> DEFINE Hosts == \A u \in PendingUids : HostStep(u)
  <1>1. TypeInv /\ [Service!Next]_Service!vars => Hosts
    BY ServiceHostStep
  <1>2. HostInv /\ Hosts /\ TypeInv' => HostInv'
    BY StepHostInv
  <1>3. TypeInv /\ Hosts => HostChangesStep
    BY HostStepChanges
  <1> HIDE DEF Hosts
  <1>4. Spec => []TypeInv /\ HostInv
    BY OperationInvariance, InitHostInv, PTL DEF Spec
  <1>5. Spec /\ [][Service!Next]_Service!vars => []HostInv /\ [][HostChangesStep]_vars
    BY <1>1, <1>2, <1>3, <1>4, PTL
  <1> QED
    BY <1>5, HostInvDecides, HostChangesIsProperty, PTL
    DEF ImplementsBookingService, Service!Spec

\* Any number of processes: the attendee is told two decisions only after an
\* operation was overtaken between its reads and its commit.
THEOREM NoOvertakingOneDecision == Spec /\ NeverOvertaken => []OneHostDecision
  BY ConditionalCommitsImplementService, ServiceDecidesOnce, PTL

\* Any number of processes: only an operation that was overtaken decides a
\* booking again.
THEOREM NoOvertakingDecisionIsFinal == Spec /\ NeverOvertaken => HostDecisionIsFinal
  BY ConditionalCommitsImplementService, ServiceDecidesOnce, PTL

-----------------------------------------------------------------------------
(* One process whose commits are all acknowledged *)

SingleInv == KnownInv /\ CacheIsCurrent

LEMMA InitSingleInv == Init => SingleInv
  BY InitKnownInv DEF SingleInv, Init, CacheIsCurrent

\* Nobody else is there to outdate a copy.
LEMMA StepCacheIsCurrent ==
  ASSUME SingleProcess, TypeInv, CacheIsCurrent, [Next]_vars
  PROVE  CacheIsCurrent'
  <1>1. CASE UNCHANGED vars
    BY <1>1 DEF vars, CacheIsCurrent
  <1>2. CASE Next
    <2>1. CopiesAge
      BY <1>2, StepAges
    <2>2. ASSUME NEW p \in Procs, NEW u \in Uids PROVE Fresh(p, u)'
      <3>1. Fresh(p, u)
        BY DEF CacheIsCurrent, Fresh
      <3>2. Procs \ {p} = {} /\ ~AcksLost
        BY DEF SingleProcess, OneProcess
      <3> QED
        BY <2>1, <3>1, <3>2 DEF CopiesAge
    <2> QED
      BY <2>2 DEF Fresh, CacheIsCurrent
  <1> QED
    BY <1>1, <1>2

LEMMA NextSingleInv ==
  ASSUME SingleProcess, SingleInv, [Next]_vars
  PROVE  SingleInv'
  <1>1. TypeInv /\ OneProcess /\ CacheIsCurrent
    BY DEF SingleInv, KnownInv, SingleProcess
  <1>2. KnownInv'
    BY <1>1, NextTypeInv, StepOperationInv, StepStepInv DEF SingleInv, KnownInv
  <1>3. CacheIsCurrent'
    BY <1>1, StepCacheIsCurrent
  <1> QED
    BY <1>2, <1>3 DEF SingleInv

LEMMA SingleInvariance == ASSUME SingleProcess PROVE Spec => []SingleInv
  <1>1. SingleInv /\ [Next]_vars => SingleInv'
    BY NextSingleInv
  <1> QED
    BY <1>1, InitSingleInv, PTL DEF Spec

\* One process: every answer and every write is computed from the current row.
THEOREM SingleProcessCacheIsCurrent ==
  ASSUME SingleProcess
  PROVE  Spec => []CacheIsCurrent
  <1>1. SingleInv => CacheIsCurrent
    BY DEF SingleInv
  <1> QED
    BY <1>1, SingleInvariance, PTL

\* Nothing overtakes an operation of the only process.
LEMMA SingleIsCurrent ==
  ASSUME SingleInv, NEW p \in Procs
  PROVE  Current(p)
  BY DEF SingleInv, KnownInv, StepInv, CacheIsCurrent, Current, TypeInv, ArgumentCached,
         StoreTypeOK, Ops

LEMMA SingleNeverOvertaken == ASSUME SingleProcess PROVE Spec => NeverOvertaken
  <1> DEFINE Going == \A p \in Procs : Continue(p) => Current(p)
  <1>1. SingleInv /\ [Next]_vars => [Going]_vars
    BY SingleIsCurrent
  <1> HIDE DEF Going
  <1>2. Spec => [][Going]_vars
    BY <1>1, SingleInvariance, PTL DEF Spec
  <1> QED
    BY <1>2 DEF NeverOvertaken, Going

\* One process whose commits are acknowledged: the store is the service.
THEOREM SingleProcessImplementsService ==
  ASSUME SingleProcess
  PROVE  Spec => ImplementsBookingService
  BY SingleNeverOvertaken, ConditionalCommitsImplementService

\* One process: no booking is announced as both confirmed and declined.
THEOREM SingleProcessOneDecision ==
  ASSUME SingleProcess
  PROVE  Spec => []OneHostDecision
  BY SingleNeverOvertaken, NoOvertakingOneDecision

\* One process: a decided booking is not decided again.
THEOREM SingleProcessDecisionIsFinal ==
  ASSUME SingleProcess
  PROVE  Spec => HostDecisionIsFinal
  BY SingleNeverOvertaken, NoOvertakingDecisionIsFinal
=============================================================================
