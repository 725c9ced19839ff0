---------------------------- MODULE BookingService ----------------------------
(***************************************************************************)
(* What booking.Store promises a client: one map of bookings, on which     *)
(* every operation is one step that decides by the current booking.  It is *)
(* the store without its repository and its memory of rows, but with busy  *)
(* times that are those of the bookings.  BookingStore, where an operation *)
(* is a sequence of database steps that decides by a remembered copy, is   *)
(* shown to implement it for a lone process.                               *)
(***************************************************************************)
CONSTANTS
    Keys,          \* idempotency keys of the clients
    NoKey,         \* a create request without one
    ReqIDs,        \* request ids the API may give a request
    Primary,       \* every create makes this booking
    Rescheduled,   \* every reschedule makes this one
    PendingUids,   \* the fixtures a host confirms or declines
    Offered,       \* the slots the event type offers
    PrimaryStart,  \* start of the primary fixture
    PendingStart,  \* start of the pending fixtures
    None           \* no booking

VARIABLES
    bookings,  \* bookings[u]: the entry of Store.bookings, or None
    keys,      \* keys of Store.idempotency; all name Primary
    effects    \* <<uid, kind, request id>> of what was announced

vars == <<bookings, keys, effects>>

Uids == {Primary, Rescheduled} \cup PendingUids

Init ==
    /\ bookings = [u \in Uids |-> None]
    /\ keys = {}
    /\ effects = {}

Accepted(start, req) == [status |-> "accepted", start |-> start, req |-> req]

\* An offered slot on which nobody is expected.
Free(start) ==
    /\ start \in Offered
    /\ \A u \in Uids : bookings[u] # None /\ bookings[u].status = "accepted" =>
          bookings[u].start # start

-----------------------------------------------------------------------------
(* Operations *)

\* A fixture that is asked for exists from then on; nobody asks whether its
\* time is free.
FindFixture(u, req) ==
    /\ u # Rescheduled
    /\ bookings[u] = None
    /\ bookings' = [bookings EXCEPT
         ![u] = IF u = Primary THEN Accepted(PrimaryStart, req)
                ELSE [status |-> "pending", start |-> PendingStart, req |-> req]]
    /\ UNCHANGED <<keys, effects>>

\* A key is good for one booking; a later request with it changes nothing.
Create(k, start, req) ==
    /\ k \notin keys
    /\ Free(start)
    /\ bookings' = [bookings EXCEPT ![Primary] = Accepted(start, req)]
    /\ keys' = keys \cup ({k} \cap Keys)
    /\ UNCHANGED effects

\* A booking keeps the request id it was made with, under which all that
\* happens to it is announced.
Change(u, status, effect) ==
    /\ bookings[u] # None
    /\ bookings' = [bookings EXCEPT ![u].status = status]
    /\ effects' = effects \cup {<<u, effect, bookings[u].req>>}
    /\ UNCHANGED keys

Cancel(u) == Change(u, "cancelled", "cancelled")

\* The host decides a booking that waits for it.
Decide(u, status, effect) ==
    /\ bookings[u] # None
    /\ bookings[u].status = "pending"
    /\ Change(u, status, effect)

Confirm(u) == Decide(u, "accepted", "confirmed")
Decline(u) == Decide(u, "rejected", "declined")

Reschedule(u, start) ==
    /\ bookings[u] # None
    /\ Free(start)
    /\ bookings' = [bookings EXCEPT
         ![u].status = "cancelled", ![Rescheduled] = Accepted(start, bookings[u].req)]
    /\ effects' = effects \cup {<<Rescheduled, "rescheduled", bookings[u].req>>}
    /\ UNCHANGED keys

Next ==
    \/ \E k \in Keys \cup {NoKey}, start \in Offered, req \in ReqIDs : Create(k, start, req)
    \/ \E u \in Uids :
          \/ \E req \in ReqIDs : FindFixture(u, req)
          \/ Cancel(u) \/ Confirm(u) \/ Decline(u)
          \/ \E start \in Offered : Reschedule(u, start)

Spec == Init /\ [][Next]_vars
=============================================================================
