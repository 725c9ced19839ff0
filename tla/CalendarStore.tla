------------------------------ MODULE CalendarStore ------------------------------
(***************************************************************************)
(* calendars.Store over calendars.PostgresRepository, for the one user the *)
(* program seeds: provider connections and their calendar catalog, the     *)
(* calendars the user selected and the one that is the destination.  An    *)
(* API process synchronizes the catalog with the provider when it starts,  *)
(* loads the four tables into memory, seeding them when it finds them      *)
(* empty, and from then on reads only that memory and writes both.         *)
(*                                                                         *)
(* A process holds Store.mu for a whole operation, so its statements are   *)
(* steps between which only other processes act.  A sync locks the rows it *)
(* reads, the connections first and then the catalog, until it commits: it *)
(* knows of the rows each of the two statements saw, and what is in a row  *)
(* is read and written in one step.  Names and provider ids are left out.  *)
(***************************************************************************)
EXTENDS IntegrationStatus, Naturals, Sequences

CONSTANTS
    Connections,      \* connection_ref values
    Calendars,        \* calendar_ref values
    ConnectionOf,     \* the connection a calendar belongs to
    FixtureCalendars, \* fixtureCatalogCalendars, the destination first
    SelectedFixtures, \* how many of them fixtureSelectedCalendars selects
    Catalogs,         \* catalog snapshots the provider may return
    StatusReports,    \* status snapshots it may return
    AcksLost          \* whether a commit may succeed and report an error

FixtureDestination == FixtureCalendars[1]
FixtureConnection == ConnectionOf[FixtureDestination]

\* validateProviderCatalog: every calendar belongs to a connection listed.  A
\* snapshot that is not valid ends the operation.
ValidCatalog(s) ==
    /\ DOMAIN s.connections \subseteq Connections
    /\ \A k \in DOMAIN s.connections : s.connections[k] \in Statuses
    /\ s.calendars \subseteq Calendars
    /\ \A c \in s.calendars : ConnectionOf[c] \in DOMAIN s.connections

ASSUME CalendarAssumption ==
    /\ ConnectionOf \in [Calendars -> Connections]
    /\ None \notin Calendars
    /\ FixtureCalendars \in Seq(Calendars)
    /\ SelectedFixtures \in 1 .. Len(FixtureCalendars)
    /\ \A s \in Catalogs : ValidCatalog(s)
    /\ \A r \in StatusReports :
          DOMAIN r \subseteq Connections /\ \A k \in DOMAIN r : r[k] \in Statuses
    /\ AcksLost \in BOOLEAN

VARIABLES
    connections, \* connections[k]: the row of calendar_connections, or None
    transitions, \* transitions[k]: its latest row of the status history, or None
    catalog,     \* rows of calendar_catalog
    selected,    \* rows of selected_calendars
    destination, \* the row of destination_calendars, or None
    memory,      \* memory[p]: the maps of Store
    loaded,      \* processes whose selected map has the user
    step,        \* step[p]: the next statement of p
    hand,        \* hand[p]: what the operation of p has read
    statusReport,\* statusReport[p]: the status snapshot p's start got
    fresh        \* fresh[p]: since p started, no other process has written and
                 \* p knows of every commit of its own

tables == <<connections, transitions, catalog, selected, destination>>
calendarVars == <<tables, memory, loaded, step, hand, statusReport, fresh>>

NoConnections == [k \in Connections |-> None]

EmptyMaps ==
    [connections |-> NoConnections, catalog |-> {}, selected |-> {},
     destination |-> None]

NoOffer == [connections |-> NoReport, calendars |-> {}]

\* maps: the four reads of a load, or what a request has read.  offer,
\* seenConnections, seenCatalog: what a sync writes and the rows it knows of.
\* seeded: fixtures saved so far.  then: the step after the operation.
NothingRead ==
    [maps |-> EmptyMaps, offer |-> NoOffer, seenConnections |-> {}, seenCatalog |-> {},
     seeded |-> 0, then |-> "idle"]

CalendarsInit ==
    /\ connections = NoConnections
    /\ transitions = [k \in Connections |-> None]
    /\ catalog = {}
    /\ selected = {}
    /\ destination = None
    /\ memory = [p \in Procs |-> EmptyMaps]
    /\ loaded = {}
    /\ step = [p \in Procs |-> "askCatalog"]
    /\ hand = [p \in Procs |-> NothingRead]
    /\ statusReport = [p \in Procs |-> NoReport]
    /\ fresh = [p \in Procs |-> FALSE]

-----------------------------------------------------------------------------
(* Steps of an operation *)

At(p, s) == step[p] = s

\* p goes on to step s with h in hand.
Goto(p, s, h) ==
    /\ step' = [step EXCEPT ![p] = s]
    /\ hand' = [hand EXCEPT ![p] = h]

Done(p, s) == Goto(p, s, NothingRead)

\* p writes a table: what other processes remember may be outdated, and what p
\* remembers too unless it learns of its commit.
Writes(p, acked) == fresh' = [q \in Procs |-> q = p /\ acked /\ fresh[q]]

Acks == IF AcksLost THEN BOOLEAN ELSE {TRUE}

Existing(table) == {k \in Connections : table[k] # None}

\* Mutant of Transition: every change is left to the status refresh.
NoTransition(k, status) == transitions[k]

\* The latest history row of a connection that is given a status.
Transition(k, status) ==
    IF connections[k].status # status
    THEN [previous |-> connections[k].status, next |-> status]
    ELSE transitions[k]

-----------------------------------------------------------------------------
(* Loading: ensureLoadedLocked *)

\* A load begins with a request, or within the start of the process.
LoadConnections(p) ==
    /\ p \notin loaded
    /\ step[p] \in {"idle", "load"}
    /\ Goto(p, "readCatalog",
            [NothingRead EXCEPT !.maps.connections = connections,
                                !.then = IF At(p, "load") THEN "refresh" ELSE "idle"])
    /\ UNCHANGED <<tables, memory, loaded, statusReport, fresh>>

LoadCatalog(p) ==
    /\ At(p, "readCatalog")
    /\ Goto(p, "readSelected", [hand[p] EXCEPT !.maps.catalog = catalog])
    /\ UNCHANGED <<tables, memory, loaded, statusReport, fresh>>

LoadSelected(p) ==
    /\ At(p, "readSelected")
    /\ Goto(p, "readDestination", [hand[p] EXCEPT !.maps.selected = selected])
    /\ UNCHANGED <<tables, memory, loaded, statusReport, fresh>>

\* Mutant of NothingSelected: a selection without a destination is seeded again.
NoDestination(maps) == maps.destination = None

NothingSelected(maps) == maps.selected = {} /\ maps.destination = None

NoCatalogRead(maps) == Existing(maps.connections) = {} /\ maps.catalog = {}

\* Where a load goes on when it has a catalog, and when it has a selection.
AfterCatalog(h) ==
    IF NoCatalogRead(h.maps) THEN "seedConnection"
    ELSE IF NothingSelected(h.maps) THEN "seedSelected" ELSE "loaded"

\* The maps are assigned when the last statement of the load has returned.
Proceed(p, s, h) ==
    IF s = "loaded"
    THEN /\ memory' = [memory EXCEPT ![p] = h.maps]
         /\ loaded' = loaded \cup {p}
         /\ Done(p, h.then)
    ELSE /\ Goto(p, s, h)
         /\ UNCHANGED <<memory, loaded>>

LoadDestination(p) ==
    LET h == [hand[p] EXCEPT !.maps.destination = destination]
    IN  /\ At(p, "readDestination")
        /\ IF Existing(h.maps.connections) = {} \/ h.maps.catalog = {}
           THEN Goto(p, "askProvider", h) /\ UNCHANGED <<memory, loaded>>
           ELSE Proceed(p, AfterCatalog(h), h)
        /\ UNCHANGED <<tables, statusReport, fresh>>

\* Without connections or calendars a load asks the provider for them.
AskProvider(p) ==
    /\ At(p, "askProvider")
    /\ \E s \in Catalogs :
          IF s = NoOffer
          THEN Proceed(p, AfterCatalog(hand[p]), hand[p])
          ELSE /\ Goto(p, "syncConnections", [hand[p] EXCEPT !.offer = s])
               /\ UNCHANGED <<memory, loaded>>
    /\ UNCHANGED <<tables, statusReport, fresh>>

-----------------------------------------------------------------------------
(* Seeding, one statement for each row *)

SeedConnection(p) ==
    /\ At(p, "seedConnection")
    /\ connections' =
         [connections EXCEPT ![FixtureConnection] = Saved(@, Active)]
    /\ Goto(p, "seedCatalog", hand[p])
    /\ Writes(p, TRUE)
    /\ UNCHANGED <<transitions, catalog, selected, destination, memory, loaded,
                   statusReport>>

\* The next fixture; the counter starts again after the last one.
NextSeed(p) == FixtureCalendars[hand[p].seeded + 1]

Seeded(p, s, last, after) ==
    IF hand[p].seeded + 1 = last
    THEN Goto(p, after, [hand[p] EXCEPT !.seeded = 0])
    ELSE Goto(p, s, [hand[p] EXCEPT !.seeded = @ + 1])

\* The foreign key refuses a calendar whose connection is gone.
SeedCatalog(p) ==
    /\ At(p, "seedCatalog")
    /\ connections[ConnectionOf[NextSeed(p)]] # None
    /\ catalog' = catalog \cup {NextSeed(p)}
    /\ Seeded(p, "seedCatalog", Len(FixtureCalendars), "rereadConnections")
    /\ Writes(p, TRUE)
    /\ UNCHANGED <<connections, transitions, selected, destination, memory, loaded,
                   statusReport>>

RereadConnections(p) ==
    /\ At(p, "rereadConnections")
    /\ Goto(p, "rereadCatalog", [hand[p] EXCEPT !.maps.connections = connections])
    /\ UNCHANGED <<tables, memory, loaded, statusReport, fresh>>

RereadCatalog(p) ==
    LET h == [hand[p] EXCEPT !.maps.catalog = catalog]
    IN  /\ At(p, "rereadCatalog")
        /\ Proceed(p, IF NothingSelected(h.maps) THEN "seedSelected" ELSE "loaded", h)
        /\ UNCHANGED <<tables, statusReport, fresh>>

\* The catalog is not looked at: the fixtures are selected even if the provider
\* does not offer them.
SeedSelected(p) ==
    /\ At(p, "seedSelected")
    /\ selected' = selected \cup {NextSeed(p)}
    /\ Seeded(p, "seedSelected", SelectedFixtures, "seedDestination")
    /\ Writes(p, TRUE)
    /\ UNCHANGED <<connections, transitions, catalog, destination, memory, loaded,
                   statusReport>>

RereadSelected(p) ==
    /\ At(p, "rereadSelected")
    /\ Goto(p, "rereadDestination", [hand[p] EXCEPT !.maps.selected = selected])
    /\ UNCHANGED <<tables, memory, loaded, statusReport, fresh>>

RereadDestination(p) ==
    /\ At(p, "rereadDestination")
    /\ Proceed(p, "loaded", [hand[p] EXCEPT !.maps.destination = destination])
    /\ UNCHANGED <<tables, statusReport, fresh>>

-----------------------------------------------------------------------------
(* The destination: the selection is read, then the destination written *)

\* The foreign key of destination_calendars refuses a calendar deselected since
\* the selection was read.
AcceptsDestination(c) == c \in selected

BeginSetDestination(p, c) ==
    /\ At(p, "idle")
    /\ p \in loaded
    /\ c \in selected
    /\ Goto(p, "writeDestination", [hand[p] EXCEPT !.maps.destination = c])
    /\ UNCHANGED <<tables, memory, loaded, statusReport, fresh>>

SetDestinationCalendar(p) ==
    LET c == hand[p].maps.destination
    IN  /\ At(p, "writeDestination")
        /\ AcceptsDestination(c)
        /\ destination' = c
        /\ \E acked \in Acks :
              /\ Writes(p, acked)
              /\ memory' = [memory EXCEPT ![p].destination = IF acked THEN c ELSE @]
        /\ Done(p, "idle")
        /\ UNCHANGED <<connections, transitions, catalog, selected, loaded,
                       statusReport>>

\* A load ends with an error if the fixture was deselected since it was seeded.
BeginSeedDestination(p) ==
    /\ At(p, "seedDestination")
    /\ FixtureDestination \in selected
    /\ Goto(p, "writeSeedDestination", hand[p])
    /\ UNCHANGED <<tables, memory, loaded, statusReport, fresh>>

SeedDestination(p) ==
    /\ At(p, "writeSeedDestination")
    /\ AcceptsDestination(FixtureDestination)
    /\ destination' = FixtureDestination
    /\ Goto(p, "rereadSelected", hand[p])
    /\ Writes(p, TRUE)
    /\ UNCHANGED <<connections, transitions, catalog, selected, memory, loaded,
                   statusReport>>

-----------------------------------------------------------------------------
(* Synchronizing the catalog, at the start or in a load *)

\* SyncProviderCatalog asks the provider outside the mutex.
AskCatalog(p) ==
    /\ At(p, "askCatalog")
    /\ \E s \in Catalogs :
          Goto(p, "syncConnections", [NothingRead EXCEPT !.offer = s, !.then = "askStatus"])
    /\ fresh' = [fresh EXCEPT ![p] = TRUE]
    /\ UNCHANGED <<tables, memory, loaded, statusReport>>

\* SyncCalendarCatalog reads which rows there are, in two statements: a row that
\* another process inserts between them is known to the second only.
SyncReadConnections(p) ==
    /\ At(p, "syncConnections")
    /\ Goto(p, "syncCatalog",
            [hand[p] EXCEPT !.seenConnections = Existing(connections)])
    /\ UNCHANGED <<tables, memory, loaded, statusReport, fresh>>

SyncReadCatalog(p) ==
    /\ At(p, "syncCatalog")
    /\ Goto(p, "syncWrite", [hand[p] EXCEPT !.seenCatalog = catalog])
    /\ UNCHANGED <<tables, memory, loaded, statusReport, fresh>>

\* Rows the sync knows of and the provider no longer offers.
Pruned(seen, offered) == seen \ offered

SyncedConnections(offer, gone) ==
    [k \in Connections |->
       IF k \in DOMAIN offer.connections
       THEN Saved(connections[k], offer.connections[k])
       ELSE IF k \in gone THEN None ELSE connections[k]]

\* refreshSelectedForCatalogLocked keeps of the maps what the catalog still has.
SyncedMaps(maps, ks, cs) ==
    [maps EXCEPT !.connections = ks, !.catalog = cs, !.selected = @ \cap cs,
                 !.destination = IF @ \in cs THEN @ ELSE None]

\* Prunes, writes what is offered, records changed statuses, reads both tables
\* again and commits.  A load goes on with these and with the selection it read
\* before.  Deleting a selection deletes the destination on it, deleting a
\* connection its calendars and its history.
SyncWrite(p) ==
    LET offer == hand[p].offer
        lost  == Pruned(hand[p].seenConnections, DOMAIN offer.connections)
        gone  == Pruned(hand[p].seenCatalog, offer.calendars)
        ks    == SyncedConnections(offer, lost)
        cs    == {c \in (catalog \ gone) \cup offer.calendars :
                    ConnectionOf[c] \notin lost}
        h     == [hand[p] EXCEPT !.maps.connections = ks, !.maps.catalog = cs]
        existed(k) == k \in hand[p].seenConnections /\ connections[k] # None
    IN  /\ At(p, "syncWrite")
        /\ connections' = ks
        /\ catalog' = cs
        /\ selected' = selected \ gone
        /\ destination' = IF destination \in gone THEN None ELSE destination
        /\ transitions' =
             [k \in Connections |->
                IF k \in lost THEN None
                ELSE IF existed(k) /\ k \in DOMAIN offer.connections
                THEN Transition(k, ks[k].status) ELSE transitions[k]]
        /\ IF h.then = "askStatus"
           THEN /\ memory' = [memory EXCEPT ![p] = SyncedMaps(@, ks, cs)]
                /\ Done(p, "askStatus")
                /\ UNCHANGED loaded
           ELSE Proceed(p, AfterCatalog(h), h)
        /\ Writes(p, TRUE)
        /\ UNCHANGED statusReport

-----------------------------------------------------------------------------
(* Refreshing the status of the connections *)

\* RefreshProviderConnectionStatus: no updates, nothing to do.
AskStatus(p) ==
    /\ At(p, "askStatus")
    /\ \E r \in StatusReports :
          /\ statusReport' = [statusReport EXCEPT ![p] = r]
          /\ Done(p, IF DOMAIN r = {} THEN "idle" ELSE "load")
    /\ UNCHANGED <<tables, memory, loaded, fresh>>

\* One transaction.  An update for a connection that the process does not
\* remember, or that is gone, fails the start.
RefreshStatuses(p) ==
    LET r == statusReport[p]
    IN  /\ At(p, "refresh")
        /\ \A k \in DOMAIN r : memory[p].connections[k] # None /\ connections[k] # None
        /\ connections' =
             [k \in Connections |->
                IF k \in DOMAIN r THEN Checked(connections[k], r[k])
                ELSE connections[k]]
        /\ transitions' =
             [k \in Connections |->
                IF k \in DOMAIN r THEN Transition(k, r[k]) ELSE transitions[k]]
        /\ memory' = [memory EXCEPT ![p].connections = connections']
        /\ Done(p, "idle")
        /\ Writes(p, TRUE)
        /\ UNCHANGED <<catalog, selected, destination, loaded, statusReport>>

-----------------------------------------------------------------------------
(* Requests of a process that has loaded *)

\* catalogCalendarLocked asks the memory of the process.
MaySelect(p, c) == c \in memory[p].catalog

SaveSelectedCalendar(p, c) ==
    /\ At(p, "idle")
    /\ p \in loaded
    /\ MaySelect(p, c)
    /\ selected' = selected \cup {c}
    /\ \E acked \in Acks :
          /\ Writes(p, acked)
          /\ memory' = [memory EXCEPT ![p].selected = IF acked THEN @ \cup {c} ELSE @]
    /\ UNCHANGED <<connections, transitions, catalog, destination, loaded, step, hand,
                   statusReport>>

\* The transaction of a deletion reads the destination, and deletes the selection
\* in a statement of its own.
BeginDeleteSelectedCalendar(p, c) ==
    /\ At(p, "idle")
    /\ p \in loaded
    /\ Goto(p, "deleteSelection",
            [hand[p] EXCEPT !.maps.selected = {c}, !.maps.destination = destination])
    /\ UNCHANGED <<tables, memory, loaded, statusReport, fresh>>

\* Mutant of ClearedDestination: the cascade in the database is not reported.
ClearedNever(p, c) == FALSE

\* The destination that was read is the calendar deleted, and something was
\* deleted, here or in the table.
ClearedDestination(p, c) ==
    hand[p].maps.destination = c /\ c \in selected \cup memory[p].selected

DeleteSelectedCalendar(p) ==
    /\ At(p, "deleteSelection")
    /\ \E c \in hand[p].maps.selected, acked \in Acks :
          /\ selected' = selected \ {c}
          /\ destination' = IF destination = c THEN None ELSE destination
          /\ Writes(p, acked)
          /\ memory' = [memory EXCEPT
               ![p].selected = IF acked THEN @ \ {c} ELSE @,
               ![p].destination =
                   IF acked /\ ClearedDestination(p, c) THEN None ELSE @]
    /\ Done(p, "idle")
    /\ UNCHANGED <<connections, transitions, catalog, loaded, statusReport>>

\* Reading a destination that is not among the selected forgets it.
ReadDestinationCalendar(p) ==
    /\ At(p, "idle")
    /\ p \in loaded
    /\ memory[p].destination # None
    /\ memory[p].destination \notin memory[p].selected
    /\ memory' = [memory EXCEPT ![p].destination = None]
    /\ UNCHANGED <<tables, loaded, step, hand, statusReport, fresh>>

\* Steps that only a start has; the others are also those of a request.
StartSteps == {"askCatalog", "askStatus", "load", "refresh"}

\* A request ends with an error: a statement failed or was refused.
RequestFails(p) ==
    /\ step[p] \notin StartSteps \cup {"idle"}
    /\ hand[p].then = "idle"
    /\ Done(p, "idle")
    /\ UNCHANGED <<tables, memory, loaded, statusReport, fresh>>

\* The process ends, by itself when a step of its start fails; the next one
\* begins with empty maps.
CalendarsForgotten(p) ==
    /\ memory' = [memory EXCEPT ![p] = EmptyMaps]
    /\ loaded' = loaded \ {p}
    /\ Done(p, "askCatalog")
    /\ statusReport' = [statusReport EXCEPT ![p] = NoReport]
    /\ fresh' = [fresh EXCEPT ![p] = FALSE]
    /\ UNCHANGED tables

\* What a process does by itself until it serves.
CalendarStart(p) ==
    \/ AskCatalog(p)
    \/ AskStatus(p)
    \/ RefreshStatuses(p)

\* The statements that a load or a synchronization is made of, at the start or
\* in a request.
CalendarStatement(p) ==
    \/ SyncReadConnections(p)
    \/ SyncReadCatalog(p)
    \/ SyncWrite(p)
    \/ LoadConnections(p)
    \/ LoadCatalog(p)
    \/ LoadSelected(p)
    \/ LoadDestination(p)
    \/ AskProvider(p)
    \/ SeedConnection(p)
    \/ SeedCatalog(p)
    \/ RereadConnections(p)
    \/ RereadCatalog(p)
    \/ SeedSelected(p)
    \/ BeginSeedDestination(p)
    \/ SeedDestination(p)
    \/ RereadSelected(p)
    \/ RereadDestination(p)

CalendarRequest(p) ==
    \/ \E c \in Calendars :
          SaveSelectedCalendar(p, c) \/ BeginDeleteSelectedCalendar(p, c)
          \/ BeginSetDestination(p, c)
    \/ DeleteSelectedCalendar(p)
    \/ SetDestinationCalendar(p)
    \/ ReadDestinationCalendar(p)
    \/ RequestFails(p)

-----------------------------------------------------------------------------
(* Properties *)

Steps ==
    {"askCatalog", "syncConnections", "syncCatalog", "syncWrite", "askStatus", "load",
     "readCatalog", "readSelected", "readDestination", "askProvider",
     "seedConnection", "seedCatalog", "rereadConnections", "rereadCatalog",
     "seedSelected", "seedDestination", "writeSeedDestination", "rereadSelected",
     "rereadDestination", "refresh", "writeDestination", "deleteSelection", "idle"}

Maps ==
    [connections : [Connections -> StatusRows \cup {None}],
     catalog : SUBSET Calendars, selected : SUBSET Calendars,
     destination : Calendars \cup {None}]

Hands ==
    [maps : Maps, offer : Catalogs \cup {NoOffer},
     seenConnections : SUBSET Connections, seenCatalog : SUBSET Calendars,
     seeded : 0 .. Len(FixtureCalendars), then : {"askStatus", "refresh", "idle"}]

\* The types of the tables and of what the processes hold.
CalendarsTypeOK ==
    /\ connections \in [Connections -> StatusRows \cup {None}]
    /\ transitions \in
         [Connections -> [previous : Statuses, next : Statuses] \cup {None}]
    /\ catalog \subseteq Calendars
    /\ selected \subseteq Calendars
    /\ destination \in Calendars \cup {None}
    /\ memory \in [Procs -> Maps]
    /\ loaded \subseteq Procs
    /\ step \in [Procs -> Steps]
    /\ hand \in [Procs -> Hands]
    /\ statusReport \in [Procs -> StatusReports \cup {NoReport}]
    /\ fresh \in [Procs -> BOOLEAN]

Tables ==
    [connections |-> connections, catalog |-> catalog, selected |-> selected,
     destination |-> destination]

\* What the foreign keys of migrations 0017 to 0019 keep, whatever the program
\* does: a part of the invariant that the proofs need, not a claim about the code.
ForeignKeys ==
    /\ \A c \in catalog : connections[ConnectionOf[c]] # None
    /\ destination \in selected \cup {None}
    /\ \A k \in Connections : transitions[k] # None => connections[k] # None

\* While nobody else has written and no answer was lost since a process began
\* its start, the four maps it answers from are the four tables, whatever the
\* tables held before and however many statements its load and its seeding had.
CalendarCacheIsCurrent ==
    \A p \in loaded : fresh[p] => memory[p] = Tables

\* Such a process records every change of a connection's status in the history,
\* from what to what, be it made by a synchronization, by a status refresh or by
\* seeding.  With a second process in its first start it may not: a row that
\* was inserted after the sync read the table is overwritten unrecorded.
StatusChangeIsRecorded ==
    [][\A k \in Connections :
          /\ connections[k] # None
          /\ connections'[k] # None
          /\ connections'[k].status # connections[k].status
          /\ \E p \in Procs : fresh'[p]
          => transitions'[k] = [previous |-> connections[k].status,
                                next |-> connections'[k].status]]_calendarVars

\* The start synchronizes the catalog, which carries a status of its own, before
\* it refreshes the status: a process that serves has the status and the code
\* the status provider reported to its start.
ReportedStatusIsServed ==
    \A p \in Procs : fresh[p] /\ At(p, "idle") =>
        \A k \in DOMAIN statusReport[p] :
            connections[k] =
                [status |-> statusReport[p][k], code |-> statusReport[p][k]]

\* A start seeds fixtures only into an empty selection, so that a restart does
\* not undo what the user selected.
SeedsOnlyAnEmptySelection ==
    \A p \in Procs : fresh[p] /\ At(p, "seedSelected") =>
        /\ selected = {FixtureCalendars[i] : i \in 1 .. hand[p].seeded}
        /\ destination = None
=============================================================================
