----------------------------- MODULE ApiStart_proofs -----------------------------
(***************************************************************************)
(* Theorems about ApiStart.  The calendars come first: the types of what   *)
(* each statement leaves behind, the foreign keys, and an invariant that   *)
(* says, for a process nobody has outdated, what it has read of the tables *)
(* at each statement.  The credentials follow, and the composed system.    *)
(***************************************************************************)
EXTENDS ApiStart, TLAPS

-----------------------------------------------------------------------------
(* Types *)

\* The fixtures are calendars; the destination is the first of them.
LEMMA FixtureTypes ==
    /\ FixtureDestination \in Calendars
    /\ FixtureConnection \in Connections
    /\ Len(FixtureCalendars) \in Nat \ {0}
    /\ SelectedFixtures \in 1 .. Len(FixtureCalendars)
    /\ \A i \in 1 .. Len(FixtureCalendars) : FixtureCalendars[i] \in Calendars
BY CalendarAssumption DEF FixtureDestination, FixtureConnection

\* Empty maps and an empty hand have their types.
LEMMA EmptyTypes ==
    EmptyMaps \in Maps /\ NothingRead \in Hands /\ NothingRead.then = "idle"
    /\ NothingRead.seeded = 0
<1>1. NoConnections \in [Connections -> StatusRows \cup {None}]
  BY DEF NoConnections
<1>2. EmptyMaps \in Maps
  BY <1>1 DEF EmptyMaps, Maps
<1>3. 0 \in 0 .. Len(FixtureCalendars)
  BY FixtureTypes
<1> QED
  BY <1>2, <1>3 DEF NothingRead, Hands

\* A saved row is a row with the status it was saved with.
LEMMA SavedType ==
    ASSUME NEW row \in StatusRows \cup {None}, NEW status \in Statuses
    PROVE  Saved(row, status) \in StatusRows /\ Saved(row, status).status = status
BY StatusAssumption DEF Saved, StatusRows

\* A checked row has the status and the code of the check.
LEMMA CheckedType ==
    ASSUME NEW row \in StatusRows, NEW status \in Statuses
    PROVE  /\ Checked(row, status) \in StatusRows
           /\ Checked(row, status) = [status |-> status, code |-> status]
<1> DEFINE r == Checked(row, status)
<1>1. r \in [{"status", "code"} -> Statuses \cup {None}]
  BY DEF Checked, StatusRows
<1>2. r.status = status /\ r.code = status
  BY DEF Checked, StatusRows
<1> HIDE DEF r
<1>3. r = [status |-> status, code |-> status]
  BY <1>1, <1>2
<1> QED
  BY <1>3 DEF StatusRows, r

\* One field of a hand's maps may be replaced by a value of its type.
LEMMA HandTypes ==
    ASSUME NEW h \in Hands
    PROVE  /\ h.maps \in Maps
           /\ h.then \in {"askStatus", "refresh", "idle"}
           /\ \A x \in [Connections -> StatusRows \cup {None}] :
                 [h EXCEPT !.maps.connections = x] \in Hands
           /\ \A x \in SUBSET Calendars : [h EXCEPT !.maps.catalog = x] \in Hands
           /\ \A x \in SUBSET Calendars : [h EXCEPT !.maps.selected = x] \in Hands
           /\ \A x \in Calendars \cup {None} :
                 [h EXCEPT !.maps.destination = x] \in Hands
BY DEF Hands, Maps

\* So may one field of the maps.
LEMMA MapsTypes ==
    ASSUME NEW m \in Maps
    PROVE  /\ \A x \in SUBSET Calendars : [m EXCEPT !.selected = x] \in Maps
           /\ \A x \in Calendars \cup {None} : [m EXCEPT !.destination = x] \in Maps
           /\ \A x \in [Connections -> StatusRows \cup {None}] :
                 [m EXCEPT !.connections = x] \in Maps
BY DEF Maps

\* The end of a load keeps the types.
LEMMA ProceedTypes ==
    ASSUME CalendarsTypeOK, NEW p \in Procs, NEW h \in Hands,
           NEW s \in Steps \cup {"loaded"}, Proceed(p, s, h)
    PROVE  /\ memory' \in [Procs -> Maps]
           /\ loaded' \subseteq Procs
           /\ step' \in [Procs -> Steps]
           /\ hand' \in [Procs -> Hands]
<1>1. CASE s = "loaded"
  <2>1. h.then \in Steps
    BY HandTypes DEF Steps
  <2> QED
    BY <1>1, <2>1, HandTypes, EmptyTypes DEF CalendarsTypeOK, Proceed, Done, Goto
<1>2. CASE s # "loaded"
  BY <1>2 DEF CalendarsTypeOK, Proceed, Goto
<1> QED
  BY <1>1, <1>2

LEMMA AfterCatalogType ==
    ASSUME NEW h
    PROVE  AfterCatalog(h) \in {"seedConnection", "seedSelected", "loaded"}
BY DEF AfterCatalog

\* The statements of a load.
LEMMA LoadTypes ==
    ASSUME CalendarsTypeOK, NEW p \in Procs,
           LoadConnections(p) \/ LoadCatalog(p) \/ LoadSelected(p) \/ LoadDestination(p)
    PROVE  CalendarsTypeOK'
<1>1. CASE LoadConnections(p)
  <2> DEFINE h == [NothingRead EXCEPT !.maps.connections = connections]
  <2>1. h \in Hands
    BY EmptyTypes, HandTypes DEF CalendarsTypeOK
  <2> DEFINE g == [NothingRead EXCEPT !.maps.connections = connections,
                          !.then = IF At(p, "load") THEN "refresh" ELSE "idle"]
  <2>2. g \in Hands
    BY <2>1, EmptyTypes DEF CalendarsTypeOK, Hands, Maps
  <2> QED
    BY <1>1, <2>2 DEF CalendarsTypeOK, LoadConnections, Goto, tables, Steps
<1>2. CASE LoadCatalog(p)
  <2>1. [hand[p] EXCEPT !.maps.catalog = catalog] \in Hands
    BY HandTypes DEF CalendarsTypeOK
  <2> QED
    BY <1>2, <2>1 DEF CalendarsTypeOK, LoadCatalog, Goto, tables, Steps
<1>3. CASE LoadSelected(p)
  <2>1. [hand[p] EXCEPT !.maps.selected = selected] \in Hands
    BY HandTypes DEF CalendarsTypeOK
  <2> QED
    BY <1>3, <2>1 DEF CalendarsTypeOK, LoadSelected, Goto, tables, Steps
<1>4. CASE LoadDestination(p)
  <2> DEFINE h == [hand[p] EXCEPT !.maps.destination = destination]
  <2>1. h \in Hands
    BY HandTypes DEF CalendarsTypeOK
  <2>2. /\ Goto(p, "askProvider", h) /\ UNCHANGED <<memory, loaded>>
        \/ Proceed(p, AfterCatalog(h), h)
    BY <1>4 DEF LoadDestination
  <2>3. UNCHANGED <<tables, statusReport, fresh>>
    BY <1>4 DEF LoadDestination
  <2> HIDE DEF h
  <2>4. AfterCatalog(h) \in Steps \cup {"loaded"}
    BY AfterCatalogType DEF Steps
  <2>5. CASE Goto(p, "askProvider", h) /\ UNCHANGED <<memory, loaded>>
    BY <2>1, <2>3, <2>5 DEF CalendarsTypeOK, Goto, tables, Steps
  <2>6. CASE Proceed(p, AfterCatalog(h), h)
    <3>1. /\ memory' \in [Procs -> Maps]
          /\ loaded' \subseteq Procs
          /\ step' \in [Procs -> Steps]
          /\ hand' \in [Procs -> Hands]
      BY <2>1, <2>4, <2>6, ProceedTypes
    <3> QED
      BY <2>3, <3>1 DEF CalendarsTypeOK, tables
  <2> QED
    BY <2>2, <2>5, <2>6
<1> QED
  BY <1>1, <1>2, <1>3, <1>4

\* What asking the provider and reading for a synchronization put into the hand.
LEMMA SyncTypes ==
    ASSUME CalendarsTypeOK, NEW p \in Procs,
           \/ AskCatalog(p) \/ AskProvider(p)
           \/ SyncReadConnections(p) \/ SyncReadCatalog(p)
    PROVE  CalendarsTypeOK'
<1>1. CASE AskCatalog(p)
  <2>1. PICK s \in Catalogs :
          Goto(p, "syncConnections", [NothingRead EXCEPT !.offer = s, !.then = "askStatus"])
    BY <1>1 DEF AskCatalog
  <2>2. [NothingRead EXCEPT !.offer = s, !.then = "askStatus"] \in Hands
    BY EmptyTypes DEF Hands
  <2> QED
    BY <1>1, <2>1, <2>2 DEF CalendarsTypeOK, AskCatalog, Goto, tables, Steps
<1>2. CASE SyncReadConnections(p)
  <2>1. [hand[p] EXCEPT !.seenConnections = Existing(connections)] \in Hands
    BY DEF CalendarsTypeOK, Hands, Existing
  <2> QED
    BY <1>2, <2>1 DEF CalendarsTypeOK, SyncReadConnections, Goto, tables, Steps
<1>4. CASE SyncReadCatalog(p)
  <2>1. [hand[p] EXCEPT !.seenCatalog = catalog] \in Hands
    BY DEF CalendarsTypeOK, Hands
  <2> QED
    BY <1>4, <2>1 DEF CalendarsTypeOK, SyncReadCatalog, Goto, tables, Steps
<1>3. CASE AskProvider(p)
  <2>1. PICK s \in Catalogs :
          IF s = NoOffer
          THEN Proceed(p, AfterCatalog(hand[p]), hand[p])
          ELSE /\ Goto(p, "syncConnections", [hand[p] EXCEPT !.offer = s])
               /\ UNCHANGED <<memory, loaded>>
    BY <1>3 DEF AskProvider
  <2>2. UNCHANGED <<tables, statusReport, fresh>>
    BY <1>3 DEF AskProvider
  <2>3. CASE s = NoOffer
    <3>1. AfterCatalog(hand[p]) \in Steps \cup {"loaded"} /\ hand[p] \in Hands
      BY AfterCatalogType DEF Steps, CalendarsTypeOK
    <3>2. /\ memory' \in [Procs -> Maps]
          /\ loaded' \subseteq Procs
          /\ step' \in [Procs -> Steps]
          /\ hand' \in [Procs -> Hands]
      BY <2>1, <2>3, <3>1, ProceedTypes
    <3> QED
      BY <2>2, <3>2 DEF CalendarsTypeOK, tables
  <2>4. CASE s # NoOffer
    <3>1. [hand[p] EXCEPT !.offer = s] \in Hands
      BY DEF CalendarsTypeOK, Hands
    <3> QED
      BY <2>1, <2>2, <2>4, <3>1 DEF CalendarsTypeOK, Goto, tables, Steps
  <2> QED
    BY <2>3, <2>4
<1> QED
  BY <1>1, <1>2, <1>3, <1>4

\* The commit of a synchronization.
LEMMA SyncWriteTypes ==
    ASSUME CalendarsTypeOK, NEW p \in Procs, SyncWrite(p)
    PROVE  CalendarsTypeOK'
<1> DEFINE offer == hand[p].offer
           lost  == Pruned(hand[p].seenConnections, DOMAIN offer.connections)
           gone  == Pruned(hand[p].seenCatalog, offer.calendars)
           ks    == SyncedConnections(offer, lost)
           cs    == {c \in (catalog \ gone) \cup offer.calendars :
                       ConnectionOf[c] \notin lost}
           h     == [hand[p] EXCEPT !.maps.connections = ks, !.maps.catalog = cs]
<1>1. /\ offer.calendars \subseteq Calendars
      /\ \A k \in DOMAIN offer.connections : offer.connections[k] \in Statuses
  <2>1. offer \in Catalogs \cup {NoOffer}
    BY DEF CalendarsTypeOK, Hands
  <2>2. CASE offer \in Catalogs
    BY <2>2, CalendarAssumption DEF ValidCatalog
  <2>3. CASE offer = NoOffer
    BY <2>3 DEF NoOffer, NoReport
  <2> QED
    BY <2>1, <2>2, <2>3
<1>2. ks \in [Connections -> StatusRows \cup {None}]
  <2> SUFFICES ASSUME NEW k \in Connections
               PROVE  (IF k \in DOMAIN offer.connections
                       THEN Saved(connections[k], offer.connections[k])
                       ELSE IF k \in lost THEN None ELSE connections[k])
                      \in StatusRows \cup {None}
    BY DEF SyncedConnections
  <2>1. connections[k] \in StatusRows \cup {None}
    BY DEF CalendarsTypeOK
  <2>2. ASSUME k \in DOMAIN offer.connections
        PROVE  Saved(connections[k], offer.connections[k]) \in StatusRows
    <3>1. offer.connections[k] \in Statuses
      BY <1>1, <2>2
    <3> HIDE DEF offer
    <3> QED
      BY <2>1, <3>1, SavedType
  <2>3. CASE k \in DOMAIN offer.connections
    BY <2>2, <2>3
  <2>4. CASE k \notin DOMAIN offer.connections
    BY <2>1, <2>4, Zenon
  <2> QED
    BY <2>3, <2>4
<1>3. cs \subseteq Calendars
  BY <1>1 DEF CalendarsTypeOK
<1>4. h \in Hands
  <2>1. hand[p] \in Hands
    BY DEF CalendarsTypeOK
  <2> HIDE DEF ks, cs
  <2> QED
    BY <2>1, <1>2, <1>3 DEF Hands, Maps
<1>5. connections' = ks /\ catalog' = cs
  BY DEF SyncWrite
<1>6. selected' \subseteq Calendars /\ destination' \in Calendars \cup {None}
  BY DEF SyncWrite, CalendarsTypeOK
<1>7. transitions' \in
         [Connections -> [previous : Statuses, next : Statuses] \cup {None}]
  <2>1. transitions' =
          [k \in Connections |->
             IF k \in lost THEN None
             ELSE IF (k \in hand[p].seenConnections /\ connections[k] # None)
                       /\ k \in DOMAIN offer.connections
                  THEN Transition(k, ks[k].status) ELSE transitions[k]]
    BY DEF SyncWrite
  <2>2. ASSUME NEW k \in Connections, connections[k] # None, k \in DOMAIN offer.connections
        PROVE  Transition(k, ks[k].status)
                  \in [previous : Statuses, next : Statuses] \cup {None}
    <3>1. ks[k] = Saved(connections[k], offer.connections[k])
      BY <2>2 DEF SyncedConnections
    <3>2. offer.connections[k] \in Statuses
      BY <1>1, <2>2
    <3>3. connections[k] \in StatusRows
      BY <2>2 DEF CalendarsTypeOK
    <3> HIDE DEF ks, offer
    <3>4. ks[k].status \in Statuses
      BY <3>1, <3>2, <3>3, SavedType
    <3>5. transitions[k] \in [previous : Statuses, next : Statuses] \cup {None}
      BY DEF CalendarsTypeOK
    <3>6. connections[k].status \in Statuses
      BY <3>3 DEF StatusRows
    <3> QED
      BY <3>4, <3>5, <3>6 DEF Transition
  <2> HIDE DEF ks, offer, lost
  <2> QED
    BY <2>1, <2>2 DEF CalendarsTypeOK
<1>8. /\ memory' \in [Procs -> Maps]
      /\ loaded' \subseteq Procs
      /\ step' \in [Procs -> Steps]
      /\ hand' \in [Procs -> Hands]
  <2>1. IF h.then = "askStatus"
        THEN /\ memory' = [memory EXCEPT ![p] = SyncedMaps(@, ks, cs)]
             /\ Done(p, "askStatus")
             /\ UNCHANGED loaded
        ELSE Proceed(p, AfterCatalog(h), h)
    BY DEF SyncWrite
  <2> HIDE DEF h, ks, cs
  <2>2. CASE h.then = "askStatus"
    <3>1. memory[p] \in Maps
      BY DEF CalendarsTypeOK
    <3>2. SyncedMaps(memory[p], ks, cs) \in Maps
      BY <1>2, <1>3, <3>1 DEF SyncedMaps, Maps
    <3> QED
      BY <2>1, <2>2, <3>2, EmptyTypes DEF CalendarsTypeOK, Done, Goto, Steps
  <2>3. CASE h.then # "askStatus"
    <3>1. AfterCatalog(h) \in Steps \cup {"loaded"}
      BY AfterCatalogType DEF Steps
    <3> QED
      BY <2>1, <2>3, <3>1, <1>4, ProceedTypes
  <2> QED
    BY <2>2, <2>3
<1>9. statusReport' = statusReport /\ fresh' \in [Procs -> BOOLEAN]
  BY DEF SyncWrite, Writes, CalendarsTypeOK
<1> HIDE DEF ks, cs
<1> QED
  BY <1>2, <1>3, <1>5, <1>6, <1>7, <1>8, <1>9 DEF CalendarsTypeOK

\* A process that seeds has fixtures left to save.
SeedInBounds(p) ==
    /\ At(p, "seedCatalog") => hand[p].seeded < Len(FixtureCalendars)
    /\ At(p, "seedSelected") => hand[p].seeded < SelectedFixtures
    /\ step[p] \notin {"seedCatalog", "seedSelected"} => hand[p].seeded = 0

\* One more fixture is saved.
LEMMA SeededTypes ==
    ASSUME CalendarsTypeOK, NEW p \in Procs, NEW s \in Steps, NEW after \in Steps,
           NEW last \in 1 .. Len(FixtureCalendars),
           hand[p].seeded < last, Seeded(p, s, last, after)
    PROVE  /\ step' \in [Procs -> Steps]
           /\ hand' \in [Procs -> Hands]
<1>1. hand[p] \in Hands /\ hand[p].seeded \in 0 .. Len(FixtureCalendars)
  BY DEF CalendarsTypeOK, Hands
<1>2. CASE hand[p].seeded + 1 = last
  <2>1. 0 \in 0 .. Len(FixtureCalendars)
    BY FixtureTypes
  <2>2. [hand[p] EXCEPT !.seeded = 0] \in Hands
    BY <1>1, <2>1 DEF Hands
  <2> QED
    BY <1>2, <2>2 DEF Seeded, Goto, CalendarsTypeOK
<1>3. CASE hand[p].seeded + 1 # last
  <2>1. hand[p].seeded + 1 \in 0 .. Len(FixtureCalendars)
    BY <1>1, FixtureTypes
  <2>2. [hand[p] EXCEPT !.seeded = @ + 1] \in Hands
    BY <1>1, <2>1 DEF Hands
  <2> QED
    BY <1>3, <2>2 DEF Seeded, Goto, CalendarsTypeOK
<1> QED
  BY <1>2, <1>3

\* Where a seeding goes on.
LEMMA NextSeedType ==
    ASSUME CalendarsTypeOK, NEW p \in Procs, hand[p].seeded < Len(FixtureCalendars)
    PROVE  NextSeed(p) \in Calendars
<1>1. hand[p].seeded \in 0 .. Len(FixtureCalendars)
  BY DEF CalendarsTypeOK, Hands
<1>2. hand[p].seeded + 1 \in 1 .. Len(FixtureCalendars)
  BY <1>1, FixtureTypes
<1> QED
  BY <1>2, FixtureTypes DEF NextSeed

\* The statements of a seeding.
LEMMA SeedTypes ==
    ASSUME CalendarsTypeOK, NEW p \in Procs, SeedInBounds(p),
           SeedConnection(p) \/ SeedCatalog(p) \/ SeedSelected(p)
    PROVE  CalendarsTypeOK'
<1>1. fresh' \in [Procs -> BOOLEAN]
  BY DEF SeedConnection, SeedCatalog, SeedSelected, Writes, CalendarsTypeOK
<1>2. CASE SeedConnection(p)
  <2>1. Saved(connections[FixtureConnection], Active) \in StatusRows
    BY SavedType, FixtureTypes, StatusAssumption DEF CalendarsTypeOK
  <2> QED
    BY <1>1, <1>2, <2>1, FixtureTypes DEF CalendarsTypeOK, SeedConnection, Goto, Steps
<1>3. CASE SeedCatalog(p)
  <2>1. hand[p].seeded < Len(FixtureCalendars) /\ NextSeed(p) \in Calendars
    BY <1>3, NextSeedType DEF SeedCatalog, SeedInBounds
  <2>2. Len(FixtureCalendars) \in 1 .. Len(FixtureCalendars)
    BY FixtureTypes
  <2>3. Seeded(p, "seedCatalog", Len(FixtureCalendars), "rereadConnections")
    BY <1>3 DEF SeedCatalog
  <2>4. /\ step' \in [Procs -> Steps]
        /\ hand' \in [Procs -> Hands]
    <3>1. "seedCatalog" \in Steps /\ "rereadConnections" \in Steps
      BY DEF Steps
    <3> QED
      BY <2>1, <2>2, <2>3, <3>1, SeededTypes
  <2> QED
    BY <1>1, <1>3, <2>1, <2>4 DEF CalendarsTypeOK, SeedCatalog
<1>4. CASE SeedSelected(p)
  <2>1. hand[p].seeded < SelectedFixtures
    BY <1>4 DEF SeedSelected, SeedInBounds
  <2>2. hand[p].seeded < Len(FixtureCalendars)
    <3>1. hand[p].seeded \in 0 .. Len(FixtureCalendars)
      BY DEF CalendarsTypeOK, Hands
    <3> QED
      BY <2>1, <3>1, FixtureTypes
  <2>3. Seeded(p, "seedSelected", SelectedFixtures, "seedDestination")
    BY <1>4 DEF SeedSelected
  <2>4. /\ step' \in [Procs -> Steps]
        /\ hand' \in [Procs -> Hands]
    <3>1. "seedSelected" \in Steps /\ "seedDestination" \in Steps
      BY DEF Steps
    <3> QED
      BY <2>1, <2>3, <3>1, FixtureTypes, SeededTypes
  <2>5. NextSeed(p) \in Calendars
    BY <2>2, NextSeedType
  <2> QED
    BY <1>1, <1>4, <2>4, <2>5 DEF CalendarsTypeOK, SeedSelected
<1> QED
  BY <1>2, <1>3, <1>4

\* The statements that read the tables again.
LEMMA RereadTypes ==
    ASSUME CalendarsTypeOK, NEW p \in Procs,
           \/ RereadConnections(p) \/ RereadCatalog(p)
           \/ RereadSelected(p) \/ RereadDestination(p)
    PROVE  CalendarsTypeOK'
<1>1. CASE RereadConnections(p)
  <2>1. [hand[p] EXCEPT !.maps.connections = connections] \in Hands
    BY HandTypes DEF CalendarsTypeOK
  <2> QED
    BY <1>1, <2>1 DEF CalendarsTypeOK, RereadConnections, Goto, tables, Steps
<1>2. CASE RereadCatalog(p)
  <2> DEFINE h == [hand[p] EXCEPT !.maps.catalog = catalog]
             s == IF NothingSelected(h.maps) THEN "seedSelected" ELSE "loaded"
  <2>1. h \in Hands
    BY HandTypes DEF CalendarsTypeOK
  <2>2. Proceed(p, s, h) /\ UNCHANGED <<tables, statusReport, fresh>>
    BY <1>2 DEF RereadCatalog
  <2>3. s \in Steps \cup {"loaded"}
    BY DEF Steps
  <2> HIDE DEF h, s
  <2>4. /\ memory' \in [Procs -> Maps]
        /\ loaded' \subseteq Procs
        /\ step' \in [Procs -> Steps]
        /\ hand' \in [Procs -> Hands]
    BY <2>1, <2>2, <2>3, ProceedTypes
  <2> QED
    BY <2>2, <2>4 DEF CalendarsTypeOK, tables
<1>3. CASE RereadSelected(p)
  <2>1. [hand[p] EXCEPT !.maps.selected = selected] \in Hands
    BY HandTypes DEF CalendarsTypeOK
  <2> QED
    BY <1>3, <2>1 DEF CalendarsTypeOK, RereadSelected, Goto, tables, Steps
<1>4. CASE RereadDestination(p)
  <2> DEFINE h == [hand[p] EXCEPT !.maps.destination = destination]
  <2>1. h \in Hands
    BY HandTypes DEF CalendarsTypeOK
  <2>2. Proceed(p, "loaded", h) /\ UNCHANGED <<tables, statusReport, fresh>>
    BY <1>4 DEF RereadDestination
  <2> HIDE DEF h
  <2>4. /\ memory' \in [Procs -> Maps]
        /\ loaded' \subseteq Procs
        /\ step' \in [Procs -> Steps]
        /\ hand' \in [Procs -> Hands]
    BY <2>1, <2>2, ProceedTypes
  <2> QED
    BY <2>2, <2>4 DEF CalendarsTypeOK, tables
<1> QED
  BY <1>1, <1>2, <1>3, <1>4

\* The statements that set the destination.
LEMMA DestinationTypes ==
    ASSUME CalendarsTypeOK, NEW p \in Procs,
           \/ SetDestinationCalendar(p) \/ BeginSeedDestination(p) \/ SeedDestination(p)
           \/ \E c \in Calendars : BeginSetDestination(p, c)
    PROVE  CalendarsTypeOK'
<1>1. CASE SetDestinationCalendar(p)
  <2> DEFINE c == hand[p].maps.destination
  <2>1. c \in Calendars
    BY <1>1 DEF SetDestinationCalendar, AcceptsDestination, CalendarsTypeOK
  <2>2. PICK acked \in Acks :
          /\ Writes(p, acked)
          /\ memory' = [memory EXCEPT ![p].destination = IF acked THEN c ELSE @]
    BY <1>1 DEF SetDestinationCalendar
  <2>3. acked \in BOOLEAN /\ fresh' \in [Procs -> BOOLEAN]
    BY <2>2 DEF Acks, Writes, CalendarsTypeOK
  <2>4. memory' \in [Procs -> Maps]
    <3> DEFINE d == IF acked THEN c ELSE memory[p].destination
    <3>1. memory[p] \in Maps
      BY DEF CalendarsTypeOK
    <3>2. d \in Calendars \cup {None}
      BY <2>1, <3>1 DEF Maps
    <3>3. memory' = [memory EXCEPT ![p] = [memory[p] EXCEPT !.destination = d]]
      BY <2>2 DEF CalendarsTypeOK
    <3> HIDE DEF d
    <3>4. [memory[p] EXCEPT !.destination = d] \in Maps
      BY <3>1, <3>2, MapsTypes
    <3> QED
      BY <3>3, <3>4 DEF CalendarsTypeOK
  <2> QED
    BY <1>1, <2>1, <2>3, <2>4, EmptyTypes
    DEF CalendarsTypeOK, SetDestinationCalendar, Done, Goto, Steps
<1>2. CASE BeginSeedDestination(p)
  BY <1>2 DEF BeginSeedDestination, CalendarsTypeOK, Goto, tables, Steps
<1>3. CASE SeedDestination(p)
  BY <1>3, FixtureTypes DEF SeedDestination, Writes, CalendarsTypeOK, Goto, Steps
<1>4. ASSUME NEW c \in Calendars, BeginSetDestination(p, c) PROVE CalendarsTypeOK'
  <2>1. [hand[p] EXCEPT !.maps.destination = c] \in Hands
    BY HandTypes DEF CalendarsTypeOK
  <2> QED
    BY <1>4, <2>1 DEF CalendarsTypeOK, BeginSetDestination, Goto, tables, Steps
<1> QED
  BY <1>1, <1>2, <1>3, <1>4

\* Selecting, deselecting and reading the destination.
LEMMA SelectionTypes ==
    ASSUME CalendarsTypeOK, NEW p \in Procs, NEW c \in Calendars,
           \/ SaveSelectedCalendar(p, c) \/ BeginDeleteSelectedCalendar(p, c)
           \/ ReadDestinationCalendar(p)
    PROVE  CalendarsTypeOK'
<1>1. CASE SaveSelectedCalendar(p, c)
  <2>1. PICK acked \in Acks :
          /\ Writes(p, acked)
          /\ memory' = [memory EXCEPT ![p].selected = IF acked THEN @ \cup {c} ELSE @]
    BY <1>1 DEF SaveSelectedCalendar
  <2>2. fresh' \in [Procs -> BOOLEAN]
    BY <2>1 DEF Acks, Writes, CalendarsTypeOK
  <2>3. memory' \in [Procs -> Maps]
    <3> DEFINE s == IF acked THEN memory[p].selected \cup {c} ELSE memory[p].selected
    <3>1. memory[p] \in Maps
      BY DEF CalendarsTypeOK
    <3>2. s \in SUBSET Calendars
      BY <3>1 DEF Maps
    <3>3. memory' = [memory EXCEPT ![p] = [memory[p] EXCEPT !.selected = s]]
      BY <2>1
    <3> HIDE DEF s
    <3>4. [memory[p] EXCEPT !.selected = s] \in Maps
      BY <3>1, <3>2, MapsTypes
    <3> QED
      BY <3>3, <3>4 DEF CalendarsTypeOK
  <2> QED
    BY <1>1, <2>2, <2>3 DEF CalendarsTypeOK, SaveSelectedCalendar
<1>2. CASE BeginDeleteSelectedCalendar(p, c)
  <2>1. [hand[p] EXCEPT !.maps.selected = {c}, !.maps.destination = destination] \in Hands
    <3> DEFINE m == [hand[p].maps EXCEPT !.selected = {c}, !.destination = destination]
    <3>1. hand[p] \in Hands /\ destination \in Calendars \cup {None}
      BY DEF CalendarsTypeOK
    <3>2. m \in Maps
      BY <3>1 DEF Hands, Maps
    <3>3. [hand[p] EXCEPT !.maps.selected = {c}, !.maps.destination = destination]
            = [hand[p] EXCEPT !.maps = m]
      BY <3>1 DEF Hands, Maps
    <3> HIDE DEF m
    <3> QED
      BY <3>1, <3>2, <3>3 DEF Hands
  <2> QED
    BY <1>2, <2>1 DEF CalendarsTypeOK, BeginDeleteSelectedCalendar, Goto, tables, Steps
<1>3. CASE ReadDestinationCalendar(p)
  <2>1. [memory[p] EXCEPT !.destination = None] \in Maps
    BY MapsTypes DEF CalendarsTypeOK
  <2>2. memory' = [memory EXCEPT ![p] = [memory[p] EXCEPT !.destination = None]]
    BY <1>3 DEF ReadDestinationCalendar
  <2>3. memory' \in [Procs -> Maps]
    BY <2>1, <2>2 DEF CalendarsTypeOK
  <2> QED
    BY <1>3, <2>3 DEF CalendarsTypeOK, ReadDestinationCalendar, tables
<1> QED
  BY <1>1, <1>2, <1>3

\* The statement of a deletion.
LEMMA DeletionTypes ==
    ASSUME CalendarsTypeOK, NEW p \in Procs, DeleteSelectedCalendar(p)
    PROVE  CalendarsTypeOK'
<1>1. PICK c \in hand[p].maps.selected, acked \in Acks :
        /\ selected' = selected \ {c}
        /\ destination' = IF destination = c THEN None ELSE destination
        /\ Writes(p, acked)
        /\ memory' = [memory EXCEPT
             ![p].selected = IF acked THEN @ \ {c} ELSE @,
             ![p].destination =
                 IF acked /\ ClearedDestination(p, c) THEN None ELSE @]
  BY DEF DeleteSelectedCalendar
<1>2. fresh' \in [Procs -> BOOLEAN]
  BY <1>1 DEF Acks, Writes, CalendarsTypeOK
<1>3. memory' \in [Procs -> Maps]
  <2> DEFINE x == IF acked /\ ClearedDestination(p, c) THEN None ELSE memory[p].destination
             y == IF acked THEN memory[p].selected \ {c} ELSE memory[p].selected
  <2>1. memory[p] \in Maps
    BY DEF CalendarsTypeOK
  <2>2. x \in Calendars \cup {None} /\ y \in SUBSET Calendars
    BY <2>1 DEF Maps
  <2>3. memory' = [memory EXCEPT ![p] =
                     [memory[p] EXCEPT !.selected = y, !.destination = x]]
    BY <1>1 DEF CalendarsTypeOK
  <2> HIDE DEF x, y
  <2>4. [memory[p] EXCEPT !.selected = y, !.destination = x] \in Maps
    BY <2>1, <2>2 DEF Maps
  <2> QED
    BY <2>3, <2>4 DEF CalendarsTypeOK
<1>4. step' \in [Procs -> Steps] /\ hand' \in [Procs -> Hands]
  BY EmptyTypes DEF DeleteSelectedCalendar, Done, Goto, CalendarsTypeOK, Steps
<1>5. selected' \subseteq Calendars /\ destination' \in Calendars \cup {None}
  BY <1>1 DEF CalendarsTypeOK
<1> QED
  BY <1>2, <1>3, <1>4, <1>5 DEF CalendarsTypeOK, DeleteSelectedCalendar

\* The status refresh.
LEMMA StatusTypes ==
    ASSUME CalendarsTypeOK, NEW p \in Procs, AskStatus(p) \/ RefreshStatuses(p)
    PROVE  CalendarsTypeOK'
<1>1. CASE AskStatus(p)
  BY <1>1, EmptyTypes DEF AskStatus, Done, Goto, CalendarsTypeOK, tables, Steps
<1>2. CASE RefreshStatuses(p)
  <2> DEFINE r == statusReport[p]
  <2>1. r \in StatusReports \cup {NoReport}
    BY DEF CalendarsTypeOK
  <2>2. \A k \in DOMAIN r : r[k] \in Statuses
    BY <2>1, CalendarAssumption DEF NoReport
  <2>3. ASSUME NEW k \in Connections, k \in DOMAIN r
        PROVE  /\ Checked(connections[k], r[k]) \in StatusRows
               /\ Transition(k, r[k]) \in [previous : Statuses, next : Statuses] \cup {None}
    <3>1. connections[k] \in StatusRows /\ r[k] \in Statuses
      BY <1>2, <2>2, <2>3 DEF RefreshStatuses, CalendarsTypeOK
    <3> HIDE DEF r
    <3>2. Checked(connections[k], r[k]) \in StatusRows
      BY <3>1, CheckedType
    <3>3. Transition(k, r[k]) \in [previous : Statuses, next : Statuses] \cup {None}
      BY <3>1 DEF Transition, StatusRows, CalendarsTypeOK
    <3> QED
      BY <3>2, <3>3
  <2>4. /\ connections' =
             [k \in Connections |->
                IF k \in DOMAIN r THEN Checked(connections[k], r[k])
                ELSE connections[k]]
        /\ transitions' =
             [k \in Connections |->
                IF k \in DOMAIN r THEN Transition(k, r[k]) ELSE transitions[k]]
    BY <1>2 DEF RefreshStatuses
  <2>5. /\ connections' \in [Connections -> StatusRows \cup {None}]
        /\ transitions' \in
             [Connections -> [previous : Statuses, next : Statuses] \cup {None}]
    <3> HIDE DEF r
    <3> QED
      BY <2>3, <2>4 DEF CalendarsTypeOK
  <2>6. fresh' \in [Procs -> BOOLEAN]
    BY <1>2 DEF RefreshStatuses, Writes, CalendarsTypeOK
  <2>7. memory' \in [Procs -> Maps]
    <3>1. memory' = [memory EXCEPT ![p] = [memory[p] EXCEPT !.connections = connections']]
      BY <1>2 DEF RefreshStatuses, CalendarsTypeOK
    <3>2. memory[p] \in Maps
      BY DEF CalendarsTypeOK
    <3>3. [memory[p] EXCEPT !.connections = connections'] \in Maps
      BY <2>5, <3>2 DEF Maps
    <3> QED
      BY <3>1, <3>3 DEF CalendarsTypeOK
  <2> QED
    BY <1>2, <2>5, <2>6, <2>7, EmptyTypes
    DEF RefreshStatuses, CalendarsTypeOK, Done, Goto, Steps
<1> QED
  BY <1>1, <1>2

\* A request or a process ends.
LEMMA EndTypes ==
    ASSUME CalendarsTypeOK, NEW p \in Procs, RequestFails(p) \/ CalendarsForgotten(p)
    PROVE  CalendarsTypeOK'
<1>1. CASE RequestFails(p)
  BY <1>1, EmptyTypes DEF RequestFails, Done, Goto, CalendarsTypeOK, tables, Steps
<1>2. CASE CalendarsForgotten(p)
  BY <1>2, EmptyTypes DEF CalendarsForgotten, Done, Goto, CalendarsTypeOK, tables, Steps
<1> QED
  BY <1>1, <1>2

-----------------------------------------------------------------------------
(* What a step of one process leaves alone *)

\* Everything a process may do with the calendars.
CalendarStep(p) ==
    CalendarStart(p) \/ CalendarStatement(p) \/ CalendarRequest(p) \/ CalendarsForgotten(p)

\* A step of p touches nothing of another process, and outdates it if it writes.
OthersUndisturbed(p) ==
    \A q \in Procs \ {p} :
        /\ step'[q] = step[q]
        /\ hand'[q] = hand[q]
        /\ memory'[q] = memory[q]
        /\ statusReport'[q] = statusReport[q]
        /\ q \in loaded' <=> q \in loaded
        /\ fresh'[q] => fresh[q] /\ UNCHANGED tables

LEMMA ProceedOthers ==
    ASSUME CalendarsTypeOK, NEW p \in Procs, NEW s, NEW h, Proceed(p, s, h),
           NEW q \in Procs \ {p}
    PROVE  /\ step'[q] = step[q]
           /\ hand'[q] = hand[q]
           /\ memory'[q] = memory[q]
           /\ q \in loaded' <=> q \in loaded
BY DEF Proceed, Done, Goto, CalendarsTypeOK

LEMMA StepOthers ==
    ASSUME CalendarsTypeOK, NEW p \in Procs, CalendarStep(p)
    PROVE  OthersUndisturbed(p)
<1> SUFFICES ASSUME NEW q \in Procs \ {p}
             PROVE  /\ step'[q] = step[q]
                    /\ hand'[q] = hand[q]
                    /\ memory'[q] = memory[q]
                    /\ statusReport'[q] = statusReport[q]
                    /\ q \in loaded' <=> q \in loaded
                    /\ fresh'[q] => fresh[q] /\ UNCHANGED tables
  BY DEF OthersUndisturbed
<1>1. CASE \/ AskCatalog(p) \/ AskStatus(p) \/ SyncReadConnections(p)
           \/ SyncReadCatalog(p) \/ CalendarsForgotten(p)
  BY <1>1 DEF AskCatalog, AskStatus, SyncReadConnections, SyncReadCatalog,
              CalendarsForgotten, Done, Goto, CalendarsTypeOK
<1>2. CASE LoadConnections(p) \/ LoadCatalog(p) \/ LoadSelected(p)
  BY <1>2 DEF LoadConnections, LoadCatalog, LoadSelected, Goto, CalendarsTypeOK
<1>3. CASE LoadDestination(p)
  <2> DEFINE h == [hand[p] EXCEPT !.maps.destination = destination]
  <2>1. /\ \/ Goto(p, "askProvider", h) /\ UNCHANGED <<memory, loaded>>
           \/ Proceed(p, AfterCatalog(h), h)
        /\ UNCHANGED <<tables, statusReport, fresh>>
    BY <1>3 DEF LoadDestination
  <2> HIDE DEF h
  <2> QED
    BY <2>1, ProceedOthers DEF Goto, CalendarsTypeOK
<1>4. CASE AskProvider(p)
  <2>1. PICK s \in Catalogs :
          IF s = NoOffer
          THEN Proceed(p, AfterCatalog(hand[p]), hand[p])
          ELSE /\ Goto(p, "syncConnections", [hand[p] EXCEPT !.offer = s])
               /\ UNCHANGED <<memory, loaded>>
    BY <1>4 DEF AskProvider
  <2>2. UNCHANGED <<tables, statusReport, fresh>>
    BY <1>4 DEF AskProvider
  <2>3. CASE s = NoOffer
    BY <2>1, <2>2, <2>3, ProceedOthers
  <2>4. CASE s # NoOffer
    BY <2>1, <2>2, <2>4 DEF Goto, CalendarsTypeOK
  <2> QED
    BY <2>3, <2>4
<1>5. CASE SeedConnection(p) \/ SeedCatalog(p) \/ SeedSelected(p) \/ SeedDestination(p)
           \/ BeginSeedDestination(p)
  BY <1>5 DEF SeedConnection, SeedCatalog, SeedSelected, SeedDestination,
              BeginSeedDestination, Seeded, Goto, Writes, CalendarsTypeOK
<1>6. CASE RereadConnections(p) \/ RereadSelected(p)
  BY <1>6 DEF RereadConnections, RereadSelected, Goto, CalendarsTypeOK
<1>7. CASE RereadCatalog(p) \/ RereadDestination(p)
  BY <1>7, ProceedOthers DEF RereadCatalog, RereadDestination
<1>8. CASE SyncWrite(p)
  <2> DEFINE offer == hand[p].offer
             lost  == Pruned(hand[p].seenConnections, DOMAIN offer.connections)
             gone  == Pruned(hand[p].seenCatalog, offer.calendars)
             ks    == SyncedConnections(offer, lost)
             cs    == {c \in (catalog \ gone) \cup offer.calendars :
                         ConnectionOf[c] \notin lost}
             h     == [hand[p] EXCEPT !.maps.connections = ks, !.maps.catalog = cs]
  <2>1. /\ IF h.then = "askStatus"
           THEN /\ memory' = [memory EXCEPT ![p] = SyncedMaps(@, ks, cs)]
                /\ Done(p, "askStatus")
                /\ UNCHANGED loaded
           ELSE Proceed(p, AfterCatalog(h), h)
        /\ Writes(p, TRUE)
        /\ UNCHANGED statusReport
    BY <1>8 DEF SyncWrite
  <2> HIDE DEF h, ks, cs
  <2>2. ~fresh'[q]
    BY <2>1 DEF Writes
  <2>3. CASE h.then = "askStatus"
    BY <2>1, <2>2, <2>3 DEF Done, Goto, CalendarsTypeOK
  <2>4. CASE h.then # "askStatus"
    BY <2>1, <2>2, <2>4, ProceedOthers
  <2> QED
    BY <2>3, <2>4
<1>9. CASE RefreshStatuses(p)
  BY <1>9 DEF RefreshStatuses, Done, Goto, Writes, CalendarsTypeOK
<1>10. ASSUME NEW c \in Calendars,
              SaveSelectedCalendar(p, c) \/ BeginDeleteSelectedCalendar(p, c)
              \/ BeginSetDestination(p, c)
       PROVE  /\ step'[q] = step[q]
              /\ hand'[q] = hand[q]
              /\ memory'[q] = memory[q]
              /\ statusReport'[q] = statusReport[q]
              /\ q \in loaded' <=> q \in loaded
              /\ fresh'[q] => fresh[q] /\ UNCHANGED tables
  BY <1>10 DEF SaveSelectedCalendar, BeginDeleteSelectedCalendar, BeginSetDestination,
               Goto, Writes, CalendarsTypeOK
<1>12. CASE DeleteSelectedCalendar(p)
  BY <1>12 DEF DeleteSelectedCalendar, Done, Goto, Writes, CalendarsTypeOK
<1>11. CASE SetDestinationCalendar(p) \/ ReadDestinationCalendar(p) \/ RequestFails(p)
  BY <1>11 DEF SetDestinationCalendar, ReadDestinationCalendar, RequestFails, Done, Goto,
               Writes, CalendarsTypeOK
<1> QED
  BY <1>1, <1>2, <1>3, <1>4, <1>5, <1>6, <1>7, <1>8, <1>9, <1>10, <1>11, <1>12
  DEF CalendarStep, CalendarStart, CalendarStatement, CalendarRequest

-----------------------------------------------------------------------------
(* The foreign keys *)

LEMMA ForeignKeysStep ==
    ASSUME CalendarsTypeOK, ForeignKeys, NEW p \in Procs, SeedInBounds(p), CalendarStep(p)
    PROVE  ForeignKeys'
<1>1. CASE UNCHANGED tables
  BY <1>1 DEF ForeignKeys, tables
<1>2. CASE SeedConnection(p)
  <2>1. Saved(connections[FixtureConnection], Active) # None
    BY SavedType, FixtureTypes, StatusAssumption DEF CalendarsTypeOK
  <2> QED
    BY <1>2, <2>1, FixtureTypes, CalendarAssumption
    DEF SeedConnection, ForeignKeys, CalendarsTypeOK
<1>3. CASE SeedCatalog(p)
  BY <1>3 DEF SeedCatalog, ForeignKeys
<1>4. CASE SeedSelected(p)
  BY <1>4 DEF SeedSelected, ForeignKeys
<1>5. CASE SeedDestination(p)
  BY <1>5 DEF SeedDestination, AcceptsDestination, ForeignKeys
<1>6. CASE SetDestinationCalendar(p)
  BY <1>6 DEF SetDestinationCalendar, AcceptsDestination, ForeignKeys
<1>7. ASSUME NEW c \in Calendars, SaveSelectedCalendar(p, c) PROVE ForeignKeys'
  BY <1>7 DEF SaveSelectedCalendar, ForeignKeys
<1>10. CASE DeleteSelectedCalendar(p)
  BY <1>10 DEF DeleteSelectedCalendar, ForeignKeys
<1>8. CASE RefreshStatuses(p)
  <2> DEFINE r == statusReport[p]
  <2>1. /\ connections' =
             [k \in Connections |->
                IF k \in DOMAIN r THEN Checked(connections[k], r[k])
                ELSE connections[k]]
        /\ \A k \in DOMAIN r : connections[k] # None
        /\ UNCHANGED <<catalog, selected, destination>>
        /\ transitions' =
             [k \in Connections |->
                IF k \in DOMAIN r THEN Transition(k, r[k]) ELSE transitions[k]]
    BY <1>8 DEF RefreshStatuses
  <2>2. \A k \in DOMAIN r : r[k] \in Statuses
    BY CalendarAssumption DEF NoReport, CalendarsTypeOK
  <2> HIDE DEF r
  <2>3. ASSUME NEW k \in Connections, connections[k] # None
        PROVE  connections'[k] # None
    <3>1. CASE k \in DOMAIN r
      <4>1. connections[k] \in StatusRows /\ r[k] \in Statuses
        BY <2>2, <2>3, <3>1 DEF CalendarsTypeOK
      <4>2. Checked(connections[k], r[k]) \in StatusRows
        BY <4>1, CheckedType
      <4> QED
        BY <2>1, <3>1, <4>2, StatusAssumption
    <3>2. CASE k \notin DOMAIN r
      BY <2>1, <2>3, <3>2
    <3> QED
      BY <3>1, <3>2
  <2>4. ASSUME NEW k \in Connections, transitions'[k] # None
        PROVE  connections'[k] # None
    BY <2>1, <2>3, <2>4 DEF ForeignKeys
  <2>5. \A c \in catalog : ConnectionOf[c] \in Connections
    BY CalendarAssumption DEF CalendarsTypeOK
  <2> QED
    BY <2>1, <2>3, <2>4, <2>5 DEF ForeignKeys
<1>9. CASE SyncWrite(p)
  <2> DEFINE offer == hand[p].offer
             lost  == Pruned(hand[p].seenConnections, DOMAIN offer.connections)
             gone  == Pruned(hand[p].seenCatalog, offer.calendars)
             ks    == SyncedConnections(offer, lost)
  <2>1. /\ connections' = ks
        /\ catalog' = {c \in (catalog \ gone) \cup offer.calendars :
                         ConnectionOf[c] \notin lost}
        /\ selected' = selected \ gone
        /\ destination' = IF destination \in gone THEN None ELSE destination
        /\ transitions' =
             [k \in Connections |->
                IF k \in lost THEN None
                ELSE IF (k \in hand[p].seenConnections /\ connections[k] # None)
                          /\ k \in DOMAIN offer.connections
                     THEN Transition(k, ks[k].status) ELSE transitions[k]]
    BY <1>9 DEF SyncWrite
  <2>2. /\ \A k \in DOMAIN offer.connections : offer.connections[k] \in Statuses
        /\ \A c \in offer.calendars : ConnectionOf[c] \in DOMAIN offer.connections
        /\ offer.calendars \subseteq Calendars
    <3>1. offer \in Catalogs \cup {NoOffer}
      BY DEF CalendarsTypeOK, Hands
    <3>2. CASE offer \in Catalogs
      BY <3>2, CalendarAssumption DEF ValidCatalog
    <3>3. CASE offer = NoOffer
      BY <3>3 DEF NoOffer, NoReport
    <3> QED
      BY <3>1, <3>2, <3>3
  <2>3. ASSUME NEW k \in Connections, k \in DOMAIN offer.connections
        PROVE  ks[k] # None
    <3> DEFINE reported == offer.connections[k]
    <3>1. ks[k] = Saved(connections[k], reported) /\ reported \in Statuses
      BY <2>2, <2>3 DEF SyncedConnections
    <3>2. connections[k] \in StatusRows \cup {None}
      BY DEF CalendarsTypeOK
    <3> HIDE DEF reported, ks
    <3> QED
      BY <3>1, <3>2, SavedType, StatusAssumption
  <2>4. ASSUME NEW k \in Connections, k \notin lost, connections[k] # None
        PROVE  ks[k] # None
    <3>1. CASE k \in DOMAIN offer.connections
      BY <2>3, <3>1
    <3>2. CASE k \notin DOMAIN offer.connections
      BY <2>4, <3>2 DEF SyncedConnections
    <3> QED
      BY <3>1, <3>2
  <2> HIDE DEF ks
  <2>5. ASSUME NEW c \in catalog' PROVE ks[ConnectionOf[c]] # None
    <3>1. ConnectionOf[c] \notin lost /\ c \in catalog \cup offer.calendars
      BY <2>1, <2>5
    <3>2. ConnectionOf[c] \in Connections
      BY <2>2, <3>1, CalendarAssumption DEF CalendarsTypeOK
    <3>3. CASE c \in catalog
      BY <2>4, <3>1, <3>2, <3>3 DEF ForeignKeys
    <3>4. CASE c \in offer.calendars
      BY <2>2, <2>3, <3>2, <3>4
    <3> QED
      BY <3>1, <3>3, <3>4
  <2>6. ASSUME NEW k \in Connections, transitions'[k] # None PROVE ks[k] # None
    <3>1. k \notin lost
      BY <2>1, <2>6
    <3>2. connections[k] # None
      BY <2>1, <2>6, <3>1 DEF ForeignKeys
    <3> QED
      BY <2>4, <3>1, <3>2
  <2>7. destination' \in selected' \cup {None}
    BY <2>1 DEF ForeignKeys
  <2> QED
    BY <2>1, <2>5, <2>6, <2>7 DEF ForeignKeys
<1> QED
  BY <1>1, <1>2, <1>3, <1>4, <1>5, <1>6, <1>7, <1>8, <1>9, <1>10
  DEF CalendarStep, CalendarStart, CalendarStatement, CalendarRequest, AskCatalog,
      AskStatus, SyncReadConnections, SyncReadCatalog, LoadConnections, LoadCatalog,
      LoadSelected, LoadDestination, AskProvider, RereadConnections, RereadCatalog,
      BeginSeedDestination, RereadSelected, RereadDestination, BeginSetDestination,
      BeginDeleteSelectedCalendar, ReadDestinationCalendar, RequestFails,
      CalendarsForgotten

-----------------------------------------------------------------------------
(* What a process that nobody has outdated knows *)

\* Steps at which the maps in hand have the connections, the catalog, the
\* selection; and those before the selection is seeded, at which none is made.
ConnectionsRead ==
    {"readCatalog", "readSelected", "readDestination", "askProvider", "rereadCatalog",
     "seedSelected", "seedDestination", "writeSeedDestination", "rereadSelected",
     "rereadDestination"}
CatalogRead ==
    {"readSelected", "readDestination", "askProvider", "seedSelected", "seedDestination",
     "writeSeedDestination", "rereadSelected", "rereadDestination"}
NothingSeeded ==
    {"askProvider", "seedConnection", "seedCatalog", "rereadConnections", "rereadCatalog"}
SelectedRead == NothingSeeded \cup {"readDestination", "rereadDestination"}

\* The steps of a process that has loaded and serves.
Served == {"idle", "writeDestination", "deleteSelection"}

\* p synchronizes the catalog within a load.
LoadSyncs(p) ==
    step[p] \in {"syncConnections", "syncCatalog", "syncWrite"} /\ hand[p].then # "askStatus"

\* What p has read is what the tables hold.
LoadIsCurrent(p) ==
    LET m == hand[p].maps
    IN  /\ step[p] \in ConnectionsRead => m.connections = connections
        /\ step[p] \in CatalogRead => m.catalog = catalog
        /\ step[p] \in SelectedRead \/ LoadSyncs(p) => m.selected = selected
        /\ step[p] \in NothingSeeded \/ LoadSyncs(p) => m.destination = destination
        /\ At(p, "askProvider") \/ LoadSyncs(p) => catalog = {}
        /\ At(p, "seedConnection") => Existing(connections) = {}
        /\ step[p] \in {"syncCatalog", "syncWrite"} =>
              hand[p].seenConnections = Existing(connections)
        /\ At(p, "syncWrite") => hand[p].seenCatalog = catalog
        /\ At(p, "deleteSelection") => m.destination = destination
        /\ At(p, "seedSelected") =>
              /\ selected = {FixtureCalendars[i] : i \in 1 .. hand[p].seeded}
              /\ destination = None

\* A start that got a report goes on to a load, and ends with what was reported.
Reported(p) ==
    /\ step[p] \notin StartSteps /\ hand[p].then = "idle" /\ DOMAIN statusReport[p] # {}
          => p \in loaded
    /\ fresh[p] /\ p \in loaded /\ step[p] \in Served =>
          \A k \in DOMAIN statusReport[p] :
              connections[k] =
                  [status |-> statusReport[p][k], code |-> statusReport[p][k]]

\* The invariant of one process.
ProcessInv(p) ==
    /\ SeedInBounds(p)
    /\ p \in loaded => step[p] \in Served \cup {"refresh"}
    /\ step[p] \in {"refresh", "writeDestination", "deleteSelection"} => p \in loaded
    /\ step[p] \in Steps \ {"syncConnections", "syncCatalog", "syncWrite"} =>
          hand[p].then # "askStatus"
    /\ step[p] \in Served => hand[p].then = "idle"
    /\ fresh[p] => LoadIsCurrent(p)
    /\ fresh[p] /\ p \in loaded => memory[p] = Tables
    /\ Reported(p)

CalendarInv ==
    /\ CalendarsTypeOK
    /\ ForeignKeys
    /\ \A p \in Procs : ProcessInv(p)

\* A step of p leaves the invariant of the others.
LEMMA OthersInv ==
    ASSUME NEW p \in Procs, NEW q \in Procs \ {p}, OthersUndisturbed(p), ProcessInv(q)
    PROVE  ProcessInv(q)'
<1>1. /\ step'[q] = step[q]
      /\ hand'[q] = hand[q]
      /\ memory'[q] = memory[q]
      /\ statusReport'[q] = statusReport[q]
      /\ q \in loaded' <=> q \in loaded
      /\ fresh'[q] => fresh[q] /\ UNCHANGED tables
  BY DEF OthersUndisturbed
<1>2. SeedInBounds(q)'
  BY <1>1 DEF ProcessInv, SeedInBounds, At
<1>3. fresh'[q] => LoadIsCurrent(q)'
  BY <1>1 DEF ProcessInv, LoadIsCurrent, LoadSyncs, Existing, At, tables
<1>4. fresh'[q] /\ q \in loaded' => memory'[q] = Tables'
  BY <1>1 DEF ProcessInv, Tables, tables
<1>5. Reported(q)'
  BY <1>1 DEF ProcessInv, Reported, tables
<1> QED
  BY <1>1, <1>2, <1>3, <1>4, <1>5 DEF ProcessInv

\* Maps are equal when their fields are.
LEMMA MapsAreTables ==
    ASSUME NEW m \in Maps, m.connections = connections, m.catalog = catalog,
           m.selected = selected, m.destination = destination
    PROVE  m = Tables
BY DEF Maps, Tables

\* The end of a load, or its seeding.
LEMMA ProceedInv ==
    ASSUME CalendarsTypeOK, CalendarsTypeOK', NEW p \in Procs, ProcessInv(p), p \notin loaded,
           NEW h \in Hands, NEW s \in {"loaded", "seedConnection", "seedSelected"},
           Proceed(p, s, h), UNCHANGED statusReport,
           h.seeded = 0, h.then # "askStatus", hand[p].then = h.then,
           step[p] \notin StartSteps,
           fresh'[p] => h.maps = Tables',
           s = "seedConnection" => NoCatalogRead(h.maps),
           s = "seedSelected" => NothingSelected(h.maps)
    PROVE  ProcessInv(p)'
<1>1. h.then \in {"refresh", "idle"}
  BY HandTypes
<1>2. CASE s = "loaded"
  <2>1. /\ step'[p] = h.then
        /\ hand'[p] = NothingRead
        /\ memory'[p] = h.maps
        /\ p \in loaded'
    BY <1>2 DEF Proceed, Done, Goto, CalendarsTypeOK
  <2>2. SeedInBounds(p)'
    BY <1>1, <2>1, EmptyTypes DEF SeedInBounds, At
  <2>3. LoadIsCurrent(p)'
    BY <1>1, <2>1
    DEF LoadIsCurrent, Served, LoadSyncs, ConnectionsRead, CatalogRead, SelectedRead,
        NothingSeeded, At
  <2>4. Reported(p)'
    <3>1. CASE h.then = "refresh"
      BY <2>1, <3>1 DEF Reported, StartSteps, Served
    <3>2. CASE h.then = "idle"
      <4>1. DOMAIN statusReport[p] = {}
        BY <3>2 DEF ProcessInv, Reported
      <4> QED
        BY <2>1, <4>1 DEF Reported
    <3> QED
      BY <1>1, <3>1, <3>2
  <2> QED
    BY <1>1, <2>1, <2>2, <2>3, <2>4, EmptyTypes DEF ProcessInv, Served
<1>3. CASE s # "loaded"
  <2>1. /\ step'[p] = s
        /\ hand'[p] = h
        /\ p \notin loaded'
    BY <1>3 DEF Proceed, Goto, CalendarsTypeOK
  <2>2. SeedInBounds(p)'
    BY <1>3, <2>1, FixtureTypes DEF SeedInBounds, At
  <2>3. fresh'[p] => LoadIsCurrent(p)'
    <3>1. SUFFICES ASSUME fresh'[p] PROVE LoadIsCurrent(p)'
      OBVIOUS
    <3>2. /\ h.maps.connections = connections'
          /\ h.maps.catalog = catalog'
          /\ h.maps.selected = selected'
          /\ h.maps.destination = destination'
      BY <3>1 DEF Tables
    <3>3. CASE s = "seedConnection"
      BY <2>1, <3>2, <3>3
      DEF LoadIsCurrent, Served, LoadSyncs, ConnectionsRead, CatalogRead, SelectedRead,
          NothingSeeded, At, NoCatalogRead, Existing
    <3>4. CASE s = "seedSelected"
      <4>1. {FixtureCalendars[i] : i \in 1 .. 0} = {}
        OBVIOUS
      <4> QED
        BY <2>1, <3>2, <3>4, <4>1
        DEF LoadIsCurrent, Served, LoadSyncs, ConnectionsRead, CatalogRead, SelectedRead,
            NothingSeeded, At, NothingSelected
    <3> QED
      BY <1>3, <3>3, <3>4
  <2>4. Reported(p)'
    BY <1>3, <2>1 DEF ProcessInv, Reported, StartSteps
  <2> QED
    BY <1>3, <2>1, <2>2, <2>3, <2>4 DEF ProcessInv, Served
<1> QED
  BY <1>2, <1>3

\* The statements of a load.
LEMMA LoadInv ==
    ASSUME CalendarsTypeOK, CalendarsTypeOK', ForeignKeys, NEW p \in Procs, ProcessInv(p),
           LoadConnections(p) \/ LoadCatalog(p) \/ LoadSelected(p) \/ LoadDestination(p)
    PROVE  ProcessInv(p)'
<1> USE DEF LoadSyncs, ConnectionsRead, CatalogRead, SelectedRead, NothingSeeded, At,
            StartSteps, Served
<1>1. CASE LoadConnections(p)
  <2> DEFINE then == IF At(p, "load") THEN "refresh" ELSE "idle"
             h == [NothingRead EXCEPT !.maps.connections = connections, !.then = then]
  <2>1. /\ step'[p] = "readCatalog"
        /\ hand'[p] = h
        /\ p \notin loaded'
        /\ UNCHANGED <<tables, statusReport, fresh>>
    BY <1>1 DEF LoadConnections, Goto, CalendarsTypeOK
  <2>2. h.seeded = 0 /\ h.then = then /\ h.maps.connections = connections
    BY EmptyTypes DEF NothingRead, EmptyMaps
  <2>3. then \in {"refresh", "idle"}
    OBVIOUS
  <2>4. Reported(p)'
    <3>1. CASE At(p, "load")
      BY <2>1, <2>2, <3>1 DEF Reported
    <3>2. CASE ~At(p, "load")
      BY <1>1, <2>1, <2>2, <3>2 DEF LoadConnections, ProcessInv, Reported
    <3> QED
      BY <3>1, <3>2
  <2> HIDE DEF h, then
  <2>5. SeedInBounds(p)'
    BY <2>1, <2>2 DEF SeedInBounds
  <2>6. fresh'[p] => LoadIsCurrent(p)'
    BY <2>1, <2>2 DEF LoadIsCurrent, tables
  <2> QED
    BY <2>1, <2>2, <2>3, <2>4, <2>5, <2>6 DEF ProcessInv
<1>2. CASE LoadCatalog(p)
  <2> DEFINE h == [hand[p] EXCEPT !.maps.catalog = catalog]
  <2>1. /\ step[p] = "readCatalog" /\ step'[p] = "readSelected"
        /\ hand'[p] = h
        /\ UNCHANGED <<tables, loaded, statusReport, fresh>>
    BY <1>2 DEF LoadCatalog, Goto, CalendarsTypeOK
  <2>2. /\ h.seeded = hand[p].seeded /\ h.then = hand[p].then
        /\ h.maps.connections = hand[p].maps.connections /\ h.maps.catalog = catalog
    <3>1. hand[p] \in Hands
      BY DEF CalendarsTypeOK
    <3> QED
      BY <3>1 DEF Hands, Maps
  <2> HIDE DEF h
  <2>3. Reported(p)'
    BY <2>1, <2>2 DEF Reported, ProcessInv
  <2>4. SeedInBounds(p)'
    BY <2>1, <2>2 DEF SeedInBounds, ProcessInv
  <2>5. fresh'[p] => LoadIsCurrent(p)'
    BY <2>1, <2>2 DEF LoadIsCurrent, ProcessInv, tables
  <2> QED
    BY <2>1, <2>2, <2>3, <2>4, <2>5 DEF ProcessInv, Steps
<1>3. CASE LoadSelected(p)
  <2> DEFINE h == [hand[p] EXCEPT !.maps.selected = selected]
  <2>1. /\ step[p] = "readSelected" /\ step'[p] = "readDestination"
        /\ hand'[p] = h
        /\ UNCHANGED <<tables, loaded, statusReport, fresh>>
    BY <1>3 DEF LoadSelected, Goto, CalendarsTypeOK
  <2>2. /\ h.seeded = hand[p].seeded /\ h.then = hand[p].then
        /\ h.maps.connections = hand[p].maps.connections
        /\ h.maps.catalog = hand[p].maps.catalog /\ h.maps.selected = selected
    <3>1. hand[p] \in Hands
      BY DEF CalendarsTypeOK
    <3> QED
      BY <3>1 DEF Hands, Maps
  <2> HIDE DEF h
  <2>3. Reported(p)'
    BY <2>1, <2>2 DEF Reported, ProcessInv
  <2>4. SeedInBounds(p)'
    BY <2>1, <2>2 DEF SeedInBounds, ProcessInv
  <2>5. fresh'[p] => LoadIsCurrent(p)'
    BY <2>1, <2>2 DEF LoadIsCurrent, ProcessInv, tables
  <2> QED
    BY <2>1, <2>2, <2>3, <2>4, <2>5 DEF ProcessInv, Steps
<1>4. CASE LoadDestination(p)
  <2> DEFINE h == [hand[p] EXCEPT !.maps.destination = destination]
  <2>1. /\ step[p] = "readDestination"
        /\ UNCHANGED <<tables, statusReport, fresh>>
        /\ IF Existing(h.maps.connections) = {} \/ h.maps.catalog = {}
           THEN Goto(p, "askProvider", h) /\ UNCHANGED <<memory, loaded>>
           ELSE Proceed(p, AfterCatalog(h), h)
    BY <1>4 DEF LoadDestination
  <2>2. /\ h.seeded = hand[p].seeded /\ h.then = hand[p].then
        /\ h.maps.connections = hand[p].maps.connections
        /\ h.maps.catalog = hand[p].maps.catalog
        /\ h.maps.selected = hand[p].maps.selected /\ h.maps.destination = destination
    <3>1. hand[p] \in Hands
      BY DEF CalendarsTypeOK
    <3> QED
      BY <3>1 DEF Hands, Maps
  <2>3. h \in Hands
    BY HandTypes DEF CalendarsTypeOK
  <2> HIDE DEF h
  <2>4. h.then # "askStatus" /\ h.seeded = 0 /\ p \notin loaded
    BY <2>1, <2>2 DEF ProcessInv, SeedInBounds, Steps
  <2>5. fresh'[p] => h.maps = Tables'
    <3>1. SUFFICES ASSUME fresh[p] PROVE h.maps = Tables
      BY <2>1 DEF Tables, tables
    <3>2. /\ h.maps.connections = connections
          /\ h.maps.catalog = catalog
          /\ h.maps.selected = selected
      BY <2>1, <2>2, <3>1 DEF ProcessInv, LoadIsCurrent
    <3> QED
      BY <2>2, <2>3, <3>2, HandTypes, MapsAreTables
  <2>6. CASE /\ Goto(p, "askProvider", h) /\ UNCHANGED <<memory, loaded>>
             /\ Existing(h.maps.connections) = {} \/ h.maps.catalog = {}
    <3>1. /\ step'[p] = "askProvider"
          /\ hand'[p] = h
          /\ p \notin loaded'
      BY <2>4, <2>6 DEF Goto, CalendarsTypeOK
    <3>2. Reported(p)'
      BY <2>1, <2>2, <3>1 DEF Reported, ProcessInv
    <3>3. SeedInBounds(p)'
      BY <2>4, <3>1 DEF SeedInBounds
    <3>4. fresh'[p] => LoadIsCurrent(p)'
      <4>1. fresh'[p] => catalog = {}
        <5>1. Existing(connections) = {} => catalog = {}
          BY CalendarAssumption DEF ForeignKeys, Existing, CalendarsTypeOK
        <5> QED
          BY <2>1, <2>5, <2>6, <5>1 DEF Tables, tables
      <4> QED
        BY <2>1, <2>5, <3>1, <4>1 DEF LoadIsCurrent, Tables, tables
    <3> QED
      BY <2>4, <3>1, <3>2, <3>3, <3>4 DEF ProcessInv
  <2>7. CASE Proceed(p, AfterCatalog(h), h)
    <3> DEFINE s == AfterCatalog(h)
    <3>1. /\ s \in {"loaded", "seedConnection", "seedSelected"}
          /\ s = "seedConnection" => NoCatalogRead(h.maps)
          /\ s = "seedSelected" => NothingSelected(h.maps)
      BY DEF AfterCatalog
    <3> HIDE DEF s
    <3>2. step[p] \notin StartSteps
      BY <2>1
    <3>3. Proceed(p, s, h)
      BY <2>7 DEF s
    <3> QED
      BY <2>1, <2>2, <2>3, <2>4, <2>5, <3>1, <3>2, <3>3, ProceedInv
  <2> QED
    BY <2>1, <2>6, <2>7
<1> QED
  BY <1>1, <1>2, <1>3, <1>4

\* The seeding: the tables hold what was saved so far.
LEMMA SeedInv ==
    ASSUME CalendarsTypeOK, CalendarsTypeOK', NEW p \in Procs, ProcessInv(p),
           \/ SeedConnection(p) \/ SeedCatalog(p) \/ SeedSelected(p)
           \/ BeginSeedDestination(p) \/ SeedDestination(p)
    PROVE  ProcessInv(p)'
<1> USE DEF LoadSyncs, ConnectionsRead, CatalogRead, SelectedRead, NothingSeeded, At,
            StartSteps, Served
<1>1. CASE SeedConnection(p)
  <2>1. /\ step[p] = "seedConnection" /\ step'[p] = "seedCatalog"
        /\ hand'[p] = hand[p]
        /\ fresh'[p] = fresh[p]
        /\ UNCHANGED <<selected, destination, loaded, statusReport>>
    BY <1>1 DEF SeedConnection, Goto, Writes, CalendarsTypeOK
  <2>2. SeedInBounds(p)'
    BY <2>1, FixtureTypes DEF SeedInBounds, ProcessInv
  <2>3. fresh'[p] => LoadIsCurrent(p)'
    BY <2>1 DEF LoadIsCurrent, ProcessInv
  <2>4. Reported(p)'
    BY <2>1 DEF Reported, ProcessInv
  <2> QED
    BY <2>1, <2>2, <2>3, <2>4 DEF ProcessInv, Steps
<1>2. CASE SeedCatalog(p)
  <2>1. /\ step[p] = "seedCatalog"
        /\ fresh'[p] = fresh[p]
        /\ UNCHANGED <<selected, destination, loaded, statusReport>>
        /\ Seeded(p, "seedCatalog", Len(FixtureCalendars), "rereadConnections")
    BY <1>2 DEF SeedCatalog, Writes, CalendarsTypeOK
  <2>2. hand[p] \in Hands /\ hand[p].seeded \in Nat
    BY DEF CalendarsTypeOK, Hands
  <2>3. hand'[p].maps = hand[p].maps /\ hand'[p].then = hand[p].then
    BY <2>1, <2>2 DEF Seeded, Goto, CalendarsTypeOK, Hands
  <2>4. \/ step'[p] = "rereadConnections" /\ hand'[p].seeded = 0
        \/ /\ step'[p] = "seedCatalog" /\ hand'[p].seeded = hand[p].seeded + 1
           /\ hand[p].seeded + 1 # Len(FixtureCalendars)
    BY <2>1, <2>2 DEF Seeded, Goto, CalendarsTypeOK, Hands
  <2>5. SeedInBounds(p)'
    BY <2>1, <2>2, <2>4, FixtureTypes DEF SeedInBounds, ProcessInv
  <2>6. fresh'[p] => LoadIsCurrent(p)'
    BY <2>1, <2>3, <2>4 DEF LoadIsCurrent, ProcessInv
  <2>7. Reported(p)'
    BY <2>1, <2>3, <2>4 DEF Reported, ProcessInv
  <2> QED
    BY <2>1, <2>3, <2>4, <2>5, <2>6, <2>7 DEF ProcessInv, Steps
<1>3. CASE SeedSelected(p)
  <2>1. /\ step[p] = "seedSelected"
        /\ fresh'[p] = fresh[p]
        /\ selected' = selected \cup {NextSeed(p)}
        /\ UNCHANGED <<connections, catalog, destination, loaded, statusReport>>
        /\ Seeded(p, "seedSelected", SelectedFixtures, "seedDestination")
    BY <1>3 DEF SeedSelected, Writes, CalendarsTypeOK
  <2>2. hand[p] \in Hands /\ hand[p].seeded \in Nat
    BY DEF CalendarsTypeOK, Hands
  <2>3. hand'[p].maps = hand[p].maps /\ hand'[p].then = hand[p].then
    BY <2>1, <2>2 DEF Seeded, Goto, CalendarsTypeOK, Hands
  <2>4. \/ step'[p] = "seedDestination" /\ hand'[p].seeded = 0
        \/ /\ step'[p] = "seedSelected" /\ hand'[p].seeded = hand[p].seeded + 1
           /\ hand[p].seeded + 1 # SelectedFixtures
    BY <2>1, <2>2 DEF Seeded, Goto, CalendarsTypeOK, Hands
  <2>5. SeedInBounds(p)'
    BY <2>1, <2>2, <2>4, FixtureTypes DEF SeedInBounds, ProcessInv
  <2>6. fresh'[p] => LoadIsCurrent(p)'
    <3>1. fresh[p] => /\ hand[p].maps.connections = connections
                      /\ hand[p].maps.catalog = catalog
                      /\ selected = {FixtureCalendars[i] : i \in 1 .. hand[p].seeded}
                      /\ destination = None
      BY <2>1 DEF ProcessInv, LoadIsCurrent
    <3>2. CASE step'[p] = "seedDestination"
      BY <2>1, <2>3, <3>1, <3>2 DEF LoadIsCurrent
    <3>3. CASE step'[p] = "seedSelected" /\ hand'[p].seeded = hand[p].seeded + 1
      <4>1. 1 .. (hand[p].seeded + 1) = (1 .. hand[p].seeded) \cup {hand[p].seeded + 1}
        BY <2>2
      <4>2. {FixtureCalendars[i] : i \in 1 .. (hand[p].seeded + 1)} =
              {FixtureCalendars[i] : i \in 1 .. hand[p].seeded} \cup {NextSeed(p)}
        BY <4>1 DEF NextSeed
      <4>3. fresh[p] => selected' = {FixtureCalendars[i] : i \in 1 .. hand'[p].seeded}
        BY <2>1, <3>1, <3>3, <4>2
      <4> QED
        BY <2>1, <2>3, <3>1, <3>3, <4>3 DEF LoadIsCurrent
    <3> QED
      BY <2>4, <3>2, <3>3
  <2>7. Reported(p)'
    BY <2>1, <2>3, <2>4 DEF Reported, ProcessInv
  <2> QED
    BY <2>1, <2>3, <2>4, <2>5, <2>6, <2>7 DEF ProcessInv, Steps
<1>4. CASE BeginSeedDestination(p)
  <2>1. /\ step[p] = "seedDestination" /\ step'[p] = "writeSeedDestination"
        /\ hand'[p] = hand[p]
        /\ UNCHANGED <<tables, loaded, statusReport, fresh>>
    BY <1>4 DEF BeginSeedDestination, Goto, CalendarsTypeOK
  <2>2. SeedInBounds(p)'
    BY <2>1 DEF SeedInBounds, ProcessInv
  <2>3. fresh'[p] => LoadIsCurrent(p)'
    BY <2>1 DEF LoadIsCurrent, ProcessInv, tables
  <2>4. Reported(p)'
    BY <2>1 DEF Reported, ProcessInv
  <2> QED
    BY <2>1, <2>2, <2>3, <2>4 DEF ProcessInv, Steps
<1>5. CASE SeedDestination(p)
  <2>1. /\ step[p] = "writeSeedDestination" /\ step'[p] = "rereadSelected"
        /\ hand'[p] = hand[p]
        /\ fresh'[p] = fresh[p]
        /\ UNCHANGED <<connections, catalog, selected, loaded, statusReport>>
    BY <1>5 DEF SeedDestination, Goto, Writes, CalendarsTypeOK
  <2>2. SeedInBounds(p)'
    BY <2>1 DEF SeedInBounds, ProcessInv
  <2>3. fresh'[p] => LoadIsCurrent(p)'
    BY <2>1 DEF LoadIsCurrent, ProcessInv
  <2>4. Reported(p)'
    BY <2>1 DEF Reported, ProcessInv
  <2> QED
    BY <2>1, <2>2, <2>3, <2>4 DEF ProcessInv, Steps
<1> QED
  BY <1>1, <1>2, <1>3, <1>4, <1>5

\* What was seeded is read again.
LEMMA RereadInv ==
    ASSUME CalendarsTypeOK, CalendarsTypeOK', NEW p \in Procs, ProcessInv(p),
           \/ RereadConnections(p) \/ RereadCatalog(p)
           \/ RereadSelected(p) \/ RereadDestination(p)
    PROVE  ProcessInv(p)'
<1> USE DEF LoadSyncs, ConnectionsRead, CatalogRead, SelectedRead, NothingSeeded, At,
            StartSteps, Served
<1>0. hand[p] \in Hands
  BY DEF CalendarsTypeOK
<1>1. CASE RereadConnections(p)
  <2> DEFINE h == [hand[p] EXCEPT !.maps.connections = connections]
  <2>1. /\ step[p] = "rereadConnections" /\ step'[p] = "rereadCatalog"
        /\ hand'[p] = h
        /\ UNCHANGED <<tables, loaded, statusReport, fresh>>
    BY <1>1 DEF RereadConnections, Goto, CalendarsTypeOK
  <2>2. /\ h.seeded = hand[p].seeded /\ h.then = hand[p].then
        /\ h.maps.selected = hand[p].maps.selected
        /\ h.maps.destination = hand[p].maps.destination
        /\ h.maps.connections = connections
    BY <1>0 DEF Hands, Maps
  <2> HIDE DEF h
  <2>3. Reported(p)'
    BY <2>1, <2>2 DEF Reported, ProcessInv
  <2>4. SeedInBounds(p)'
    BY <2>1, <2>2 DEF SeedInBounds, ProcessInv
  <2>5. fresh'[p] => LoadIsCurrent(p)'
    BY <2>1, <2>2 DEF LoadIsCurrent, ProcessInv, tables
  <2> QED
    BY <2>1, <2>2, <2>3, <2>4, <2>5 DEF ProcessInv, Steps
<1>2. CASE RereadCatalog(p)
  <2> DEFINE h == [hand[p] EXCEPT !.maps.catalog = catalog]
             s == IF NothingSelected(h.maps) THEN "seedSelected" ELSE "loaded"
  <2>1. /\ step[p] = "rereadCatalog"
        /\ UNCHANGED <<tables, statusReport, fresh>>
        /\ Proceed(p, s, h)
    BY <1>2 DEF RereadCatalog
  <2>2. /\ h.seeded = hand[p].seeded /\ h.then = hand[p].then
        /\ h.maps.connections = hand[p].maps.connections
        /\ h.maps.selected = hand[p].maps.selected
        /\ h.maps.destination = hand[p].maps.destination
        /\ h.maps.catalog = catalog
    BY <1>0 DEF Hands, Maps
  <2>3. h \in Hands
    BY <1>0, HandTypes DEF CalendarsTypeOK
  <2>4. /\ s \in {"loaded", "seedConnection", "seedSelected"} /\ s # "seedConnection"
        /\ s = "seedSelected" => NothingSelected(h.maps)
    OBVIOUS
  <2> HIDE DEF h, s
  <2>5. h.then # "askStatus" /\ h.seeded = 0 /\ p \notin loaded
    BY <2>1, <2>2 DEF ProcessInv, SeedInBounds, Steps
  <2>6. fresh'[p] => h.maps = Tables'
    <3>1. SUFFICES ASSUME fresh[p] PROVE h.maps = Tables
      BY <2>1 DEF Tables, tables
    <3>2. /\ h.maps.connections = connections
          /\ h.maps.selected = selected
          /\ h.maps.destination = destination
      BY <2>1, <2>2, <3>1 DEF ProcessInv, LoadIsCurrent
    <3> QED
      BY <2>2, <2>3, <3>2, HandTypes, MapsAreTables
  <2>7. step[p] \notin StartSteps
    BY <2>1
  <2> QED
    BY <2>1, <2>2, <2>3, <2>4, <2>5, <2>6, <2>7, ProceedInv
<1>3. CASE RereadSelected(p)
  <2> DEFINE h == [hand[p] EXCEPT !.maps.selected = selected]
  <2>1. /\ step[p] = "rereadSelected" /\ step'[p] = "rereadDestination"
        /\ hand'[p] = h
        /\ UNCHANGED <<tables, loaded, statusReport, fresh>>
    BY <1>3 DEF RereadSelected, Goto, CalendarsTypeOK
  <2>2. /\ h.seeded = hand[p].seeded /\ h.then = hand[p].then
        /\ h.maps.connections = hand[p].maps.connections
        /\ h.maps.catalog = hand[p].maps.catalog
        /\ h.maps.selected = selected
    BY <1>0 DEF Hands, Maps
  <2> HIDE DEF h
  <2>3. Reported(p)'
    BY <2>1, <2>2 DEF Reported, ProcessInv
  <2>4. SeedInBounds(p)'
    BY <2>1, <2>2 DEF SeedInBounds, ProcessInv
  <2>5. fresh'[p] => LoadIsCurrent(p)'
    BY <2>1, <2>2 DEF LoadIsCurrent, ProcessInv, tables
  <2> QED
    BY <2>1, <2>2, <2>3, <2>4, <2>5 DEF ProcessInv, Steps
<1>4. CASE RereadDestination(p)
  <2> DEFINE h == [hand[p] EXCEPT !.maps.destination = destination]
  <2>1. /\ step[p] = "rereadDestination"
        /\ UNCHANGED <<tables, statusReport, fresh>>
        /\ Proceed(p, "loaded", h)
    BY <1>4 DEF RereadDestination
  <2>2. /\ h.seeded = hand[p].seeded /\ h.then = hand[p].then
        /\ h.maps.connections = hand[p].maps.connections
        /\ h.maps.catalog = hand[p].maps.catalog
        /\ h.maps.selected = hand[p].maps.selected
        /\ h.maps.destination = destination
    BY <1>0 DEF Hands, Maps
  <2>3. h \in Hands
    BY <1>0, HandTypes DEF CalendarsTypeOK
  <2> HIDE DEF h
  <2>5. h.then # "askStatus" /\ h.seeded = 0 /\ p \notin loaded
    BY <2>1, <2>2 DEF ProcessInv, SeedInBounds, Steps
  <2>6. fresh'[p] => h.maps = Tables'
    <3>1. SUFFICES ASSUME fresh[p] PROVE h.maps = Tables
      BY <2>1 DEF Tables, tables
    <3>2. /\ h.maps.connections = connections
          /\ h.maps.catalog = catalog
          /\ h.maps.selected = selected
      BY <2>1, <2>2, <3>1 DEF ProcessInv, LoadIsCurrent
    <3> QED
      BY <2>2, <2>3, <3>2, HandTypes, MapsAreTables
  <2>7. step[p] \notin StartSteps
    BY <2>1
  <2> QED
    BY <2>1, <2>2, <2>3, <2>5, <2>6, <2>7, ProceedInv
<1> QED
  BY <1>1, <1>2, <1>3, <1>4

\* The synchronization of the catalog, at the start or in a load.
LEMMA SyncInv ==
    ASSUME CalendarsTypeOK, CalendarsTypeOK', NEW p \in Procs, ProcessInv(p),
           \/ AskCatalog(p) \/ SyncReadConnections(p) \/ SyncReadCatalog(p)
           \/ SyncWrite(p) \/ AskProvider(p)
    PROVE  ProcessInv(p)'
<1> USE DEF LoadSyncs, ConnectionsRead, CatalogRead, SelectedRead, NothingSeeded, At,
            StartSteps, Served
<1>0. hand[p] \in Hands
  BY DEF CalendarsTypeOK
<1>1. CASE AskCatalog(p)
  <2>1. PICK s \in Catalogs :
          Goto(p, "syncConnections", [NothingRead EXCEPT !.offer = s, !.then = "askStatus"])
    BY <1>1 DEF AskCatalog
  <2>2. /\ step[p] = "askCatalog" /\ step'[p] = "syncConnections"
        /\ hand'[p].seeded = 0 /\ hand'[p].then = "askStatus"
        /\ UNCHANGED loaded
    BY <1>1, <2>1 DEF AskCatalog, Goto, CalendarsTypeOK, NothingRead
  <2> QED
    BY <2>2 DEF ProcessInv, SeedInBounds, LoadIsCurrent, Reported
<1>2. CASE SyncReadConnections(p)
  <2> DEFINE h == [hand[p] EXCEPT !.seenConnections = Existing(connections)]
  <2>1. /\ step[p] = "syncConnections" /\ step'[p] = "syncCatalog"
        /\ hand'[p] = h
        /\ UNCHANGED <<tables, loaded, memory, statusReport, fresh>>
    BY <1>2 DEF SyncReadConnections, Goto, CalendarsTypeOK
  <2>2. /\ h.seeded = hand[p].seeded /\ h.then = hand[p].then /\ h.maps = hand[p].maps
        /\ h.seenConnections = Existing(connections)
    BY <1>0 DEF Hands
  <2> HIDE DEF h
  <2>3. Reported(p)'
    BY <2>1, <2>2 DEF Reported, ProcessInv
  <2>4. SeedInBounds(p)'
    BY <2>1, <2>2 DEF SeedInBounds, ProcessInv
  <2>5. fresh'[p] => LoadIsCurrent(p)'
    BY <2>1, <2>2 DEF LoadIsCurrent, ProcessInv, tables, Existing
  <2> QED
    BY <2>1, <2>2, <2>3, <2>4, <2>5 DEF ProcessInv
<1>5. CASE SyncReadCatalog(p)
  <2> DEFINE h == [hand[p] EXCEPT !.seenCatalog = catalog]
  <2>1. /\ step[p] = "syncCatalog" /\ step'[p] = "syncWrite"
        /\ hand'[p] = h
        /\ UNCHANGED <<tables, loaded, memory, statusReport, fresh>>
    BY <1>5 DEF SyncReadCatalog, Goto, CalendarsTypeOK
  <2>2. /\ h.seeded = hand[p].seeded /\ h.then = hand[p].then /\ h.maps = hand[p].maps
        /\ h.seenConnections = hand[p].seenConnections /\ h.seenCatalog = catalog
    BY <1>0 DEF Hands
  <2> HIDE DEF h
  <2>3. Reported(p)'
    BY <2>1, <2>2 DEF Reported, ProcessInv
  <2>4. SeedInBounds(p)'
    BY <2>1, <2>2 DEF SeedInBounds, ProcessInv
  <2>5. fresh'[p] => LoadIsCurrent(p)'
    BY <2>1, <2>2 DEF LoadIsCurrent, ProcessInv, tables, Existing
  <2> QED
    BY <2>1, <2>2, <2>3, <2>4, <2>5 DEF ProcessInv
<1>3. CASE SyncWrite(p)
  <2> DEFINE offer == hand[p].offer
             lost  == Pruned(hand[p].seenConnections, DOMAIN offer.connections)
             gone  == Pruned(hand[p].seenCatalog, offer.calendars)
             ks    == SyncedConnections(offer, lost)
             cs    == {c \in (catalog \ gone) \cup offer.calendars :
                         ConnectionOf[c] \notin lost}
             h     == [hand[p] EXCEPT !.maps.connections = ks, !.maps.catalog = cs]
  <2>1. /\ step[p] = "syncWrite"
        /\ IF h.then = "askStatus"
           THEN /\ memory' = [memory EXCEPT ![p] = SyncedMaps(@, ks, cs)]
                /\ Done(p, "askStatus")
                /\ UNCHANGED loaded
           ELSE Proceed(p, AfterCatalog(h), h)
        /\ fresh'[p] = fresh[p]
        /\ UNCHANGED statusReport
    BY <1>3 DEF SyncWrite, Writes, CalendarsTypeOK
  <2>2. /\ connections' = ks /\ catalog' = cs
        /\ selected' = selected \ gone
        /\ destination' = IF destination \in gone THEN None ELSE destination
    BY <1>3 DEF SyncWrite
  <2>3. gone \subseteq hand[p].seenCatalog
    BY DEF Pruned
  <2> HIDE DEF offer, lost, gone, ks, cs
  <2>4. /\ h.seeded = hand[p].seeded /\ h.then = hand[p].then
        /\ h.maps.connections = ks /\ h.maps.catalog = cs
        /\ h.maps.selected = hand[p].maps.selected
        /\ h.maps.destination = hand[p].maps.destination
    BY <1>0 DEF Hands, Maps
  <2>5. h \in Hands
    BY <1>0, <2>2 DEF Hands, Maps, CalendarsTypeOK
  <2> HIDE DEF h
  <2>6. p \notin loaded /\ h.seeded = 0
    BY <2>1, <2>4 DEF ProcessInv, SeedInBounds
  <2>7. CASE h.then = "askStatus"
    <3>1. /\ step'[p] = "askStatus" /\ hand'[p] = NothingRead /\ p \notin loaded'
      BY <2>1, <2>6, <2>7 DEF Done, Goto, CalendarsTypeOK
    <3> QED
      BY <3>1, EmptyTypes DEF ProcessInv, SeedInBounds, LoadIsCurrent, Reported
  <2>8. CASE h.then # "askStatus"
    <3> DEFINE s == AfterCatalog(h)
    <3>1. /\ s \in {"loaded", "seedConnection", "seedSelected"}
          /\ s = "seedConnection" => NoCatalogRead(h.maps)
          /\ s = "seedSelected" => NothingSelected(h.maps)
      BY DEF AfterCatalog
    <3>2. Proceed(p, s, h)
      BY <2>1, <2>8
    <3> HIDE DEF s
    <3>3. fresh'[p] => h.maps = Tables'
      <4>1. SUFFICES ASSUME fresh[p] PROVE h.maps = Tables'
        BY <2>1
      <4>2. /\ hand[p].maps.selected = selected
            /\ hand[p].maps.destination = destination
            /\ catalog = {} /\ hand[p].seenCatalog = catalog
        BY <2>1, <2>4, <2>8, <4>1 DEF ProcessInv, LoadIsCurrent
      <4>3. selected' = selected /\ destination' = destination
        BY <2>2, <2>3, <4>2
      <4>4. h.maps \in Maps
        BY <2>5, HandTypes
      <4> QED
        BY <2>2, <2>4, <4>2, <4>3, <4>4 DEF Maps, Tables
    <3>4. step[p] \notin StartSteps
      BY <2>1
    <3> QED
      BY <2>1, <2>4, <2>5, <2>6, <2>8, <3>1, <3>2, <3>3, <3>4, ProceedInv
  <2> QED
    BY <2>7, <2>8
<1>4. CASE AskProvider(p)
  <2>1. PICK o \in Catalogs :
          IF o = NoOffer
          THEN Proceed(p, AfterCatalog(hand[p]), hand[p])
          ELSE /\ Goto(p, "syncConnections", [hand[p] EXCEPT !.offer = o])
               /\ UNCHANGED <<memory, loaded>>
    BY <1>4 DEF AskProvider
  <2>2. step[p] = "askProvider" /\ UNCHANGED <<tables, statusReport, fresh>>
    BY <1>4 DEF AskProvider
  <2>3. /\ hand[p].then # "askStatus" /\ hand[p].seeded = 0 /\ p \notin loaded
        /\ step[p] \notin StartSteps
    BY <2>2 DEF ProcessInv, SeedInBounds, Steps
  <2>4. CASE o = NoOffer
    <3> DEFINE s == AfterCatalog(hand[p])
    <3>1. /\ s \in {"loaded", "seedConnection", "seedSelected"}
          /\ s = "seedConnection" => NoCatalogRead(hand[p].maps)
          /\ s = "seedSelected" => NothingSelected(hand[p].maps)
      BY DEF AfterCatalog
    <3>2. Proceed(p, s, hand[p])
      BY <2>1, <2>4
    <3> HIDE DEF s
    <3>3. fresh'[p] => hand[p].maps = Tables'
      <4>1. SUFFICES ASSUME fresh[p] PROVE hand[p].maps = Tables
        BY <2>2 DEF Tables, tables
      <4>2. /\ hand[p].maps.connections = connections
            /\ hand[p].maps.catalog = catalog
            /\ hand[p].maps.selected = selected
            /\ hand[p].maps.destination = destination
        BY <2>2, <4>1 DEF ProcessInv, LoadIsCurrent
      <4>3. hand[p].maps \in Maps
        BY <1>0, HandTypes
      <4> QED
        BY <4>2, <4>3, MapsAreTables
    <3> QED
      BY <1>0, <2>2, <2>3, <3>1, <3>2, <3>3, ProceedInv
  <2>5. CASE o # NoOffer
    <3> DEFINE h == [hand[p] EXCEPT !.offer = o]
    <3>1. /\ step'[p] = "syncConnections"
          /\ hand'[p] = h
          /\ p \notin loaded'
      BY <2>1, <2>3, <2>5 DEF Goto, CalendarsTypeOK
    <3>2. h.seeded = hand[p].seeded /\ h.then = hand[p].then /\ h.maps = hand[p].maps
      BY <1>0 DEF Hands
    <3> HIDE DEF h
    <3>3. Reported(p)'
      BY <2>2, <3>1, <3>2 DEF Reported, ProcessInv
    <3>4. SeedInBounds(p)'
      BY <2>3, <3>1, <3>2 DEF SeedInBounds
    <3>5. fresh'[p] => LoadIsCurrent(p)'
      BY <2>2, <3>1, <3>2 DEF LoadIsCurrent, ProcessInv, tables
    <3> QED
      BY <3>1, <3>2, <3>3, <3>4, <3>5 DEF ProcessInv
  <2> QED
    BY <2>4, <2>5
<1> QED
  BY <1>1, <1>2, <1>3, <1>4, <1>5

\* The status refresh.
LEMMA StatusInv ==
    ASSUME CalendarsTypeOK, CalendarsTypeOK', NEW p \in Procs, ProcessInv(p),
           AskStatus(p) \/ RefreshStatuses(p)
    PROVE  ProcessInv(p)'
<1> USE DEF LoadSyncs, ConnectionsRead, CatalogRead, SelectedRead, NothingSeeded, At,
            StartSteps, Served
<1>1. CASE AskStatus(p)
  <2>1. PICK r \in StatusReports :
          /\ statusReport' = [statusReport EXCEPT ![p] = r]
          /\ Done(p, IF DOMAIN r = {} THEN "idle" ELSE "load")
    BY <1>1 DEF AskStatus
  <2>2. /\ step[p] = "askStatus" /\ hand'[p] = NothingRead
        /\ step'[p] = IF DOMAIN r = {} THEN "idle" ELSE "load"
        /\ statusReport'[p] = r
        /\ UNCHANGED loaded
    BY <1>1, <2>1 DEF AskStatus, Done, Goto, CalendarsTypeOK
  <2>3. p \notin loaded
    BY <2>2 DEF ProcessInv
  <2> QED
    BY <2>2, <2>3, EmptyTypes DEF ProcessInv, SeedInBounds, LoadIsCurrent, Reported
<1>2. CASE RefreshStatuses(p)
  <2> DEFINE r == statusReport[p]
  <2>1. /\ step[p] = "refresh" /\ step'[p] = "idle" /\ hand'[p] = NothingRead
        /\ memory' = [memory EXCEPT ![p].connections = connections']
        /\ fresh'[p] = fresh[p]
        /\ UNCHANGED <<catalog, selected, destination, loaded, statusReport>>
    BY <1>2 DEF RefreshStatuses, Done, Goto, Writes, CalendarsTypeOK
  <2>2. p \in loaded
    BY <2>1 DEF ProcessInv
  <2>3. fresh[p] => memory'[p] = Tables'
    <3>1. SUFFICES ASSUME fresh[p] PROVE memory'[p] = Tables'
      OBVIOUS
    <3>2. memory[p] = Tables
      BY <2>2, <3>1 DEF ProcessInv
    <3>3. memory'[p] = [memory[p] EXCEPT !.connections = connections']
      BY <2>1 DEF CalendarsTypeOK
    <3> QED
      BY <2>1, <3>2, <3>3 DEF Tables
  <2>4. \A k \in DOMAIN r : connections'[k] = [status |-> r[k], code |-> r[k]]
    <3>1. SUFFICES ASSUME NEW k \in DOMAIN r
                   PROVE  connections'[k] = [status |-> r[k], code |-> r[k]]
      OBVIOUS
    <3>2. k \in Connections /\ r[k] \in Statuses
      BY CalendarAssumption DEF NoReport, CalendarsTypeOK
    <3>3. connections'[k] = Checked(connections[k], r[k]) /\ connections[k] \in StatusRows
      BY <1>2, <3>2 DEF RefreshStatuses, CalendarsTypeOK
    <3> HIDE DEF r
    <3> QED
      BY <3>2, <3>3, CheckedType
  <2>5. Reported(p)'
    BY <2>1, <2>2, <2>4 DEF Reported
  <2> QED
    BY <2>1, <2>2, <2>3, <2>5, EmptyTypes DEF ProcessInv, SeedInBounds, LoadIsCurrent
<1> QED
  BY <1>1, <1>2

\* Requests.
LEMMA RequestInv ==
    ASSUME CalendarsTypeOK, CalendarsTypeOK', ForeignKeys, NEW p \in Procs, ProcessInv(p),
           CalendarRequest(p)
    PROVE  ProcessInv(p)'
<1> USE DEF LoadSyncs, ConnectionsRead, CatalogRead, SelectedRead, NothingSeeded, At,
            StartSteps, Served
<1>1. ASSUME NEW c \in Calendars, SaveSelectedCalendar(p, c) PROVE ProcessInv(p)'
  <2>1. PICK acked \in Acks :
          /\ Writes(p, acked)
          /\ memory' = [memory EXCEPT ![p].selected = IF acked THEN @ \cup {c} ELSE @]
    BY <1>1 DEF SaveSelectedCalendar
  <2>2. /\ step[p] = "idle" /\ p \in loaded
        /\ selected' = selected \cup {c}
        /\ UNCHANGED <<connections, catalog, destination, loaded, step, hand, statusReport>>
    BY <1>1 DEF SaveSelectedCalendar
  <2>3. fresh'[p] => fresh[p] /\ memory'[p] = [memory[p] EXCEPT !.selected = @ \cup {c}]
    BY <2>1 DEF Writes, CalendarsTypeOK
  <2>4. fresh'[p] => memory'[p] = Tables'
    BY <2>2, <2>3 DEF ProcessInv, Tables
  <2>5. Reported(p)'
    BY <2>2, <2>3 DEF Reported, ProcessInv
  <2> QED
    BY <2>2, <2>4, <2>5 DEF ProcessInv, SeedInBounds, LoadIsCurrent
<1>2. ASSUME NEW c \in Calendars, BeginDeleteSelectedCalendar(p, c) PROVE ProcessInv(p)'
  <2> DEFINE h == [hand[p] EXCEPT !.maps.selected = {c}, !.maps.destination = destination]
  <2>1. /\ step[p] = "idle" /\ step'[p] = "deleteSelection" /\ p \in loaded
        /\ hand'[p] = h
        /\ UNCHANGED <<tables, memory, loaded, statusReport, fresh>>
    BY <1>2 DEF BeginDeleteSelectedCalendar, Goto, CalendarsTypeOK
  <2>2. /\ h.seeded = hand[p].seeded /\ h.then = hand[p].then
        /\ h.maps.destination = destination
    <3>1. hand[p] \in Hands /\ hand[p].maps \in Maps
      BY DEF CalendarsTypeOK, Hands
    <3> QED
      BY <3>1 DEF Hands, Maps
  <2> HIDE DEF h
  <2>3. fresh'[p] => memory'[p] = Tables'
    BY <2>1 DEF ProcessInv, Tables, tables
  <2>4. Reported(p)'
    BY <2>1, <2>2 DEF Reported, ProcessInv, tables
  <2>5. fresh'[p] => LoadIsCurrent(p)'
    BY <2>1, <2>2 DEF LoadIsCurrent, tables
  <2> QED
    BY <2>1, <2>2, <2>3, <2>4, <2>5 DEF ProcessInv, SeedInBounds, Steps
<1>7. CASE DeleteSelectedCalendar(p)
  <2>1. PICK c \in hand[p].maps.selected, acked \in Acks :
          /\ selected' = selected \ {c}
          /\ destination' = IF destination = c THEN None ELSE destination
          /\ Writes(p, acked)
          /\ memory' = [memory EXCEPT
               ![p].selected = IF acked THEN @ \ {c} ELSE @,
               ![p].destination =
                   IF acked /\ ClearedDestination(p, c) THEN None ELSE @]
    BY <1>7 DEF DeleteSelectedCalendar
  <2>2. /\ step[p] = "deleteSelection" /\ step'[p] = "idle" /\ hand'[p] = NothingRead
        /\ UNCHANGED <<connections, catalog, loaded, statusReport>>
    BY <1>7 DEF DeleteSelectedCalendar, Done, Goto, CalendarsTypeOK
  <2>3. p \in loaded
    BY <2>2 DEF ProcessInv
  <2>4. fresh'[p] =>
          /\ fresh[p]
          /\ memory'[p] = [memory[p] EXCEPT
               !.selected = @ \ {c},
               !.destination = IF ClearedDestination(p, c) THEN None ELSE @]
    <3>1. fresh'[p] => fresh[p] /\ acked
      BY <2>1 DEF Writes, CalendarsTypeOK
    <3>2. acked => memory' = [memory EXCEPT
               ![p] = [memory[p] EXCEPT
                  !.selected = @ \ {c},
                  !.destination = IF ClearedDestination(p, c) THEN None ELSE @]]
      BY <2>1 DEF CalendarsTypeOK
    <3> QED
      BY <3>1, <3>2 DEF CalendarsTypeOK
  <2>5. fresh'[p] => memory'[p] = Tables'
    <3>1. SUFFICES ASSUME fresh'[p] PROVE memory'[p] = Tables'
      OBVIOUS
    <3> DEFINE x == IF ClearedDestination(p, c) THEN None ELSE destination
    <3>2. memory[p] = Tables /\ hand[p].maps.destination = destination
      BY <2>2, <2>3, <2>4, <3>1 DEF ProcessInv, LoadIsCurrent
    <3>3. memory'[p] = [Tables EXCEPT !.selected = selected \ {c}, !.destination = x]
      BY <2>4, <3>1, <3>2 DEF Tables
    <3>4. c \in Calendars
      BY DEF CalendarsTypeOK, Hands, Maps
    <3>5. destination = c => c \in selected
      BY <3>4, CalendarAssumption DEF ForeignKeys
    <3>6. destination' = x
      BY <2>1, <3>2, <3>5 DEF ClearedDestination
    <3> HIDE DEF x
    <3> QED
      BY <2>1, <2>2, <3>3, <3>6 DEF Tables
  <2>6. Reported(p)'
    BY <2>2, <2>3, <2>4 DEF Reported, ProcessInv
  <2> QED
    BY <2>2, <2>3, <2>5, <2>6, EmptyTypes DEF ProcessInv, SeedInBounds, LoadIsCurrent
<1>3. ASSUME NEW c \in Calendars, BeginSetDestination(p, c) PROVE ProcessInv(p)'
  <2>1. /\ step[p] = "idle" /\ step'[p] = "writeDestination" /\ p \in loaded
        /\ hand'[p] = [hand[p] EXCEPT !.maps.destination = c]
        /\ UNCHANGED <<tables, memory, loaded, statusReport, fresh>>
    BY <1>3 DEF BeginSetDestination, Goto, CalendarsTypeOK
  <2>2. hand'[p].seeded = hand[p].seeded /\ hand'[p].then = hand[p].then
    BY <2>1 DEF CalendarsTypeOK, Hands
  <2>3. fresh'[p] => memory'[p] = Tables'
    BY <2>1 DEF ProcessInv, Tables, tables
  <2>4. Reported(p)'
    BY <2>1 DEF Reported, ProcessInv, tables
  <2> QED
    BY <2>1, <2>2, <2>3, <2>4 DEF ProcessInv, SeedInBounds, LoadIsCurrent, Steps
<1>4. CASE SetDestinationCalendar(p)
  <2> DEFINE c == hand[p].maps.destination
  <2>1. PICK acked \in Acks :
          /\ Writes(p, acked)
          /\ memory' = [memory EXCEPT ![p].destination = IF acked THEN c ELSE @]
    BY <1>4 DEF SetDestinationCalendar
  <2>2. /\ step[p] = "writeDestination" /\ step'[p] = "idle" /\ hand'[p] = NothingRead
        /\ destination' = c
        /\ UNCHANGED <<connections, catalog, selected, loaded, statusReport>>
    BY <1>4 DEF SetDestinationCalendar, Done, Goto, CalendarsTypeOK
  <2>3. p \in loaded
    BY <2>2 DEF ProcessInv
  <2>4. fresh'[p] => fresh[p] /\ memory'[p] = [memory[p] EXCEPT !.destination = c]
    BY <2>1 DEF Writes, CalendarsTypeOK
  <2>5. fresh'[p] => memory'[p] = Tables'
    BY <2>2, <2>3, <2>4 DEF ProcessInv, Tables
  <2>6. Reported(p)'
    BY <2>2, <2>3, <2>4 DEF Reported, ProcessInv
  <2> QED
    BY <2>2, <2>3, <2>5, <2>6, EmptyTypes DEF ProcessInv, SeedInBounds, LoadIsCurrent
<1>5. CASE ReadDestinationCalendar(p)
  <2>1. /\ step[p] = "idle" /\ p \in loaded
        /\ memory[p].destination # None
        /\ memory[p].destination \notin memory[p].selected
        /\ UNCHANGED <<tables, loaded, step, hand, statusReport, fresh>>
    BY <1>5 DEF ReadDestinationCalendar
  <2>2. ~fresh[p]
    BY <2>1 DEF ProcessInv, ForeignKeys, Tables
  <2>3. Reported(p)'
    BY <2>1, <2>2 DEF Reported, ProcessInv
  <2> QED
    BY <2>1, <2>2, <2>3 DEF ProcessInv, SeedInBounds
<1>6. CASE RequestFails(p)
  <2>1. /\ step[p] \notin StartSteps \cup {"idle"} /\ hand[p].then = "idle"
        /\ step'[p] = "idle" /\ hand'[p] = NothingRead
        /\ UNCHANGED <<tables, memory, loaded, statusReport, fresh>>
    BY <1>6 DEF RequestFails, Done, Goto, CalendarsTypeOK
  <2>2. p \in loaded => step[p] \in Served
    BY <2>1 DEF ProcessInv
  <2>3. Reported(p)'
    BY <2>1, <2>2 DEF Reported, ProcessInv, tables
  <2>4. fresh'[p] /\ p \in loaded' => memory'[p] = Tables'
    BY <2>1 DEF ProcessInv, Tables, tables
  <2> QED
    BY <2>1, <2>3, <2>4, EmptyTypes DEF ProcessInv, SeedInBounds, LoadIsCurrent
<1> QED
  BY <1>1, <1>2, <1>3, <1>4, <1>5, <1>6, <1>7 DEF CalendarRequest

\* A step of p keeps the invariant of p, whichever step it is.
LEMMA OwnInv ==
    ASSUME CalendarsTypeOK, CalendarsTypeOK', ForeignKeys, NEW p \in Procs, ProcessInv(p),
           CalendarStep(p)
    PROVE  ProcessInv(p)'
<1>1. CASE CalendarStart(p)
  BY <1>1, SyncInv, StatusInv DEF CalendarStart
<1>2. CASE CalendarStatement(p)
  BY <1>2, SyncInv, LoadInv, SeedInv, RereadInv DEF CalendarStatement
<1>3. CASE CalendarRequest(p)
  BY <1>3, RequestInv
<1>4. CASE CalendarsForgotten(p)
  <2>1. /\ p \notin loaded' /\ step'[p] = "askCatalog" /\ hand'[p] = NothingRead
        /\ ~fresh'[p]
    BY <1>4 DEF CalendarsForgotten, Done, Goto, CalendarsTypeOK
  <2> QED
    BY <2>1, EmptyTypes DEF ProcessInv, SeedInBounds, Reported, StartSteps, At
<1> QED
  BY <1>1, <1>2, <1>3, <1>4 DEF CalendarStep

\* Every step keeps the types.
LEMMA StepTypes ==
    ASSUME CalendarsTypeOK, NEW p \in Procs, SeedInBounds(p), CalendarStep(p)
    PROVE  CalendarsTypeOK'
<1>1. CASE CalendarStart(p)
  BY <1>1, SyncTypes, StatusTypes DEF CalendarStart
<1>2. CASE CalendarStatement(p)
  BY <1>2, SyncTypes, SyncWriteTypes, LoadTypes, SeedTypes, RereadTypes, DestinationTypes
  DEF CalendarStatement
<1>3. ASSUME NEW c \in Calendars,
             SaveSelectedCalendar(p, c) \/ BeginDeleteSelectedCalendar(p, c)
             \/ BeginSetDestination(p, c)
      PROVE  CalendarsTypeOK'
  BY <1>3, SelectionTypes, DestinationTypes
<1>4. CASE SetDestinationCalendar(p) \/ RequestFails(p) \/ CalendarsForgotten(p)
  BY <1>4, DestinationTypes, EndTypes
<1>6. CASE DeleteSelectedCalendar(p)
  BY <1>6, DeletionTypes
<1>5. CASE ReadDestinationCalendar(p)
  BY <1>5, FixtureTypes, SelectionTypes
<1> QED
  BY <1>1, <1>2, <1>3, <1>4, <1>5, <1>6 DEF CalendarStep, CalendarRequest

LEMMA CalendarInvStep ==
    ASSUME CalendarInv, NEW p \in Procs, CalendarStep(p)
    PROVE  CalendarInv'
<1>1. CalendarsTypeOK /\ ForeignKeys /\ ProcessInv(p) /\ SeedInBounds(p)
  BY DEF CalendarInv, ProcessInv
<1>2. CalendarsTypeOK'
  BY <1>1, StepTypes
<1>3. ForeignKeys'
  BY <1>1, ForeignKeysStep
<1>4. ProcessInv(p)'
  BY <1>1, <1>2, OwnInv
<1>5. OthersUndisturbed(p)
  BY <1>1, StepOthers
<1>6. \A q \in Procs \ {p} : ProcessInv(q)'
  BY <1>5, OthersInv DEF CalendarInv
<1> QED
  BY <1>2, <1>3, <1>4, <1>6 DEF CalendarInv

LEMMA CalendarInvInit == CalendarsInit => CalendarInv
<1> SUFFICES ASSUME CalendarsInit PROVE CalendarInv
  OBVIOUS
<1>1. CalendarsTypeOK
  BY EmptyTypes DEF CalendarsInit, CalendarsTypeOK, NoConnections, Steps
<1>2. ForeignKeys
  BY DEF CalendarsInit, ForeignKeys
<1>3. \A p \in Procs : ProcessInv(p)
  BY EmptyTypes
  DEF CalendarsInit, ProcessInv, SeedInBounds, LoadIsCurrent, Reported, StartSteps, At
<1> QED
  BY <1>1, <1>2, <1>3 DEF CalendarInv

\* What a step may do to a status, when a process that nobody outdated is left.
LEMMA StatusStep ==
    ASSUME CalendarInv, NEW p \in Procs, CalendarStep(p), NEW q \in Procs, fresh'[q],
           NEW k \in Connections, connections[k] # None, connections'[k] # None,
           connections'[k].status # connections[k].status
    PROVE  transitions'[k] =
             [previous |-> connections[k].status, next |-> connections'[k].status]
<1>1. CalendarsTypeOK /\ ProcessInv(p)
  BY DEF CalendarInv
<1>2. q = p
  BY <1>1, StepOthers DEF OthersUndisturbed, tables
<1>3. CASE SeedConnection(p)
  <2>1. fresh[p] /\ At(p, "seedConnection")
    BY <1>1, <1>2, <1>3 DEF SeedConnection, Writes, CalendarsTypeOK
  <2> QED
    BY <1>1, <2>1 DEF ProcessInv, LoadIsCurrent, Existing
<1>4. CASE RefreshStatuses(p)
  <2> DEFINE r == statusReport[p]
  <2>1. /\ connections' =
             [j \in Connections |->
                IF j \in DOMAIN r THEN Checked(connections[j], r[j]) ELSE connections[j]]
        /\ transitions' =
             [j \in Connections |->
                IF j \in DOMAIN r THEN Transition(j, r[j]) ELSE transitions[j]]
    BY <1>4 DEF RefreshStatuses
  <2>2. k \in DOMAIN r
    BY <2>1
  <2>3. r[k] \in Statuses /\ connections[k] \in StatusRows
    BY <1>1, <2>2, CalendarAssumption DEF NoReport, CalendarsTypeOK
  <2>4. connections'[k] = Checked(connections[k], r[k]) /\ transitions'[k] = Transition(k, r[k])
    BY <2>1, <2>2
  <2> HIDE DEF r
  <2>5. connections'[k].status = r[k]
    BY <2>3, <2>4, CheckedType
  <2> QED
    BY <2>4, <2>5 DEF Transition
<1>5. CASE SyncWrite(p)
  <2> DEFINE offer == hand[p].offer
             lost  == Pruned(hand[p].seenConnections, DOMAIN offer.connections)
             ks    == SyncedConnections(offer, lost)
  <2>1. /\ connections' = ks
        /\ transitions' =
             [j \in Connections |->
                IF j \in lost THEN None
                ELSE IF (j \in hand[p].seenConnections /\ connections[j] # None)
                          /\ j \in DOMAIN offer.connections
                     THEN Transition(j, ks[j].status) ELSE transitions[j]]
        /\ fresh[p] /\ At(p, "syncWrite")
    BY <1>1, <1>2, <1>5 DEF SyncWrite, Writes, CalendarsTypeOK
  <2>2. k \in hand[p].seenConnections
    BY <1>1, <2>1 DEF ProcessInv, LoadIsCurrent, Existing, At
  <2>3. k \in DOMAIN offer.connections
    BY <2>1, <2>2 DEF SyncedConnections, Pruned
  <2>4. k \notin lost
    BY <2>3 DEF Pruned
  <2> HIDE DEF offer, lost, ks
  <2>5. transitions'[k] = Transition(k, connections'[k].status)
    BY <2>1, <2>2, <2>3, <2>4
  <2> QED
    BY <2>5 DEF Transition
<1>6. CASE UNCHANGED connections
  BY <1>6
<1> QED
  BY <1>3, <1>4, <1>5, <1>6
  DEF CalendarStep, CalendarStart, CalendarStatement, CalendarRequest, AskCatalog,
      AskStatus, SyncReadConnections, SyncReadCatalog, LoadConnections, LoadCatalog,
      LoadSelected, LoadDestination, AskProvider, SeedCatalog, RereadConnections,
      RereadCatalog, SeedSelected, BeginSeedDestination, SeedDestination,
      RereadSelected, RereadDestination, SaveSelectedCalendar,
      BeginDeleteSelectedCalendar, DeleteSelectedCalendar, BeginSetDestination,
      SetDestinationCalendar, ReadDestinationCalendar, RequestFails, CalendarsForgotten,
      tables

-----------------------------------------------------------------------------
(* The credentials *)

CredentialStep(p) ==
    \/ CredentialStart(p)
    \/ ReadCredentialMetadata(p)
    \/ \E c \in Credentials : StoreProviderCredential(p, c)
    \/ CredentialsForgotten(p)

\* The table has what the provider reported to the start of p.
RowsAsReported(p) ==
    \A c \in DOMAIN credReport[p] :
        rows[c] = [status |-> credReport[p][c], code |-> credReport[p][c]]

\* The invariant of one process: what it loaded is current until the refresh,
\* the refresh stores what was reported, and what it reads then is current.
HolderInv(p) ==
    /\ credStep[p] = "done" /\ known[p] = None => DOMAIN credReport[p] = {}
    /\ credFresh[p] =>
          /\ credStep[p] \in {"refresh", "reread", "done"}
          /\ credStep[p] = "refresh" => known[p] = rows
          /\ credStep[p] = "done" /\ known[p] # None => known[p] = rows
          /\ credStep[p] \in {"reread", "done"} => RowsAsReported(p)

CredentialInv == CredentialsTypeOK /\ \A p \in Procs : HolderInv(p)

LEMMA CredentialTypes ==
    ASSUME CredentialsTypeOK, NEW p \in Procs, CredentialStep(p)
    PROVE  CredentialsTypeOK'
<1>1. CASE SeedFixtureMetadata(p)
  <2>1. Saved(rows[FixtureCredential], Active) \in StatusRows
    BY SavedType, StatusAssumption, CredentialAssumption DEF CredentialsTypeOK
  <2> QED
    BY <1>1, <2>1
    DEF SeedFixtureMetadata, CredWrite, CredGoto, CredentialsTypeOK, CredentialSteps
<1>2. CASE ReadCredentialStatus(p)
  BY <1>2 DEF ReadCredentialStatus, CredGoto, CredentialsTypeOK, CredentialSteps
<1>3. CASE LoadCredentials(p)
  BY <1>3 DEF LoadCredentials, CredGoto, CredentialsTypeOK, CredentialSteps
<1>4. CASE RefreshCredentialStatuses(p)
  <2> DEFINE r == credReport[p]
  <2>1. \A c \in DOMAIN r : r[c] \in Statuses
    BY CredentialAssumption DEF NoReport, CredentialsTypeOK
  <2>2. ASSUME NEW c \in Credentials, c \in DOMAIN r
        PROVE  Checked(rows[c], r[c]) \in StatusRows
    <3>1. rows[c] \in StatusRows /\ r[c] \in Statuses
      BY <1>4, <2>1, <2>2 DEF RefreshCredentialStatuses, CredentialsTypeOK
    <3> HIDE DEF r
    <3> QED
      BY <3>1, CheckedType
  <2>3. rows' = [c \in Credentials |->
                   IF c \in DOMAIN r THEN Checked(rows[c], r[c]) ELSE rows[c]]
    BY <1>4 DEF RefreshCredentialStatuses
  <2>4. rows' \in [Credentials -> StatusRows \cup {None}]
    <3> HIDE DEF r
    <3> QED
      BY <2>2, <2>3 DEF CredentialsTypeOK
  <2> QED
    BY <1>4, <2>4
    DEF RefreshCredentialStatuses, CredWrite, CredGoto, CredentialsTypeOK, CredentialSteps
<1>5. CASE RereadCredentials(p)
  BY <1>5 DEF RereadCredentials, CredGoto, CredentialsTypeOK, CredentialSteps
<1>6. CASE ReadCredentialMetadata(p)
  BY <1>6 DEF ReadCredentialMetadata, CredentialsTypeOK
<1>7. ASSUME NEW c \in Credentials, StoreProviderCredential(p, c)
      PROVE  CredentialsTypeOK'
  <2>1. Saved(rows[c], Active) \in StatusRows
    BY SavedType, StatusAssumption DEF CredentialsTypeOK
  <2> QED
    BY <1>7, <2>1 DEF StoreProviderCredential, CredWrite, CredentialsTypeOK
<1>8. CASE CredentialsForgotten(p)
  BY <1>8 DEF CredentialsForgotten, CredentialsTypeOK, CredentialSteps
<1> QED
  BY <1>1, <1>2, <1>3, <1>4, <1>5, <1>6, <1>7, <1>8 DEF CredentialStep, CredentialStart

LEMMA HolderStep ==
    ASSUME CredentialInv, NEW p \in Procs, CredentialStep(p)
    PROVE  HolderInv(p)'
<1>1. CredentialsTypeOK /\ HolderInv(p)
  BY DEF CredentialInv
<1>2. rows # None
  BY <1>1, CredentialAssumption DEF CredentialsTypeOK
<1>3. CASE SeedFixtureMetadata(p)
  BY <1>1, <1>3 DEF SeedFixtureMetadata, CredWrite, CredGoto, CredentialsTypeOK, HolderInv
<1>4. CASE ReadCredentialStatus(p)
  <2>1. PICK r \in CredentialReports :
          /\ credReport' = [credReport EXCEPT ![p] = r]
          /\ CredGoto(p, IF DOMAIN r = {} THEN "done" ELSE "load")
    BY <1>4 DEF ReadCredentialStatus
  <2>2. ~credFresh'[p]
    BY <1>1, <1>4 DEF ReadCredentialStatus, HolderInv
  <2> QED
    BY <1>1, <2>1, <2>2 DEF CredGoto, CredentialsTypeOK, HolderInv
<1>5. CASE LoadCredentials(p)
  BY <1>1, <1>5 DEF LoadCredentials, CredGoto, CredentialsTypeOK, HolderInv
<1>6. CASE RefreshCredentialStatuses(p)
  <2> DEFINE r == credReport[p]
  <2>1. ASSUME NEW c \in DOMAIN r PROVE rows'[c] = [status |-> r[c], code |-> r[c]]
    <3>1. c \in Credentials /\ r[c] \in Statuses
      BY <1>1, CredentialAssumption DEF NoReport, CredentialsTypeOK
    <3>2. rows'[c] = Checked(rows[c], r[c]) /\ rows[c] \in StatusRows
      BY <1>1, <1>6, <3>1 DEF RefreshCredentialStatuses, CredentialsTypeOK
    <3> HIDE DEF r
    <3> QED
      BY <3>1, <3>2, CheckedType
  <2>2. RowsAsReported(p)'
    BY <1>6, <2>1 DEF RefreshCredentialStatuses, RowsAsReported
  <2> QED
    BY <1>1, <1>6, <2>2
    DEF RefreshCredentialStatuses, CredGoto, CredentialsTypeOK, HolderInv
<1>7. CASE RereadCredentials(p)
  <2>1. /\ credStep[p] = "reread" /\ credStep'[p] = "done"
        /\ known'[p] = rows
        /\ UNCHANGED <<rows, credReport, credFresh>>
    BY <1>1, <1>7 DEF RereadCredentials, CredGoto, CredentialsTypeOK
  <2> QED
    BY <1>1, <1>2, <2>1 DEF HolderInv, RowsAsReported
<1>8. CASE ReadCredentialMetadata(p)
  <2>1. /\ credStep[p] = "done" /\ known[p] = None /\ known'[p] = rows
        /\ UNCHANGED <<rows, credReport, credStep>>
    BY <1>1, <1>8 DEF ReadCredentialMetadata, CredentialsTypeOK
  <2> QED
    BY <1>1, <1>2, <2>1 DEF HolderInv, RowsAsReported
<1>9. ASSUME NEW c \in Credentials, StoreProviderCredential(p, c) PROVE HolderInv(p)'
  BY <1>1, <1>9 DEF StoreProviderCredential, CredWrite, CredentialsTypeOK, HolderInv
<1>10. CASE CredentialsForgotten(p)
  BY <1>1, <1>10 DEF CredentialsForgotten, CredentialsTypeOK, HolderInv
<1> QED
  BY <1>3, <1>4, <1>5, <1>6, <1>7, <1>8, <1>9, <1>10 DEF CredentialStep, CredentialStart

\* A step of p leaves the others their memory, and outdates them if it writes.
LEMMA OtherHolders ==
    ASSUME CredentialInv, NEW p \in Procs, CredentialStep(p), NEW q \in Procs \ {p}
    PROVE  HolderInv(q)'
<1>1. /\ known'[q] = known[q]
      /\ credReport'[q] = credReport[q]
      /\ credStep'[q] = credStep[q]
      /\ credFresh'[q] => credFresh[q] /\ rows' = rows
  <2>1. CredentialsTypeOK
    BY DEF CredentialInv
  <2> QED
    BY <2>1
    DEF CredentialStep, CredentialStart, SeedFixtureMetadata, ReadCredentialStatus,
        LoadCredentials, RefreshCredentialStatuses, RereadCredentials,
        ReadCredentialMetadata, StoreProviderCredential, CredentialsForgotten, CredWrite,
        CredGoto, CredentialsTypeOK
<1>2. HolderInv(q)
  BY DEF CredentialInv
<1> QED
  BY <1>1, <1>2 DEF HolderInv, RowsAsReported

LEMMA CredentialInvStep ==
    ASSUME CredentialInv, NEW p \in Procs, CredentialStep(p)
    PROVE  CredentialInv'
<1>1. CredentialsTypeOK'
  BY CredentialTypes DEF CredentialInv
<1>2. ASSUME NEW q \in Procs PROVE HolderInv(q)'
  BY HolderStep, OtherHolders
<1> QED
  BY <1>1, <1>2 DEF CredentialInv

LEMMA CredentialInvInit == CredentialsInit => CredentialInv
BY DEF CredentialsInit, CredentialInv, CredentialsTypeOK, CredentialSteps, HolderInv

-----------------------------------------------------------------------------
(* The API process *)

\* Nothing of the calendars happens before the credentials are refreshed.
CredentialsFirst == \A p \in Procs : credStep[p] # "done" => At(p, "askCatalog")

ApiInv == CalendarInv /\ CredentialInv /\ CredentialsFirst

LEMMA ApiInvNext == ApiInv /\ [Next]_vars => ApiInv'
<1> SUFFICES ASSUME ApiInv, [Next]_vars PROVE ApiInv'
  OBVIOUS
<1> USE DEF ApiInv
<1>0. CalendarsTypeOK /\ CredentialsTypeOK
  BY DEF CalendarInv, CredentialInv
<1>a. UNCHANGED calendarVars => CalendarInv'
  BY DEF CalendarInv, CalendarsTypeOK, ForeignKeys, ProcessInv, SeedInBounds,
         LoadIsCurrent, LoadSyncs, Reported, Tables, Existing, At, calendarVars, tables
<1>b. UNCHANGED credentialVars => CredentialInv'
  BY DEF CredentialInv, CredentialsTypeOK, HolderInv, RowsAsReported, credentialVars
<1>1. ASSUME NEW p \in Procs, StartCredentials(p) PROVE ApiInv'
  <2>1. CredentialStep(p) /\ UNCHANGED calendarVars
    BY <1>1 DEF StartCredentials, CredentialStep
  <2>2. CredentialsFirst'
    <3>1. credStep[p] # "done" /\ \A q \in Procs \ {p} : credStep'[q] = credStep[q]
      BY <1>0, <1>1
      DEF StartCredentials, CredentialStart, SeedFixtureMetadata, ReadCredentialStatus,
          LoadCredentials, RefreshCredentialStatuses, RereadCredentials, CredGoto,
          CredentialsTypeOK
    <3> QED
      BY <2>1, <3>1 DEF CredentialsFirst, At, calendarVars
  <2> QED
    BY <1>a, <2>1, <2>2, CredentialInvStep
<1>2. ASSUME NEW p \in Procs, WorkOnCalendars(p) PROVE ApiInv'
  <2>1. CalendarStep(p) /\ UNCHANGED credentialVars /\ credStep[p] = "done"
    BY <1>2 DEF WorkOnCalendars, CalendarStep, CredentialsReady
  <2>2. OthersUndisturbed(p)
    BY <1>0, <2>1, StepOthers
  <2>3. CredentialsFirst'
    BY <2>1, <2>2 DEF CredentialsFirst, OthersUndisturbed, At, credentialVars
  <2> QED
    BY <1>b, <2>1, <2>3, CalendarInvStep
<1>3. ASSUME NEW p \in Procs, UseCredentials(p) PROVE ApiInv'
  <2>1. CredentialStep(p) /\ UNCHANGED calendarVars /\ UNCHANGED credStep
    BY <1>3
    DEF UseCredentials, CredentialStep, ReadCredentialMetadata, StoreProviderCredential
  <2>2. CredentialsFirst'
    BY <2>1 DEF CredentialsFirst, At, calendarVars
  <2> QED
    BY <1>a, <2>1, <2>2, CredentialInvStep
<1>4. ASSUME NEW p \in Procs, Stop(p) PROVE ApiInv'
  <2>1. CredentialStep(p) /\ CalendarStep(p)
    BY <1>4 DEF Stop, CredentialStep, CalendarStep
  <2>2. CredentialsFirst'
    BY <1>0, <1>4
    DEF Stop, CredentialsForgotten, CalendarsForgotten, Done, Goto, CredentialsFirst, At,
        CalendarsTypeOK, CredentialsTypeOK
  <2> QED
    BY <2>1, <2>2, CredentialInvStep, CalendarInvStep
<1>5. CASE UNCHANGED vars
  BY <1>a, <1>b, <1>5 DEF vars, CredentialsFirst, At, calendarVars, credentialVars
<1> QED
  BY <1>1, <1>2, <1>3, <1>4, <1>5 DEF Next

\* The strengthened invariant of the API processes holds in every reachable
\* state: types, foreign keys, what each process has read and remembers.
THEOREM ApiInvariance == Spec => []ApiInv
<1>1. Init => ApiInv
  BY CalendarInvInit, CredentialInvInit
  DEF Init, ApiInv, CredentialsFirst, CalendarsInit, At
<1> QED
  BY <1>1, ApiInvNext, PTL DEF Spec

\* Tables and memories have their types, and no process touches the calendars
\* before its credentials are refreshed.
THEOREM ApiTyping == Spec => []ApiTypeOK
<1>1. ApiInv => ApiTypeOK
  BY DEF ApiInv, ApiTypeOK, CalendarInv, CredentialInv, CredentialsFirst
<1> QED
  BY <1>1, ApiInvariance, PTL

\* A process nobody outdated answers from maps that are the tables.
THEOREM CalendarMemory == Spec => []CalendarCacheIsCurrent
<1>1. ApiInv => CalendarCacheIsCurrent
  BY DEF ApiInv, CalendarInv, CalendarsTypeOK, ProcessInv, CalendarCacheIsCurrent
<1> QED
  BY <1>1, ApiInvariance, PTL

\* A start ends with the connection statuses its provider reported.
THEOREM StatusServed == Spec => []ReportedStatusIsServed
<1>1. ApiInv => ReportedStatusIsServed
  BY DEF ApiInv, CalendarInv, ProcessInv, Reported, ReportedStatusIsServed, StartSteps, At,
         Served
<1> QED
  BY <1>1, ApiInvariance, PTL

\* Fixtures are selected only by a start that found nothing selected.
THEOREM SeedingIsFirst == Spec => []SeedsOnlyAnEmptySelection
<1>1. ApiInv => SeedsOnlyAnEmptySelection
  BY DEF ApiInv, CalendarInv, ProcessInv, LoadIsCurrent, SeedsOnlyAnEmptySelection
<1> QED
  BY <1>1, ApiInvariance, PTL

\* A process answers with the credentials of the table until another write.
THEOREM CredentialMemory == Spec => []CredentialCacheIsCurrent
<1>1. ApiInv => CredentialCacheIsCurrent
  BY DEF ApiInv, CredentialInv, HolderInv, CredentialCacheIsCurrent
<1> QED
  BY <1>1, ApiInvariance, PTL

\* A start ends with the credential statuses its provider reported.
THEOREM CredentialServed == Spec => []ReportedCredentialIsServed
<1>1. ApiInv => ReportedCredentialIsServed
  BY DEF ApiInv, CredentialInv, HolderInv, RowsAsReported, ReportedCredentialIsServed
<1> QED
  BY <1>1, ApiInvariance, PTL

\* A step of the composed system is a step of one process on the calendars, or
\* leaves them alone.
LEMMA NextOnCalendars ==
    ASSUME [Next]_vars
    PROVE  UNCHANGED calendarVars \/ \E p \in Procs : CalendarStep(p)
<1>1. ASSUME NEW p \in Procs, WorkOnCalendars(p) PROVE CalendarStep(p)
  BY <1>1 DEF WorkOnCalendars, CalendarStep
<1>2. ASSUME NEW p \in Procs, Stop(p) PROVE CalendarStep(p)
  BY <1>2 DEF Stop, CalendarStep
<1> QED
  BY <1>1, <1>2 DEF Next, StartCredentials, UseCredentials, vars

\* Every change of a connection's status that a process nobody outdated makes
\* enters the history.
THEOREM StatusHistory == Spec => StatusChangeIsRecorded
<1> DEFINE Recorded ==
      \A k \in Connections :
          /\ connections[k] # None
          /\ connections'[k] # None
          /\ connections'[k].status # connections[k].status
          /\ \E p \in Procs : fresh'[p]
          => transitions'[k] = [previous |-> connections[k].status,
                                next |-> connections'[k].status]
<1>1. ApiInv /\ [Next]_vars => [Recorded]_calendarVars
  BY NextOnCalendars, StatusStep DEF ApiInv
<1>2. StatusChangeIsRecorded <=> [][Recorded]_calendarVars
  BY DEF StatusChangeIsRecorded
<1> HIDE DEF Recorded
<1> QED
  BY <1>1, <1>2, ApiInvariance, PTL DEF Spec
=============================================================================
