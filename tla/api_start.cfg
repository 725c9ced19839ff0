CONSTANTS
    p1 = p1
    p2 = p2
    d = d
    t = t
    conn = conn
    f = f
    Procs = {p1, p2}
    Statuses = {"active", "lost"}
    Active = "active"
    None = None
    Credentials = {f}
    FixtureCredential = f
    CredentialReports <- MCCredentialReports
    Connections = {conn}
    Calendars = {d, t}
    ConnectionOf <- MCConnectionOf
    FixtureCalendars <- MCFixtures
    SelectedFixtures = 2
    Catalogs <- MCCatalogs
    StatusReports <- MCStatusReports
    AcksLost = TRUE
SPECIFICATION Spec
SYMMETRY Symmetry
CONSTRAINT Bounds
INVARIANTS
    ApiTypeOK
    CalendarCacheIsCurrent
    ReportedStatusIsServed
    SeedsOnlyAnEmptySelection
    CredentialCacheIsCurrent
    ReportedCredentialIsServed
PROPERTIES
    StatusChangeIsRecorded
