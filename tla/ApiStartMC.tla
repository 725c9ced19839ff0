------------------------------- MODULE ApiStartMC -------------------------------
(***************************************************************************)
(* Two processes, one connection with two calendars, both fixtures; the    *)
(* provider offers nothing or one calendar of a connection it has lost.    *)
(***************************************************************************)
EXTENDS ApiStart, FiniteSets, TLC

CONSTANTS p1, p2, d, t, conn, f

MCConnectionOf == [c \in {d, t} |-> conn]
MCFixtures == <<d, t>>
MCCatalogs == {NoOffer, [connections |-> conn :> "lost", calendars |-> {t}]}
MCStatusReports == {NoReport, conn :> "lost"}
MCCredentialReports == {NoReport, f :> "lost"}

Symmetry == Permutations({p1, p2})

Between == {"idle", "askCatalog", "deleteSelection"}
Working(p) == step[p] \notin Between \/ credStep[p] \notin {"seed", "done"}
Synchronizing(p) == step[p] \in Between \cup {"syncConnections", "syncCatalog", "syncWrite", "askStatus"}

\* One process at a time starts, loads or sets a destination, while the other
\* serves or begins; deletions overlap with all of it, and catalog
\* synchronizations with one another.
OneLoads ==
    \/ Cardinality({p \in Procs : Working(p)}) <= 1
    \/ \A p \in Procs : Synchronizing(p)

CredentialsAside ==
    /\ \A p \in Procs : credReport[p] = NoReport /\ known[p] = None
    /\ rows[f] \in {None, Saved(None, Active)}

CalendarsAside ==
    /\ <<connections, catalog, selected, loaded>> = <<NoConnections, {}, {}, {}>>
    /\ \A p \in Procs : statusReport[p] = NoReport /\ hand[p].offer = NoOffer

\* The tables of the two parts are disjoint and so are the memories: they are
\* explored one at a time.
OnePart == CredentialsAside \/ CalendarsAside

\* Of two processes that others have outdated, one begins again: beside an
\* outdated process there is one that is not, or that starts.
OneIsFresh == \E p \in Procs : fresh[p] \/ At(p, "askCatalog")

Bounds == OneLoads /\ OnePart /\ OneIsFresh
=============================================================================
