-------------------------------- MODULE ApiStart --------------------------------
(***************************************************************************)
(* cmd/api: an API process seeds and refreshes the credentials, then       *)
(* synchronizes the calendar catalog and refreshes the connections, and    *)
(* only then serves requests.  A step of the start that fails ends the     *)
(* process, as a crash does at any time; whoever runs the program starts   *)
(* it again, on the tables that were left.                                 *)
(***************************************************************************)
EXTENDS CredentialStatus, CalendarStore

vars == <<credentialVars, calendarVars>>

Init == CredentialsInit /\ CalendarsInit

\* Mutant of CredentialsReady: the calendars do not wait for the refresh.
CredentialsSeeded(p) == credStep[p] # "seed"

\* The credentials come first.
CredentialsReady(p) == credStep[p] = "done"

\* The HTTP server runs: p is in a request or between two.
Serving(p) ==
    /\ CredentialsReady(p)
    /\ step[p] \notin StartSteps
    /\ hand[p].then = "idle"

StartCredentials(p) == CredentialStart(p) /\ UNCHANGED calendarVars

WorkOnCalendars(p) ==
    /\ CredentialsReady(p)
    /\ CalendarStart(p) \/ CalendarStatement(p) \/ CalendarRequest(p)
    /\ UNCHANGED credentialVars

UseCredentials(p) ==
    /\ Serving(p)
    /\ \/ ReadCredentialMetadata(p)
       \/ \E c \in Credentials : StoreProviderCredential(p, c)
    /\ UNCHANGED calendarVars

Stop(p) == CredentialsForgotten(p) /\ CalendarsForgotten(p)

Next ==
    \E p \in Procs :
        StartCredentials(p) \/ WorkOnCalendars(p) \/ UseCredentials(p) \/ Stop(p)

Spec == Init /\ [][Next]_vars

-----------------------------------------------------------------------------
(* Properties *)

\* The types of both parts, and that no process touches the calendars before
\* its credentials are refreshed.
ApiTypeOK ==
    /\ CredentialsTypeOK
    /\ CalendarsTypeOK
    /\ \A p \in Procs : credStep[p] # "done" => At(p, "askCatalog")
=============================================================================
