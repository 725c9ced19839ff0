---------------------------- MODULE CredentialStatus ----------------------------
(***************************************************************************)
(* credentials.Store over credentials.PostgresRepository, for the one user *)
(* the program seeds.  Every start of an API process saves the fixture     *)
(* credential again, asks the provider for the status of the credentials,  *)
(* loads the table into memory and stores what the provider said.  From    *)
(* then on the process answers from memory.  The provider OAuth exchange   *)
(* writes the same table through the repository, past that memory.         *)
(*                                                                         *)
(* A start runs alone in its process: the steps below are its statements.  *)
(* Scopes, labels and timestamps are left out; an account has one          *)
(* credential_ref, whether it was seeded or derived from the account.      *)
(***************************************************************************)
EXTENDS IntegrationStatus

CONSTANTS
    Credentials,       \* credential_ref values
    FixtureCredential, \* the one that every start saves again
    CredentialReports  \* what ReadStatus may answer: some credentials' statuses

ASSUME CredentialAssumption ==
    /\ FixtureCredential \in Credentials
    /\ None \notin [Credentials -> StatusRows \cup {None}]
    /\ \A r \in CredentialReports :
          DOMAIN r \subseteq Credentials /\ \A c \in DOMAIN r : r[c] \in Statuses

VARIABLES
    rows,        \* rows[c]: the row of integration_credential_metadata, or None
    known,       \* known[p]: Store.credentials of p, or None before it is loaded
    credReport,  \* credReport[p]: the snapshot p's start got from the provider
    credStep,    \* credStep[p]: the next statement of that start
    credFresh    \* credFresh[p]: since p loaded, nothing but its own refresh
                 \* has written the table

credentialVars == <<rows, known, credReport, credStep, credFresh>>

CredentialsInit ==
    /\ rows = [c \in Credentials |-> None]
    /\ known = [p \in Procs |-> None]
    /\ credReport = [p \in Procs |-> NoReport]
    /\ credStep = [p \in Procs |-> "seed"]
    /\ credFresh = [p \in Procs |-> FALSE]

CredGoto(p, s) == credStep' = [credStep EXCEPT ![p] = s]

\* A write by p outdates what the others hold; mine says whether p's memory
\* follows it.
CredWrite(p, mine) ==
    credFresh' = [q \in Procs |-> q = p /\ mine /\ credFresh[q]]

-----------------------------------------------------------------------------
(* The start of a process *)

SeedFixtureMetadata(p) ==
    /\ credStep[p] = "seed"
    /\ rows' = [rows EXCEPT ![FixtureCredential] = Saved(@, Active)]
    /\ CredWrite(p, TRUE)
    /\ CredGoto(p, "ask")
    /\ UNCHANGED <<known, credReport>>

\* RefreshProviderStatus asks the provider first; with no updates it returns
\* and leaves the table unread.
ReadCredentialStatus(p) ==
    /\ credStep[p] = "ask"
    /\ \E r \in CredentialReports :
          /\ credReport' = [credReport EXCEPT ![p] = r]
          /\ CredGoto(p, IF DOMAIN r = {} THEN "done" ELSE "load")
    /\ UNCHANGED <<rows, known, credFresh>>

\* ensureLoadedLocked.  The table is not empty: this start has seeded it and
\* nothing deletes from it.
LoadCredentials(p) ==
    /\ credStep[p] = "load"
    /\ known' = [known EXCEPT ![p] = rows]
    /\ credFresh' = [credFresh EXCEPT ![p] = TRUE]
    /\ CredGoto(p, "refresh")
    /\ UNCHANGED <<rows, credReport>>

\* The updates are validated against the memory of the process, then written in
\* one transaction; a credential it does not know fails the start.
RefreshCredentialStatuses(p) ==
    LET r == credReport[p]
    IN  /\ credStep[p] = "refresh"
        /\ \A c \in DOMAIN r : known[p][c] # None /\ rows[c] # None
        /\ rows' = [c \in Credentials |->
                      IF c \in DOMAIN r THEN Checked(rows[c], r[c]) ELSE rows[c]]
        /\ CredWrite(p, TRUE)
        /\ CredGoto(p, "reread")
        /\ UNCHANGED <<known, credReport>>

\* Mutant of RereadCredentials: the list loaded before the refresh is kept.
KeepCredentials(p) ==
    /\ credStep[p] = "reread"
    /\ CredGoto(p, "done")
    /\ UNCHANGED <<rows, known, credReport, credFresh>>

\* The refreshed list is read after the transaction, not in it, so it may hold
\* what another process has written since.
RereadCredentials(p) ==
    /\ credStep[p] = "reread"
    /\ known' = [known EXCEPT ![p] = rows]
    /\ CredGoto(p, "done")
    /\ UNCHANGED <<rows, credReport, credFresh>>

CredentialStart(p) ==
    \/ SeedFixtureMetadata(p)
    \/ ReadCredentialStatus(p)
    \/ LoadCredentials(p)
    \/ RefreshCredentialStatuses(p)
    \/ RereadCredentials(p)

-----------------------------------------------------------------------------
(* A process that serves *)

\* ReadCredentialMetadata of a process that has not loaded the table; one that
\* has answers known[p].
ReadCredentialMetadata(p) ==
    /\ credStep[p] = "done"
    /\ known[p] = None
    /\ known' = [known EXCEPT ![p] = rows]
    /\ credFresh' = [credFresh EXCEPT ![p] = TRUE]
    /\ UNCHANGED <<rows, credReport, credStep>>

\* StoreProviderCredentialSecret saves the metadata of the account it got
\* tokens for.  The memory of no process learns of it, its own neither.
StoreProviderCredential(p, c) ==
    /\ credStep[p] = "done"
    /\ rows' = [rows EXCEPT ![c] = Saved(@, Active)]
    /\ CredWrite(p, FALSE)
    /\ UNCHANGED <<known, credReport, credStep>>

\* The process ends; the next one begins with empty memory.
CredentialsForgotten(p) ==
    /\ known' = [known EXCEPT ![p] = None]
    /\ credReport' = [credReport EXCEPT ![p] = NoReport]
    /\ credStep' = [credStep EXCEPT ![p] = "seed"]
    /\ credFresh' = [credFresh EXCEPT ![p] = FALSE]
    /\ UNCHANGED rows

-----------------------------------------------------------------------------
(* Properties *)

CredentialSteps == {"seed", "ask", "load", "refresh", "reread", "done"}

\* The types of the table and of what the processes hold.
CredentialsTypeOK ==
    /\ rows \in [Credentials -> StatusRows \cup {None}]
    /\ known \in [Procs -> [Credentials -> StatusRows \cup {None}] \cup {None}]
    /\ credReport \in [Procs -> CredentialReports \cup {NoReport}]
    /\ credStep \in [Procs -> CredentialSteps]
    /\ credFresh \in [Procs -> BOOLEAN]

\* What a process answers for GET /v2/credentials is the table, until another
\* process or a provider exchange writes it: from then on the process is
\* outdated until it restarts, even by an exchange of its own.
CredentialCacheIsCurrent ==
    \A p \in Procs :
        credFresh[p] /\ credStep[p] = "done" /\ known[p] # None => known[p] = rows

\* A start does not end with the status its seeding wrote over a reported one:
\* what the provider reported to this start is what the process serves, with
\* the code that belongs to it.
ReportedCredentialIsServed ==
    \A p \in Procs : credFresh[p] /\ credStep[p] = "done" =>
        \A c \in DOMAIN credReport[p] :
            rows[c] = [status |-> credReport[p][c], code |-> credReport[p][c]]
=============================================================================
