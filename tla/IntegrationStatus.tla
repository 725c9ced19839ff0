--------------------------- MODULE IntegrationStatus ---------------------------
(***************************************************************************)
(* What calendar connections and credentials have in common: a row with a  *)
(* status, which the program sets when it saves the row and which a status *)
(* provider (integrations.StatusProviderAdapter) reports again, with a     *)
(* code, at every start of an API process.  A code is represented by the   *)
(* status it was reported with.                                            *)
(***************************************************************************)
CONSTANTS
    Procs,     \* API processes that share the database
    Statuses,  \* statuses of a connection or a credential
    Active,    \* the one that fixtures and provider exchanges are saved with
    None       \* no row, no code, nothing loaded, no destination

StatusRows == [status : Statuses, code : Statuses \cup {None}]

ASSUME StatusAssumption ==
    /\ Active \in Statuses
    /\ None \notin Statuses
    /\ None \notin StatusRows

\* A snapshot of the provider is a function from references to statuses.
NoReport == [ref \in {} |-> None]

\* The upsert of a row sets its status and leaves the code of an earlier check.
Saved(row, status) ==
    [status |-> status, code |-> IF row = None THEN None ELSE row.code]

\* Mutant of Checked: the check leaves the status that the row was saved with.
CheckedCode(row, status) == [row EXCEPT !.code = status]

\* A status refresh sets both.
Checked(row, status) == [row EXCEPT !.status = status, !.code = status]
=============================================================================
