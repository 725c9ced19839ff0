-------------------------- MODULE InstallProgressMC --------------------------
(* Two processes, two sessions and up to two intents of one user. *)
EXTENDS InstallProgress, TLC

CONSTANTS p1, p2, i1, i2, s1, s2
Symmetry ==
    Permutations({p1, p2}) \cup Permutations({i1, i2}) \cup Permutations({s1, s2})

\* At most one process reads, since reads do not see one another, and while it
\* does the other intents have no rows, which its statements would not select.
OneReads ==
    \A p \in Procs : ~Free(p) =>
        /\ \A q \in Procs \ {p} : Free(q)
        /\ \A i \in Intents \ {view[p].intent} : intent[i] = "absent"

\* A session expires before its callback is recorded or not at all: afterwards
\* the expiry only refuses a consumption or a preview, which may be late anyway,
\* and a report of it is overridden by that of the callback.
ExpiryMatters == \A s \in expired : callback[s] = "none"

Bounds == OneReads /\ ExpiryMatters
=============================================================================
