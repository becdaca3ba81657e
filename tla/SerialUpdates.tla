---------------------------- MODULE SerialUpdates ----------------------------
(* What the operations of a team take for granted about each other: one at a *)
(* time is under way, and what it writes contains all that was written       *)
(* before. It may die at any point. The promise ends with the first removal  *)
(* of the lock that comes late.                                              *)
CONSTANTS Process, Change, Nobody

VARIABLES
    stored,  \* the changes that the files of the team contain
    busy,    \* whose operation is under way, or Nobody
    late     \* a removal of the lock was late

vars == <<stored, busy, late>>

Init == stored = {} /\ busy = Nobody /\ ~late

Begin(p) ==
    /\ busy = Nobody
    /\ busy' = p
    /\ UNCHANGED <<stored, late>>

Update(p) ==
    /\ busy = p
    /\ \E c \in Change \ stored : stored' = stored \cup {c}
    /\ UNCHANGED <<busy, late>>

\* It returns, or dies.
End(p) ==
    /\ busy = p
    /\ busy' = Nobody
    /\ UNCHANGED <<stored, late>>

\* From here on nothing is promised.
AnythingGoes == late'

Next == AnythingGoes \/ \E p \in Process : Begin(p) \/ Update(p) \/ End(p)

Spec == Init /\ [][Next]_vars
==============================================================================
