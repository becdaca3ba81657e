--------------------------- MODULE AtomicMembership ---------------------------
(* What the membership journal promises: the files of a team (task files,    *)
(* config.json, manifest.v2.json), as the next reader will find them, change *)
(* by whole transactions.  Abstract specification of MembershipTransaction.  *)
EXTENDS Naturals

CONSTANTS File, MaxTxn

VARIABLES
    vis,     \* File -> number of the transaction a reader finds in the file
    before,  \* what a reader found when the running operation began
    open,    \* an operation is running
    bare     \* it takes its changes back without a journal, file by file

avars == <<vis, before, open, bare>>

\* The files of S, all of them and no other, become those of transaction v.
Overlay(view, S, v) == [f \in File |-> IF f \in S THEN v ELSE view[f]]

Init ==
    /\ vis = [f \in File |-> 0]
    /\ before = vis
    /\ open = FALSE
    /\ bare = FALSE

\* One operation installs one transaction, whole, or takes it back, whole.
ChangeFiles ==
    \/ vis' = vis
    \/ /\ open => vis = before
       /\ \E S \in SUBSET File, v \in 1..MaxTxn : vis' = Overlay(vis, S, v)
    \/ open /\ vis' = before
    \/ bare /\ \E f \in File : vis' = [vis EXCEPT ![f] = before[f]]

Step ==
    /\ ChangeFiles
    /\ open' \in BOOLEAN
    /\ bare' \in BOOLEAN
    /\ bare' => open /\ open' /\ (bare \/ vis' = vis)
    /\ before' = IF ~open' THEN vis' ELSE IF open THEN before ELSE vis

Spec == Init /\ [][Step]_avars
==============================================================================
