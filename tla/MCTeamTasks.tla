---------------------------- MODULE MCTeamTasks ------------------------------
(* Models of TeamTasks for TLC.                                             *)
EXTENDS TeamTasks, TLC

CONSTANTS w1, w2

(* One task contended by two workers: leases, scale-down, stale saves.      *)
TwoWorkers == {w1, w2}
AnyOwner   == {NoOwner, w1, w2}
Swap       == Permutations(TwoWorkers)
BlockedToo == Open
NoDeps     == {{}}

(* Two task files and one worker: id allocation and dependencies.           *)
OneWorker  == {w1}
Pending    == {"pending"}
Unowned    == {NoOwner}
ChainDeps  == {{}, {1}}
==============================================================================
