---------------------------- MODULE GuardedUpdates ---------------------------
(* The membership barrier together with what it is for: callbacks that read  *)
(* a file of the team, change the contents and write the whole file back.    *)
(* Source: src/src/team/state.ts (withTeamTaskBarrier and the operations that *)
(* run in it), on top of DirLock.                                            *)
EXTENDS DirLock

CONSTANTS
    Change,  \* changes that callbacks make, each of them once
    NoView,
    Nobody

ASSUME NoViewAssumption == \A contents \in SUBSET Change : contents # NoView
ASSUME NobodyAssumption == Nobody \notin Process

VARIABLES
    stored,  \* the changes that the files on disk contain
    view,    \* what each callback has in memory, or NoView
    done     \* history: the changes whose write has returned

data == <<stored, done>>
guardedVars == <<vars, data, view>>

GuardedInit ==
    /\ Init
    /\ stored = {} /\ done = {}
    /\ view = [p \in Process |-> NoView]

\* A step of the lock; who leaves the callback, or dies, forgets what he read.
LockStep ==
    /\ Next
    /\ view' = [p \in Process |-> IF pc[p] = "in" /\ pc'[p] # "in" THEN NoView ELSE view[p]]
    /\ UNCHANGED data

\* Bug form: the file is read before the barrier is entered.
ReadEarly(p) ==
    /\ pc[p] \in {"out", "in"}
    /\ view' = [view EXCEPT ![p] = stored]
    /\ UNCHANGED <<vars, data>>
\* The heartbeat is a timer of its own: reads and writes do not refresh the lease.
Read(p) ==
    /\ pc[p] = "in"
    /\ view' = [view EXCEPT ![p] = stored]
    /\ UNCHANGED <<vars, data>>

\* writeAtomic of the contents read, with one change more.
Write(p) ==
    /\ pc[p] = "in" /\ view[p] # NoView
    /\ \E c \in Change \ done :
        /\ stored' = view[p] \cup {c}
        /\ view' = [view EXCEPT ![p] = view[p] \cup {c}]
        /\ done' = done \cup {c}
    /\ UNCHANGED vars

GuardedNext == LockStep \/ \E p \in Process : Read(p) \/ Write(p)

GuardedSpec == GuardedInit /\ [][GuardedNext]_guardedVars

\* Fairness: that of the lock. Callbacks may read and write as they like.
GuardedFairSpec ==
    /\ GuardedSpec
    /\ \A p \in Process : WF_guardedVars(Proceed(p) /\ LockStep)
    /\ WF_guardedVars(Tick /\ LockStep)

------------------------------------------------------------------------------
(* Type invariant of what is added to DirLock *)
DataTypeOK ==
    /\ stored \subseteq Change /\ done \subseteq Change
    /\ view \in [Process -> (SUBSET Change) \cup {NoView}]

------------------------------------------------------------------------------
(* Properties *)

\* No update is lost: whatever callbacks interleave, are delayed or die, the files
\* contain every change whose write has returned. Only a late removal of the lock
\* lets one callback overwrite what another has written.
NothingLost == stored = done
NothingLostUnlessLate == late \/ NothingLost

\* To whoever looks at the files, the operations in the barrier are done one
\* after the other, each on what the ones before have left, as long as no removal
\* of the lock was late. The models of the task store and of the journal have one
\* `op' at a time for this reason.
Busy == IF \E p \in Process : pc[p] = "in" THEN CHOOSE p \in Process : pc[p] = "in" ELSE Nobody

Serial == INSTANCE SerialUpdates WITH busy <- Busy
ImplementsSerial == Serial!Spec
==============================================================================
