------------------------------- MODULE DirLock -------------------------------
(* The directory lock that serializes the operations of a team: mkdir takes  *)
(* it, an `owner' file and a `lease' file say whose it is and that he is      *)
(* alive, and whoever finds the lease too old removes the directory.         *)
(* Source: src/src/team/state/locks.ts (withTeamLock, withScalingLock).      *)
(*                                                                           *)
(* Processes know the directory by its path only, so a process may write     *)
(* into, or remove, a directory that somebody else has made meanwhile.       *)
EXTENDS Naturals

CONSTANTS
    Process,     \* callers that compete for the lock of one team
    Mortal,      \* those that may die while they use it
    StaleAfter,  \* lockStaleMs, in ticks
    Pause,       \* most ticks between two steps of a process that holds the lock
    NoLock, NoOwner

\* The heartbeat runs three times in lockStaleMs: one of them may be late.
ASSUME StaleAssumption == StaleAfter \in Nat /\ Pause \in Nat /\ 2 * Pause <= StaleAfter
ASSUME MortalAssumption == Mortal \subseteq Process
ASSUME SentinelAssumption ==
    NoLock \notin [owner: Process \cup {NoOwner}, lease: BOOLEAN, age: Nat]

VARIABLES
    dir,  \* the lock directory, or NoLock; its age is that of the lease file,
          \* or of the directory as long as there is none
    pc,   \* where each process is in withTeamLock
    idle, \* ticks since each process inside took its last step
    late  \* history: a directory found stale was removed when it was stale no more

vars == <<dir, pc, idle, late>>

Dir == [owner: Process \cup {NoOwner}, lease: BOOLEAN, age: 0..(StaleAfter + 1)]

\* The steps of a process that has made the directory; it is alive in all of them.
Inside == {"owner", "lease", "in", "remove"}

Step(p, from, to) ==
    /\ pc[p] = from
    /\ pc' = [pc EXCEPT ![p] = to]
    /\ idle' = [idle EXCEPT ![p] = 0]

\* Bug form: without a lease file the directory is taken for abandoned.
StaleWithoutLease == dir # NoLock /\ (dir.age > StaleAfter \/ ~dir.lease)
\* isStaleLock: the time of the lease file, else the time of the directory.
Stale == dir # NoLock /\ dir.age > StaleAfter

------------------------------------------------------------------------------
Init ==
    /\ dir = NoLock
    /\ pc = [p \in Process |-> "out"]
    /\ idle = [p \in Process |-> 0]
    /\ late = FALSE

Mkdir(p) ==
    /\ Step(p, "out", "owner")
    /\ dir = NoLock
    /\ dir' = [owner |-> NoOwner, lease |-> FALSE, age |-> 0]
    /\ UNCHANGED late

\* maybeRecoverStaleLock: the answer is used after an await, whatever happened since.
JudgeStale(p) ==
    /\ Step(p, "out", "judged")
    /\ Stale
    /\ UNCHANGED <<dir, late>>

\* rm -rf of the path, whatever directory is there by now.
RemoveStale(p) ==
    /\ Step(p, "judged", "out")
    /\ dir' = NoLock
    /\ late' = (late \/ (dir # NoLock /\ ~Stale))

WriteOwner(p) ==
    /\ Step(p, "owner", "lease")
    /\ dir # NoLock
    /\ dir' = [owner |-> p, lease |-> dir.lease,
                age |-> IF dir.lease \/ dir.owner # NoOwner THEN dir.age ELSE 0]
    /\ UNCHANGED late

WriteLease(p) ==
    /\ Step(p, "lease", "in")
    /\ dir # NoLock
    /\ dir' = [owner |-> dir.owner, lease |-> TRUE, age |-> 0]
    /\ UNCHANGED late

\* ENOENT: the directory was taken away under the process.
WriteFails(p) ==
    /\ Step(p, "owner", "abort") \/ Step(p, "lease", "abort")
    /\ dir = NoLock
    /\ UNCHANGED <<dir, late>>

\* The catch block removes the path before it throws.
Abort(p) ==
    /\ Step(p, "abort", "out")
    /\ dir' = NoLock
    /\ UNCHANGED late

\* Bug form: the owner file is refreshed, not the lease file that isStaleLock reads.
HeartbeatOfOwner(p) ==
    /\ Step(p, "in", "in")
    /\ dir # NoLock /\ dir.owner = p /\ dir.lease
    /\ UNCHANGED <<dir, late>>
\* The timer fires; a process whose directory is gone or taken refreshes nothing.
Heartbeat(p) ==
    /\ Step(p, "in", "in")
    /\ dir' = IF dir # NoLock /\ dir.owner = p /\ dir.lease
               THEN [owner |-> p, lease |-> TRUE, age |-> 0] ELSE dir
    /\ UNCHANGED late

\* The heartbeat stops and the owner file is read; the removal follows.
Leave(p) ==
    /\ IF dir # NoLock /\ dir.owner = p THEN Step(p, "in", "remove") ELSE Step(p, "in", "out")
    /\ UNCHANGED <<dir, late>>

Release(p) ==
    /\ Step(p, "remove", "out")
    /\ dir' = NoLock
    /\ UNCHANGED late

\* What a removal that was cut short leaves: one of the two files, or none.
HalfRemoved ==
    {[owner |-> NoOwner, lease |-> dir.lease, age |-> IF dir.lease THEN dir.age ELSE 0],
     [owner |-> NoOwner, lease |-> FALSE, age |-> 0],
     [owner |-> dir.owner, lease |-> FALSE, age |-> 0]}

\* Death while waiting for the lock, with nothing on disk, is not a step.
Crash(p) ==
    /\ p \in Mortal
    /\ pc[p] \notin {"out", "crashed"}
    /\ pc' = [pc EXCEPT ![p] = "crashed"]
    /\ idle' = [idle EXCEPT ![p] = 0]
    /\ \/ UNCHANGED dir
       \/ pc[p] \in {"judged", "abort", "remove"} /\ dir # NoLock /\ dir' \in HalfRemoved
    /\ late' = (late \/ (pc[p] = "judged" /\ dir' # dir /\ ~Stale))

Older == [owner |-> dir.owner, lease |-> dir.lease, age |-> dir.age + 1]

\* Time passes for the directory (no further than it takes to be stale) and for
\* the processes inside, none of which is suspended for longer than Pause.
Waiting ==
    /\ \A p \in Process : pc[p] \in Inside => idle[p] < Pause
    /\ idle' = [p \in Process |-> IF pc[p] \in Inside THEN idle[p] + 1 ELSE 0]
    /\ UNCHANGED <<pc, late>>

\* Bug form: a directory without a lease file never grows stale.
TickIfLeased ==
    /\ Waiting
    /\ dir # NoLock
    /\ dir' = IF dir.lease /\ dir.age <= StaleAfter THEN Older ELSE dir
Tick ==
    /\ Waiting
    /\ dir # NoLock
    /\ dir' = IF dir.age <= StaleAfter THEN Older ELSE dir

\* What a live process does by itself.
Proceed(p) ==
    \/ Mkdir(p) \/ JudgeStale(p) \/ RemoveStale(p)
    \/ WriteOwner(p) \/ WriteLease(p) \/ WriteFails(p) \/ Abort(p)
    \/ Leave(p) \/ Release(p)

Next ==
    \/ \E p \in Process : Proceed(p) \/ Heartbeat(p) \/ Crash(p)
    \/ Tick

Spec == Init /\ [][Next]_vars

\* Fairness: live processes go on, a call ends, and time passes.
FairSpec ==
    /\ Spec
    /\ \A p \in Process : WF_vars(Proceed(p))
    /\ WF_vars(Tick)

------------------------------------------------------------------------------
(* Type invariant *)
TypeOK ==
    /\ dir \in Dir \cup {NoLock}
    /\ pc \in [Process -> Inside \cup {"out", "judged", "abort", "crashed"}]
    /\ idle \in [Process -> 0..Pause]
    /\ late \in BOOLEAN

------------------------------------------------------------------------------
(* Properties *)

\* "Serializes membership snapshots with task creation and claims": two live
\* processes are never inside at once. With two that find the same directory stale
\* the code does not give this: see ExclusionUnlessLate.
MutualExclusion ==
    \A p, q \in Process : pc[p] \in {"in", "remove"} /\ pc[q] \in {"in", "remove"} => p = q

\* A process inside still owns the directory on disk: nobody has removed or
\* rewritten it, so its heartbeat and its release act on its own lock.
HolderKeepsLock ==
    \A p \in Process : pc[p] \in {"in", "remove"} =>
        dir # NoLock /\ dir.owner = p /\ dir.lease

\* Nothing but a late removal lets two processes in, or takes the lock of a live
\* holder away: no death, no pause, no half-removed directory does.
ExclusionUnlessLate == late \/ (MutualExclusion /\ HolderKeepsLock)

\* As long as no process has died with the lock in its hands, no removal is late:
\* however slow the live ones are, none is taken for dead.
LateNeedsDeath == late => \E p \in Process : pc[p] = "crashed"

\* The lock of a process that died does not stay for ever, wherever it died:
\* the survivors wait for the lease, or the directory, to grow old.
DeadLockRecovered ==
    \A p \in Process :
        (pc[p] = "crashed" /\ dir # NoLock /\ \A q \in Process : pc[q] \notin Inside)
            ~> (dir = NoLock \/ \A q \in Process : pc[q] = "crashed")
==============================================================================
