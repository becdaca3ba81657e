---------------------------- MODULE DirLockProofs ----------------------------
(* Proofs about DirLock: for any number of callers, whoever of them dies, the *)
(* lock excludes until a directory is removed that is stale no more, and that *)
(* does not happen before a caller has died.                                  *)
EXTENDS DirLock, TLAPS

\* Whoever has found the directory stale removes it, whole or in part, while it is.
RemovalsCurrent ==
    \A p \in Process : pc[p] = "judged" /\ pc'[p] # "judged" /\ dir' # dir => Stale

\* Nobody has died while he was using the lock.
AllAlive == \A p \in Process : pc[p] # "crashed"

------------------------------------------------------------------------------
(* The inductive invariant *)

\* Whoever is inside is the only one that takes steps on the directory, but for
\* those who have found an older one stale.
Alone ==
    \A p, q \in Process : pc[p] \in Inside /\ q # p => pc[q] \in {"out", "judged", "crashed"}

\* The directory of whoever is inside is his, and not older than his pauses.
Fresh ==
    \A p \in Process : pc[p] \in Inside =>
        /\ dir # NoLock
        /\ pc[p] = "remove" => dir.age <= Pause + idle[p]
        /\ pc[p] # "remove" => dir.age <= idle[p]
        /\ pc[p] = "owner" => dir.owner = NoOwner /\ ~dir.lease
        /\ pc[p] = "lease" => dir.owner = p
        /\ pc[p] \in {"in", "remove"} => dir.owner = p /\ dir.lease

\* Nobody's directory is taken away while he writes into it.
NoAbort == \A p \in Process : pc[p] # "abort"

SafeInv == TypeOK /\ Alone /\ Fresh /\ NoAbort

\* As long as nobody has died a directory has a live maker, and nobody finds it stale.
LiveInv ==
    /\ SafeInv
    /\ ~late
    /\ \A p \in Process : pc[p] # "judged"
    /\ dir # NoLock => \E p \in Process : pc[p] \in Inside

IInv == TypeOK /\ (late \/ SafeInv) /\ (AllAlive => LiveInv)

------------------------------------------------------------------------------
(* Types, for all callers and all deaths *)

\* A directory is not the absence of one.
LEMMA DirIsThere == \A d \in Dir : d # NoLock
  BY SentinelAssumption, StaleAssumption DEF Dir

LEMMA HalfRemovedTyped ==
  ASSUME dir \in Dir  PROVE HalfRemoved \subseteq Dir
<1> SUFFICES ASSUME NEW d \in HalfRemoved  PROVE d \in Dir
  OBVIOUS
<1>1. dir.owner \in Process \cup {NoOwner} /\ dir.lease \in BOOLEAN
      /\ dir.age \in 0..(StaleAfter + 1) /\ 0 \in 0..(StaleAfter + 1)
  BY StaleAssumption DEF Dir
<1>2. CASE d = [owner |-> NoOwner, lease |-> dir.lease,
                age |-> IF dir.lease THEN dir.age ELSE 0]
  BY <1>1, <1>2 DEF Dir
<1>3. CASE d = [owner |-> NoOwner, lease |-> FALSE, age |-> 0]
  BY <1>1, <1>3 DEF Dir
<1>4. CASE d = [owner |-> dir.owner, lease |-> FALSE, age |-> 0]
  BY <1>1, <1>4 DEF Dir
<1> QED BY <1>2, <1>3, <1>4 DEF HalfRemoved

LEMMA TickTyped ==
  ASSUME TypeOK, Tick
  PROVE  /\ dir \in Dir /\ dir' \in Dir /\ dir' # NoLock /\ pc' = pc
         /\ dir'.owner = dir.owner /\ dir'.lease = dir.lease /\ dir'.age <= dir.age + 1
<1>1. dir \in Dir /\ pc' = pc
  BY DEF TypeOK, Tick, Waiting
<1>2. dir' \in Dir /\ dir'.owner = dir.owner /\ dir'.lease = dir.lease
      /\ dir'.age <= dir.age + 1
  BY <1>1, StaleAssumption DEF Tick, Older, Dir
<1> QED BY <1>1, <1>2, DirIsThere

LEMMA TypeKeeps ==
  ASSUME TypeOK, [Next]_vars  PROVE TypeOK'
<1> USE StaleAssumption DEF TypeOK, Inside
<1>1. ASSUME NEW p \in Process, Mkdir(p)  PROVE TypeOK'
  BY <1>1 DEF Mkdir, Step, Dir
<1>2. ASSUME NEW p \in Process,
             \/ JudgeStale(p) \/ RemoveStale(p) \/ WriteFails(p) \/ Abort(p)
             \/ Leave(p) \/ Release(p)
      PROVE  TypeOK'
  <2>1. late' \in BOOLEAN
    BY <1>2, Zenon DEF JudgeStale, RemoveStale, WriteFails, Abort, Leave, Release
  <2> QED BY <1>2, <2>1 DEF JudgeStale, RemoveStale, WriteFails, Abort, Leave, Release, Step
<1>3. ASSUME NEW p \in Process, WriteOwner(p) \/ WriteLease(p) \/ Heartbeat(p)
      PROVE  TypeOK'
  <2>1. CASE WriteOwner(p)
    <3>1. dir' \in Dir
      BY <2>1 DEF WriteOwner, Dir
    <3> QED BY <2>1, <3>1 DEF WriteOwner, Step
  <2>2. CASE WriteLease(p)
    <3>1. dir' \in Dir
      BY <2>2 DEF WriteLease, Dir
    <3> QED BY <2>2, <3>1 DEF WriteLease, Step
  <2>3. CASE Heartbeat(p)
    <3>1. dir' \in Dir \cup {NoLock}
      BY <2>3 DEF Heartbeat, Dir
    <3> QED BY <2>3, <3>1 DEF Heartbeat, Step
  <2> QED BY <1>3, <2>1, <2>2, <2>3
<1>4. ASSUME NEW p \in Process, Crash(p)  PROVE TypeOK'
  <2>1. dir' \in Dir \cup {NoLock}
    BY <1>4, HalfRemovedTyped DEF Crash
  <2>2. late' \in BOOLEAN
    BY <1>4, Zenon DEF Crash
  <2> QED BY <1>4, <2>1, <2>2 DEF Crash
<1>5. CASE Tick
  <2>1. dir' \in Dir
    BY <1>5, TickTyped
  <2>2. idle' \in [Process -> 0..Pause]
    BY <1>5 DEF Tick, Waiting
  <2> QED BY <1>5, <2>1, <2>2 DEF Tick, Waiting
<1>6. CASE UNCHANGED vars
  BY <1>6 DEF vars
<1> QED BY <1>1, <1>2, <1>3, <1>4, <1>5, <1>6 DEF Next, Proceed

LEMMA InitTyped == Init => TypeOK
<1>1. Init => late \in BOOLEAN
  BY Zenon DEF Init
<1>2. Init => dir = NoLock /\ pc \in [Process -> {"out"}] /\ idle \in [Process -> 0..Pause]
  BY StaleAssumption DEF Init
<1> QED BY <1>1, <1>2 DEF TypeOK

\* Every variable of the lock keeps its type, whoever dies.
THEOREM TypeCorrect == Spec => []TypeOK
<1>1. Init => TypeOK
  BY InitTyped
<1> QED BY <1>1, TypeKeeps, PTL DEF Spec

------------------------------------------------------------------------------
(* Every step keeps the invariant if removals are current *)

LEMMA InitEstablishes == Init => IInv
<1>1. Init => SafeInv
  BY InitTyped DEF Init, SafeInv, Alone, Fresh, NoAbort, Inside
<1>2. Init => LiveInv
  BY <1>1 DEF Init, LiveInv
<1> QED BY <1>1, <1>2 DEF IInv, SafeInv

\* The directory of whoever is inside does not look stale.
LEMMA InsideIsFresh ==
  ASSUME SafeInv, NEW p \in Process, pc[p] \in Inside
  PROVE  dir # NoLock /\ dir \in Dir /\ dir.age \in Nat /\ ~Stale
<1>1. dir # NoLock /\ dir \in Dir
  BY DEF SafeInv, TypeOK, Fresh
<1>2. dir.age <= Pause + idle[p] /\ idle[p] <= Pause /\ idle[p] \in Nat /\ dir.age \in Nat
  BY <1>1, StaleAssumption DEF SafeInv, TypeOK, Fresh, Inside, Dir
<1> QED BY <1>1, <1>2, StaleAssumption DEF Stale

\* mkdir succeeds only when nobody is inside.
LEMMA MkdirKeeps ==
  ASSUME SafeInv, NEW p \in Process, Mkdir(p), TypeOK'  PROVE SafeInv'
<1>1. dir' # NoLock /\ dir'.age = 0 /\ dir'.owner = NoOwner /\ ~dir'.lease
  <2>1. dir' \in Dir
    BY StaleAssumption DEF Mkdir, Dir
  <2> QED BY <2>1, DirIsThere DEF Mkdir
<1>2. \A q \in Process \ {p} : pc'[q] = pc[q] /\ pc[q] \in {"out", "judged", "crashed"}
  BY DEF SafeInv, TypeOK, Fresh, NoAbort, Mkdir, Step
<1>3. pc'[p] = "owner" /\ idle'[p] = 0
  BY DEF SafeInv, TypeOK, Mkdir, Step
<1>4. Fresh'
  BY <1>1, <1>2, <1>3 DEF Fresh, Inside
<1> QED BY <1>2, <1>3, <1>4 DEF SafeInv, Alone, NoAbort, Inside

\* The removal of a directory that is stale disturbs nobody: nobody is inside.
LEMMA RemoveKeeps ==
  ASSUME SafeInv, NEW p \in Process, RemoveStale(p), RemovalsCurrent, TypeOK'
  PROVE  SafeInv'
<1>1. pc[p] = "judged" /\ pc'[p] = "out" /\ dir' = NoLock
  BY DEF SafeInv, TypeOK, RemoveStale, Step
<1>2. dir = NoLock \/ Stale
  BY <1>1 DEF RemovalsCurrent
<1>3. \A q \in Process : pc[q] \notin Inside
  BY <1>2, InsideIsFresh
<1>4. \A q \in Process : pc'[q] \notin Inside /\ pc'[q] # "abort"
  BY <1>1, <1>3 DEF SafeInv, TypeOK, NoAbort, RemoveStale, Step, Inside
<1> QED BY <1>4 DEF SafeInv, Alone, Fresh, NoAbort

LEMMA JudgeKeeps ==
  ASSUME SafeInv, NEW p \in Process, JudgeStale(p), TypeOK'  PROVE SafeInv'
<1>1. dir' = dir /\ pc' = [pc EXCEPT ![p] = "judged"] /\ idle' = [idle EXCEPT ![p] = 0]
  BY DEF JudgeStale, Step
<1> QED BY <1>1 DEF SafeInv, TypeOK, Alone, Fresh, NoAbort, Inside

LEMMA WriteKeeps ==
  ASSUME SafeInv, NEW p \in Process, WriteOwner(p) \/ WriteLease(p) \/ Heartbeat(p), TypeOK'
  PROVE  SafeInv'
<1>1. pc[p] \in Inside /\ pc'[p] \in Inside \ {"owner", "remove"}
  BY DEF SafeInv, TypeOK, WriteOwner, WriteLease, Heartbeat, Step, Inside
<1>2. \A q \in Process \ {p} : pc'[q] = pc[q] /\ pc[q] \in {"out", "judged", "crashed"}
  BY <1>1 DEF SafeInv, Alone, TypeOK, WriteOwner, WriteLease, Heartbeat, Step
<1>3. idle'[p] = 0
  BY DEF SafeInv, TypeOK, WriteOwner, WriteLease, Heartbeat, Step
<1>4. dir # NoLock /\ dir \in Dir
  BY <1>1, InsideIsFresh
<1>5. dir' \in Dir /\ dir'.age = 0 /\ dir'.owner = p /\ (pc'[p] = "in" => dir'.lease)
  <2>1. CASE WriteOwner(p)
    BY <1>4, <2>1, StaleAssumption
    DEF SafeInv, TypeOK, Fresh, WriteOwner, Step, Dir, Inside
  <2>2. CASE WriteLease(p)
    BY <1>4, <2>2, StaleAssumption
    DEF SafeInv, TypeOK, Fresh, WriteLease, Step, Dir, Inside
  <2>3. CASE Heartbeat(p)
    BY <1>4, <2>3, StaleAssumption
    DEF SafeInv, TypeOK, Fresh, Heartbeat, Step, Dir, Inside
  <2> QED BY <2>1, <2>2, <2>3
<1>6. dir' # NoLock
  BY <1>5, DirIsThere
<1>7. Fresh'
  BY <1>1, <1>2, <1>3, <1>5, <1>6 DEF Fresh, Inside
<1> QED BY <1>1, <1>2, <1>7 DEF SafeInv, Alone, NoAbort, Inside

\* A holder that leaves finds his own name in the directory, and removes it.
LEMMA LeaveKeeps ==
  ASSUME SafeInv, NEW p \in Process, Leave(p), TypeOK'  PROVE SafeInv'
<1>1. pc[p] = "in" /\ pc'[p] = "remove" /\ dir' = dir /\ idle'[p] = 0
      /\ pc' = [pc EXCEPT ![p] = "remove"]
  BY DEF SafeInv, TypeOK, Fresh, Leave, Step, Inside
<1>2. \A q \in Process \ {p} : pc'[q] = pc[q] /\ pc[q] \in {"out", "judged", "crashed"}
  BY <1>1 DEF SafeInv, TypeOK, Alone, Inside
<1>3. dir # NoLock /\ dir.owner = p /\ dir.lease /\ dir.age <= Pause
  BY <1>1, InsideIsFresh, StaleAssumption DEF SafeInv, TypeOK, Fresh, Inside
<1>4. Fresh'
  BY <1>1, <1>2, <1>3, StaleAssumption DEF Fresh, Inside
<1> QED BY <1>1, <1>2, <1>4 DEF SafeInv, Alone, NoAbort, Inside

LEMMA ReleaseKeeps ==
  ASSUME SafeInv, NEW p \in Process, Release(p), TypeOK'  PROVE SafeInv'
<1>1. pc[p] = "remove" /\ pc'[p] = "out"
  BY DEF SafeInv, TypeOK, Release, Step
<1>2. \A q \in Process \ {p} : pc'[q] = pc[q] /\ pc[q] \in {"out", "judged", "crashed"}
  BY <1>1 DEF SafeInv, TypeOK, Alone, Release, Step, Inside
<1> QED BY <1>1, <1>2 DEF SafeInv, Alone, Fresh, NoAbort, Inside

\* A death leaves the directory, whole or in part; in part only if it was stale, or
\* his own.
LEMMA CrashKeeps ==
  ASSUME SafeInv, NEW p \in Process, Crash(p), RemovalsCurrent, TypeOK'
  PROVE  SafeInv'
<1>1. pc[p] # "crashed" /\ pc' = [pc EXCEPT ![p] = "crashed"] /\ pc[p] # "abort"
      /\ idle' = [idle EXCEPT ![p] = 0]
  BY DEF SafeInv, NoAbort, Crash
<1>2. pc'[p] = "crashed" /\ \A q \in Process \ {p} : pc'[q] = pc[q] /\ idle'[q] = idle[q]
  BY <1>1 DEF SafeInv, TypeOK
<1>3. Alone' /\ NoAbort'
  BY <1>2 DEF SafeInv, Alone, NoAbort, Inside
<1>4. CASE dir' = dir
  BY <1>2, <1>3, <1>4 DEF SafeInv, Fresh, Inside
<1>5. CASE dir' # dir
  <2>1. Stale \/ pc[p] \in Inside
    BY <1>1, <1>2, <1>5 DEF Crash, RemovalsCurrent, Inside
  <2>2. \A q \in Process \ {p} : pc[q] \notin Inside
    BY <2>1, InsideIsFresh DEF SafeInv, Alone, Inside
  <2> QED BY <1>2, <1>3, <2>2 DEF SafeInv, Fresh, Inside
<1> QED BY <1>4, <1>5

\* The directory grows no older than the process that holds it is idle.
LEMMA TickKeeps ==
  ASSUME SafeInv, Tick, TypeOK'  PROVE SafeInv'
<1>1. dir \in Dir /\ dir' \in Dir /\ dir' # NoLock /\ pc' = pc
      /\ dir'.owner = dir.owner /\ dir'.lease = dir.lease /\ dir'.age <= dir.age + 1
  BY TickTyped DEF SafeInv
<1>2. Fresh'
  <2> SUFFICES ASSUME NEW p \in Process, pc[p] \in Inside
      PROVE /\ pc[p] = "remove" => dir'.age <= Pause + idle'[p]
            /\ pc[p] # "remove" => dir'.age <= idle'[p]
            /\ pc[p] = "owner" => dir'.owner = NoOwner /\ ~dir'.lease
            /\ pc[p] = "lease" => dir'.owner = p
            /\ pc[p] \in {"in", "remove"} => dir'.owner = p /\ dir'.lease
    BY <1>1 DEF Fresh
  <2>1. idle'[p] = idle[p] + 1 /\ idle[p] \in Nat /\ dir.age \in Nat /\ dir'.age \in Nat
    BY <1>1, StaleAssumption DEF SafeInv, TypeOK, Dir, Tick, Waiting
  <2> QED BY <1>1, <2>1, StaleAssumption DEF SafeInv, Fresh
<1> QED BY <1>1, <1>2 DEF SafeInv, Alone, NoAbort

\* Nobody writes into a directory that is gone, so nobody fails to.
LEMMA NoWriteFails ==
  ASSUME SafeInv, NEW p \in Process  PROVE ~WriteFails(p) /\ ~Abort(p)
  BY DEF SafeInv, Fresh, NoAbort, WriteFails, Abort, Step, Inside

LEMMA SafeKeeps ==
  ASSUME SafeInv, RemovalsCurrent, [Next]_vars  PROVE SafeInv'
<1>0. TypeOK'
  BY TypeKeeps DEF SafeInv
<1>1. CASE Tick
  BY <1>0, <1>1, TickKeeps
<1>2. ASSUME NEW p \in Process, Proceed(p) \/ Heartbeat(p) \/ Crash(p)  PROVE SafeInv'
  BY <1>0, <1>2, MkdirKeeps, JudgeKeeps, RemoveKeeps, WriteKeeps, LeaveKeeps, ReleaseKeeps,
     CrashKeeps, NoWriteFails DEF Proceed
<1>3. CASE UNCHANGED vars
  BY <1>3 DEF vars, SafeInv, TypeOK, Alone, Fresh, NoAbort
<1> QED BY <1>1, <1>2, <1>3 DEF Next

------------------------------------------------------------------------------
(* What a late removal changes *)

\* As long as no removal was late, none has been; and a step that is not late
\* removes only what is stale.
LEMMA StillCurrent ==
  ASSUME TypeOK, [Next]_vars, ~late'  PROVE ~late /\ RemovalsCurrent
<1>1. CASE Tick \/ UNCHANGED vars
  BY <1>1 DEF Tick, Waiting, vars, RemovalsCurrent
<1>2. ASSUME NEW p \in Process, RemoveStale(p) \/ Crash(p)  PROVE ~late /\ RemovalsCurrent
  <2>1. \A q \in Process \ {p} : pc'[q] = pc[q]
    BY <1>2 DEF RemoveStale, Crash, Step, TypeOK
  <2>2. ~late /\ (pc[p] = "judged" /\ dir' # dir => Stale)
    BY <1>2 DEF RemoveStale, Crash, Step
  <2> QED BY <2>1, <2>2 DEF RemovalsCurrent
<1>3. ASSUME NEW p \in Process,
             \/ Mkdir(p) \/ JudgeStale(p) \/ WriteOwner(p) \/ WriteLease(p) \/ WriteFails(p)
             \/ Abort(p) \/ Heartbeat(p) \/ Leave(p) \/ Release(p)
      PROVE  ~late /\ RemovalsCurrent
  <2>1. late' = late /\ pc[p] # "judged"
    BY <1>3 DEF Mkdir, JudgeStale, WriteOwner, WriteLease, WriteFails, Abort, Heartbeat,
       Leave, Release, Step
  <2>2. \A q \in Process \ {p} : pc'[q] = pc[q]
    BY <1>3 DEF Mkdir, JudgeStale, WriteOwner, WriteLease, WriteFails, Abort, Heartbeat,
       Leave, Release, Step, TypeOK
  <2> QED BY <2>1, <2>2 DEF RemovalsCurrent
<1> QED BY <1>1, <1>2, <1>3 DEF Next, Proceed

LEMMA SafeUnlessLate ==
  ASSUME TypeOK, late \/ SafeInv, [Next]_vars  PROVE late' \/ SafeInv'
  BY StillCurrent, SafeKeeps

LEMMA SafeExcludes == SafeInv => MutualExclusion /\ HolderKeepsLock
  BY DEF SafeInv, Alone, Fresh, MutualExclusion, HolderKeepsLock, Inside

------------------------------------------------------------------------------
(* Before the first death *)

\* The dead stay dead.
LEMMA DeadStayDead ==
  ASSUME TypeOK, [Next]_vars, AllAlive'  PROVE AllAlive
<1>1. CASE Tick \/ UNCHANGED vars
  BY <1>1 DEF Tick, Waiting, vars, AllAlive
<1>2. ASSUME NEW p \in Process, Proceed(p) \/ Heartbeat(p) \/ Crash(p)  PROVE AllAlive
  <2>1. pc[p] # "crashed" /\ \E to : pc' = [pc EXCEPT ![p] = to]
    BY <1>2 DEF Proceed, Mkdir, JudgeStale, RemoveStale, WriteOwner, WriteLease, WriteFails,
       Abort, Leave, Release, Heartbeat, Crash, Step
  <2> QED BY <2>1 DEF TypeOK, AllAlive
<1> QED BY <1>1, <1>2 DEF Next

\* No directory looks stale as long as its maker is alive.
LEMMA NothingStale ==
  ASSUME LiveInv, NEW p \in Process
  PROVE  ~JudgeStale(p) /\ ~RemoveStale(p) /\ ~WriteFails(p) /\ ~Abort(p)
<1>1. ~Stale
  BY InsideIsFresh DEF LiveInv, Stale
<1> QED BY <1>1, NoWriteFails DEF LiveInv, JudgeStale, RemoveStale, Step

LEMMA LiveKeeps ==
  ASSUME LiveInv, AllAlive', [Next]_vars  PROVE LiveInv'
<1>1. pc \in [Process -> Inside \cup {"out", "judged", "abort", "crashed"}] /\ RemovalsCurrent
  BY DEF LiveInv, SafeInv, TypeOK, RemovalsCurrent
<1>2. SafeInv'
  BY <1>1, SafeKeeps DEF LiveInv
<1>3. CASE Tick \/ UNCHANGED vars
  BY <1>2, <1>3 DEF Tick, Waiting, vars, LiveInv
<1>4. ASSUME NEW p \in Process, Mkdir(p) \/ WriteOwner(p) \/ WriteLease(p) \/ Heartbeat(p)
                                \/ Leave(p)
      PROVE  LiveInv'
  <2>1. pc'[p] \in Inside
    BY <1>1, <1>4 DEF Mkdir, WriteOwner, WriteLease, Heartbeat, Leave, Step, Inside,
       LiveInv, SafeInv, Fresh
  <2>2. late' = late /\ \A q \in Process \ {p} : pc'[q] = pc[q]
    BY <1>1, <1>4 DEF Mkdir, WriteOwner, WriteLease, Heartbeat, Leave, Step
  <2> QED BY <1>2, <2>1, <2>2 DEF LiveInv, Inside
<1>5. ASSUME NEW p \in Process, Release(p)  PROVE LiveInv'
  <2>1. dir' = NoLock /\ late' = late /\ pc' = [pc EXCEPT ![p] = "out"]
    BY <1>5 DEF Release, Step
  <2> QED BY <1>1, <1>2, <2>1 DEF LiveInv
<1>6. \A p \in Process : ~Crash(p)
  BY <1>1 DEF Crash, AllAlive
<1> QED BY <1>3, <1>4, <1>5, <1>6, NothingStale DEF Next, Proceed

LEMMA NextKeeps ==
  ASSUME IInv, [Next]_vars  PROVE IInv'
  BY TypeKeeps, SafeUnlessLate, DeadStayDead, LiveKeeps DEF IInv

------------------------------------------------------------------------------
(* Theorems *)

\* The inductive invariant holds in every reachable state, whoever dies.
THEOREM Invariance == Spec => []IInv
<1>1. Init => IInv
  BY InitEstablishes
<1>2. IInv /\ [Next]_vars => IInv'
  BY NextKeeps
<1> QED BY <1>1, <1>2, PTL DEF Spec

\* For any number of callers, of which any may die at any point: two are inside
\* together, or a live holder loses his directory, only after somebody has removed
\* a directory that he had found stale and that was stale no more.
THEOREM ExcludesUnlessLate == Spec => []ExclusionUnlessLate
<1>1. IInv => ExclusionUnlessLate
  BY SafeExcludes DEF IInv, ExclusionUnlessLate
<1> QED BY <1>1, Invariance, PTL

\* Nobody does that before a caller has died while he was using the lock.
THEOREM LateOnlyAfterDeath == Spec => []LateNeedsDeath
<1>1. IInv => LateNeedsDeath
  BY DEF IInv, LiveInv, AllAlive, LateNeedsDeath
<1> QED BY <1>1, Invariance, PTL

\* So until the first death the lock excludes without a condition.
THEOREM ExclusiveUntilDeath == Spec => [](AllAlive => MutualExclusion /\ HolderKeepsLock)
<1>1. IInv => (AllAlive => MutualExclusion /\ HolderKeepsLock)
  BY SafeExcludes DEF IInv, LiveInv
<1> QED BY <1>1, Invariance, PTL
==============================================================================
