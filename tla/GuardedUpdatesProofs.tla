------------------------- MODULE GuardedUpdatesProofs ------------------------
(* What the exclusion of DirLock is worth: until a removal of the lock is     *)
(* late, no update is lost and the operations in the barrier are serial. The  *)
(* invariants of the lock are taken from DirLockProofs.                       *)
EXTENDS GuardedUpdates, DirLockProofs

\* What a callback has in memory is what the files contain.
ViewCurrent == \A p \in Process : view[p] # NoView => pc[p] = "in" /\ view[p] = stored

DataInv == DataTypeOK /\ ViewCurrent /\ NothingLost

\* Until a removal is late the data are current.
GuardedInv == IInv /\ (late \/ DataInv)

------------------------------------------------------------------------------
(* The invariant *)

LEMMA GuardedInitEstablishes == GuardedInit => GuardedInv
<1> SUFFICES ASSUME GuardedInit  PROVE GuardedInv
  OBVIOUS
<1>1. IInv
  BY InitEstablishes DEF GuardedInit
<1>2. stored = {} /\ done = {} /\ view = [p \in Process |-> NoView]
  BY DEF GuardedInit
<1>3. DataInv
  BY <1>2 DEF DataInv, DataTypeOK, ViewCurrent, NothingLost
<1> QED BY <1>1, <1>3 DEF GuardedInv

\* The data steps leave the lock alone.
LEMMA LockProjection == ASSUME [GuardedNext]_guardedVars  PROVE [Next]_vars
  BY DEF GuardedNext, guardedVars, LockStep, Read, Write

LEMMA WriteKeepsData ==
  ASSUME SafeInv, DataInv, NEW p \in Process, Write(p)  PROVE DataInv'
<1>1. pc' = pc /\ pc[p] = "in" /\ view[p] = stored
  BY DEF Write, vars, DataInv, DataTypeOK, ViewCurrent
<1>2. PICK c \in Change \ done :
        /\ stored' = stored \cup {c} /\ done' = done \cup {c}
        /\ view' = [view EXCEPT ![p] = stored \cup {c}]
  BY <1>1 DEF Write
<1>3. \A q \in Process \ {p} : view[q] = NoView
  BY <1>1 DEF SafeInv, Alone, Inside, DataInv, ViewCurrent
<1>4. view'[p] = stored' /\ (\A q \in Process \ {p} : view'[q] = NoView)
  BY <1>2, <1>3 DEF DataInv, DataTypeOK
<1> QED BY <1>1, <1>2, <1>4 DEF DataInv, DataTypeOK, ViewCurrent, NothingLost

LEMMA GuardedKeeps ==
  ASSUME SafeInv, DataInv, [GuardedNext]_guardedVars  PROVE DataInv'
<1>1. CASE LockStep
  <2>1. /\ stored' = stored /\ done' = done
        /\ view' = [p \in Process |-> IF pc[p] = "in" /\ pc'[p] # "in" THEN NoView ELSE view[p]]
    BY <1>1 DEF LockStep, data
  <2>2. view' \in [Process -> (SUBSET Change) \cup {NoView}]
    BY <2>1 DEF DataInv, DataTypeOK
  <2>3. ViewCurrent'
    BY <2>1 DEF DataInv, DataTypeOK, ViewCurrent
  <2> QED BY <2>1, <2>2, <2>3 DEF DataInv, DataTypeOK, NothingLost
<1>2. ASSUME NEW p \in Process, Read(p)  PROVE DataInv'
  <2>1. /\ stored' = stored /\ done' = done /\ pc' = pc /\ pc[p] = "in"
        /\ view' = [view EXCEPT ![p] = stored]
    BY <1>2 DEF Read, vars, data
  <2> QED BY <2>1 DEF DataInv, DataTypeOK, ViewCurrent, NothingLost
<1>3. CASE UNCHANGED guardedVars
  BY <1>3 DEF guardedVars, vars, data, DataInv, DataTypeOK, ViewCurrent, NothingLost
<1> QED BY <1>1, <1>2, <1>3, WriteKeepsData DEF GuardedNext

\* As long as it is not late, lock and data are as they should be.
LEMMA NotLate ==
  ASSUME GuardedInv, [GuardedNext]_guardedVars, ~late'
  PROVE  SafeInv /\ DataInv /\ SafeInv' /\ DataInv'
<1>1. [Next]_vars
  BY LockProjection
<1>2. ~late /\ IInv /\ IInv'
  BY <1>1, StillCurrent, NextKeeps DEF GuardedInv, IInv
<1>3. SafeInv /\ SafeInv' /\ DataInv
  BY <1>2 DEF IInv, GuardedInv
<1> QED BY <1>3, GuardedKeeps

\* Lock and data together, whoever dies.
THEOREM GuardedInvariance == GuardedSpec => []GuardedInv
<1>1. GuardedInv /\ [GuardedNext]_guardedVars => GuardedInv'
  BY NotLate, NextKeeps, LockProjection DEF GuardedInv
<1> QED BY <1>1, GuardedInitEstablishes, PTL DEF GuardedSpec

------------------------------------------------------------------------------
(* No update is lost *)

\* For any number of callers, of which any may die at any point: an update is lost
\* only after somebody has removed a directory that was stale no more.
THEOREM NoLostUpdateUnlessLate == GuardedSpec => []NothingLostUnlessLate
<1>1. GuardedInv => NothingLostUnlessLate
  BY DEF GuardedInv, DataInv, NothingLostUnlessLate
<1> QED BY <1>1, GuardedInvariance, PTL

\* And that only after a caller has died while he was using the lock.
THEOREM NoLostUpdateUntilDeath == GuardedSpec => [](AllAlive => NothingLost)
<1>1. GuardedInv => (AllAlive => NothingLost)
  BY DEF GuardedInv, IInv, LiveInv, DataInv
<1> QED BY <1>1, GuardedInvariance, PTL

------------------------------------------------------------------------------
(* The operations are serial *)

LEMMA BusyWhenIn ==
  ASSUME MutualExclusion, NEW p \in Process, pc[p] = "in"  PROVE Busy = p
  BY DEF MutualExclusion, Busy

LEMMA BusyWhenInNext ==
  ASSUME MutualExclusion', NEW p \in Process, pc'[p] = "in"  PROVE Busy' = p
  BY DEF MutualExclusion, Busy

\* Who enters finds nobody inside; who is inside is the only one to leave.
LEMMA LockSteps ==
  ASSUME SafeInv, Next
  PROVE  \/ \A q \in Process : pc'[q] = "in" <=> pc[q] = "in"
         \/ \E p \in Process : pc'[p] = "in" /\ \A q \in Process : pc[q] # "in"
         \/ \E p \in Process : pc[p] = "in" /\ \A q \in Process : pc'[q] # "in"
<1>1. CASE Tick
  BY <1>1 DEF Tick, Waiting
<1>2. ASSUME NEW p \in Process, Proceed(p) \/ Heartbeat(p) \/ Crash(p)
      PROVE  \E to : pc' = [pc EXCEPT ![p] = to] /\ (to = "in" => pc[p] \in {"lease", "in"})
  BY <1>2 DEF Proceed, Mkdir, JudgeStale, RemoveStale, WriteOwner, WriteLease, WriteFails,
     Abort, Leave, Release, Heartbeat, Crash, Step
<1>3. ASSUME NEW p \in Process, NEW to, pc' = [pc EXCEPT ![p] = to],
             to = "in" => pc[p] \in {"lease", "in"}
      PROVE  \/ \A q \in Process : pc'[q] = "in" <=> pc[q] = "in"
             \/ pc'[p] = "in" /\ \A q \in Process : pc[q] # "in"
             \/ pc[p] = "in" /\ \A q \in Process : pc'[q] # "in"
  <2>1. pc'[p] = to /\ \A q \in Process \ {p} : pc'[q] = pc[q]
    BY <1>3 DEF SafeInv, TypeOK
  <2>2. pc[p] \in {"lease", "in"} => \A q \in Process \ {p} : pc[q] # "in"
    BY DEF SafeInv, Alone, Inside
  <2> QED BY <1>3, <2>1, <2>2
<1> QED BY <1>1, <1>2, <1>3 DEF Next

LEMMA SerialLockStep ==
  ASSUME SafeInv, SafeInv', late' = late, LockStep
  PROVE  [Serial!Next]_Serial!vars
<1>1. Next /\ stored' = stored
  BY DEF LockStep, data
<1>2. MutualExclusion /\ MutualExclusion'
  BY SafeExcludes DEF SafeInv, Alone, MutualExclusion, Inside
<1>3. CASE \A q \in Process : pc'[q] = "in" <=> pc[q] = "in"
  <2>1. CASE \E p \in Process : pc[p] = "in"
    BY <1>2, <1>3, <2>1, BusyWhenIn, BusyWhenInNext, <1>1 DEF Serial!vars
  <2>2. CASE \A p \in Process : pc[p] # "in"
    <3>1. Busy = Nobody /\ Busy' = Nobody
      BY <1>3, <2>2 DEF Busy
    <3> QED BY <1>1, <3>1 DEF Serial!vars
  <2> QED BY <2>1, <2>2
<1>4. ASSUME NEW p \in Process, pc'[p] = "in", \A q \in Process : pc[q] # "in"
      PROVE  Serial!Next
  <2>1. Busy = Nobody /\ Busy' = p
    BY <1>2, <1>4, BusyWhenInNext DEF Busy
  <2> QED BY <1>1, <2>1 DEF Serial!Next, Serial!Begin
<1>5. ASSUME NEW p \in Process, pc[p] = "in", \A q \in Process : pc'[q] # "in"
      PROVE  Serial!Next
  <2>1. Busy = p /\ Busy' = Nobody
    BY <1>2, <1>5, BusyWhenIn DEF Busy
  <2> QED BY <1>1, <2>1 DEF Serial!Next, Serial!End
<1> QED BY <1>1, <1>3, <1>4, <1>5, LockSteps

LEMMA SerialWrite ==
  ASSUME SafeInv, DataInv, NEW p \in Process, Write(p)
  PROVE  Serial!Next
<1>1. late' = late /\ pc' = pc /\ pc[p] = "in" /\ view[p] = stored /\ done = stored
  BY DEF Write, vars, DataInv, DataTypeOK, ViewCurrent, NothingLost
<1>2. PICK c \in Change \ stored : stored' = stored \cup {c}
  BY <1>1 DEF Write
<1>3. Busy = p /\ Busy' = Busy
  <2>1. Busy = p
    BY <1>1, BusyWhenIn, SafeExcludes
  <2>2. Busy' = Busy
    BY <1>1 DEF Busy
  <2> QED BY <2>1, <2>2
<1> QED BY <1>1, <1>2, <1>3 DEF Serial!Next, Serial!Update

\* Whoever dies, the operations in the barrier are done one after the other, each
\* on what the ones before have written, until a removal of the lock is late.
THEOREM UpdatesAreSerial == GuardedSpec => ImplementsSerial
<1>1. GuardedInit => Serial!Init
  BY DEF GuardedInit, Init, Serial!Init, Busy
<1>2. ASSUME GuardedInv, [GuardedNext]_guardedVars
      PROVE  [Serial!Next]_Serial!vars
  <2>1. CASE late'
    BY <2>1 DEF Serial!Next, Serial!AnythingGoes
  <2>2. CASE ~late'
    <3>1. SafeInv /\ DataInv /\ SafeInv' /\ DataInv'
      BY <1>2, <2>2, NotLate
    <3>2. late' = late
      <4>1. late \in BOOLEAN /\ late' \in BOOLEAN
        BY <3>1, Zenon DEF SafeInv, TypeOK
      <4>2. ~late
        BY <1>2, <2>2, <3>1, LockProjection, StillCurrent DEF SafeInv
      <4> QED BY <2>2, <4>1, <4>2, Zenon
    <3>3. CASE LockStep
      BY <3>1, <3>2, <3>3, SerialLockStep
    <3>4. ASSUME NEW p \in Process, Write(p)  PROVE Serial!Next
      BY <3>1, <3>4, SerialWrite
    <3>5. ASSUME stored' = stored, pc' = pc  PROVE UNCHANGED Serial!vars
      BY <3>2, <3>5 DEF Serial!vars, Busy
    <3>6. ASSUME NEW p \in Process, Read(p)  PROVE stored' = stored /\ pc' = pc
      BY <3>6 DEF Read, vars, data
    <3>7. CASE UNCHANGED guardedVars
      BY <3>5, <3>7 DEF guardedVars, vars, data
    <3> QED BY <1>2, <3>3, <3>4, <3>5, <3>6, <3>7 DEF GuardedNext
  <2> QED BY <2>1, <2>2
<1> QED BY <1>1, <1>2, GuardedInvariance, PTL DEF GuardedSpec, ImplementsSerial, Serial!Spec
==============================================================================
