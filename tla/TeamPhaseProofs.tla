--------------------------- MODULE TeamPhaseProofs ---------------------------
(* Proofs about TeamPhase for every number of tasks, of polling processes and *)
(* of fix attempts.                                                          *)
EXTENDS TeamPhase, TLAPS

\* While an unforced shutdown is between its gate and its write, no task is open.
GateInv == holder.kind = "shutdown" => ~Some("open")

IInv == TypeOK /\ GateInv

------------------------------------------------------------------------------
(* The reconciliation of a phase file is a phase file *)

LEMMA EnterFixTyped ==
  ASSUME NEW b \in File  PROVE EnterFix(b) \in File
<1>1. b.attempt \in 0..MaxFixAttempts
      /\ "failed" \in Phase /\ "team-fix" \in Phase
  BY DEF File, Phase, Ended
<1>2. [b EXCEPT !.phase = "failed"] \in File
  BY <1>1 DEF File
<1>3. ASSUME b.attempt + 1 <= MaxFixAttempts
      PROVE [b EXCEPT !.phase = "team-fix", !.attempt = b.attempt + 1] \in File
  <2>1. b.attempt + 1 \in 0..MaxFixAttempts
    BY <1>1, <1>3, LimitAssumption
  <2>2. b = [phase |-> b.phase, attempt |-> b.attempt, epoch |-> b.epoch]
        /\ b.epoch \in BOOLEAN
    BY DEF File
  <2> QED BY <1>1, <2>1, <2>2 DEF File
<1> QED BY <1>1, <1>2, <1>3, LimitAssumption DEF EnterFix

LEMMA ReconcileTyped ==
  ASSUME NEW b \in File, NEW target \in Phase  PROVE Reconcile(b, target) \in File
<1>1. [b EXCEPT !.phase = target] \in File
  BY DEF File
<1>2. Walk(b, target) \in File
  BY <1>1, EnterFixTyped DEF Walk
<1>3. [phase |-> target, attempt |-> 0, epoch |-> FALSE] \in File
  BY LimitAssumption DEF File
<1> QED BY <1>2, <1>3 DEF Reconcile

LEMMA StartTyped == Start \in File
  BY LimitAssumption DEF Start, File, Phase

------------------------------------------------------------------------------
(* The inductive invariant *)

LEMMA InitEstablishes == Init => IInv
  BY StartTyped DEF Init, IInv, TypeOK, GateInv, Free, Resting, Status, Phase

\* Who changes tasks holds the barrier, or finds it free.
LEMMA TaskStep ==
  ASSUME IInv, NEW t \in Task,
         (\E s \in Status : Finish(t, s)) \/ Requalify(t) \/ CreateWrite(t)
  PROVE IInv'
<1>1. tasks' \in [Task -> Status]
  BY DEF IInv, TypeOK, Finish, Requalify, CreateWrite, Status
<1>2. holder' = Free /\ UNCHANGED <<file, watch, hook>>
  BY DEF Finish, Requalify, CreateWrite
<1>3. TypeOK'
  BY <1>1, <1>2, StartTyped DEF IInv, TypeOK, Free
<1> QED BY <1>2, <1>3 DEF IInv, GateInv, Free

LEMMA HolderStep ==
  ASSUME IInv,
         CreateBegin \/ ShutdownWrite \/ HolderDies
         \/ \E kind \in {"shutdown", "forced"} : ShutdownBegin(kind)
  PROVE IInv'
<1>1. CASE CreateBegin
  BY <1>1, StartTyped DEF IInv, TypeOK, GateInv, CreateBegin, Free
<1>2. CASE ShutdownWrite
  BY <1>2, StartTyped DEF IInv, TypeOK, GateInv, ShutdownWrite, Free, File
<1>3. CASE HolderDies
  BY <1>3, StartTyped DEF IInv, TypeOK, GateInv, HolderDies, Free
<1>4. ASSUME NEW kind \in {"shutdown", "forced"}, ShutdownBegin(kind)  PROVE IInv'
  BY <1>4 DEF IInv, TypeOK, GateInv, ShutdownBegin, Some
<1> QED BY <1>1, <1>2, <1>3, <1>4

LEMMA PollStep ==
  ASSUME IInv, NEW w \in Watch, Poll(w) \/ StopPolling(w)  PROVE IInv'
<1>1. UNCHANGED <<tasks, holder, hook>>
  BY DEF Poll, List, ReadPhase, WritePhase, StopPolling
<1>2. Infer \in Phase
  BY DEF Infer, Phase, Ended
<1>3. CASE List(w)
  BY <1>2, <1>3, StartTyped DEF IInv, TypeOK, GateInv, Some, List, Phase, Ended
<1>4. CASE ReadPhase(w)
  BY <1>4 DEF IInv, TypeOK, GateInv, Some, ReadPhase
<1>5. CASE WritePhase(w)
  <2>1. file' \in File
    BY <1>5, ReconcileTyped DEF IInv, TypeOK, WritePhase
  <2>2. watch' \in [Watch -> [stage: {"rest", "listed", "read", "exited"},
                              target: Phase, base: File]]
    BY <1>5, StartTyped DEF IInv, TypeOK, WritePhase, Resting, Phase
  <2> QED BY <1>1, <2>1, <2>2 DEF IInv, TypeOK, GateInv, Some
<1>6. CASE StopPolling(w)
  BY <1>6, StartTyped DEF IInv, TypeOK, GateInv, Some, StopPolling, Resting, Phase
<1> QED BY <1>3, <1>4, <1>5, <1>6 DEF Poll

LEMMA HookStep ==
  ASSUME IInv, HookReads \/ HookWrites  PROVE IInv'
<1>1. CASE HookReads
  BY <1>1 DEF IInv, TypeOK, GateInv, Some, HookReads
<1>2. CASE HookWrites
  BY <1>2, StartTyped DEF IInv, TypeOK, GateInv, Some, HookWrites, Free, File, Phase, Ended
<1> QED BY <1>1, <1>2

LEMMA NextKeeps == IInv /\ [Next]_vars => IInv'
<1> SUFFICES ASSUME IInv, [Next]_vars  PROVE IInv'
  OBVIOUS
<1>1. CASE UNCHANGED vars
  BY <1>1 DEF vars, IInv, TypeOK, GateInv, Some
<1>2. CASE Next
  BY <1>2, TaskStep, HolderStep, PollStep, HookStep DEF Next
<1> QED BY <1>1, <1>2

------------------------------------------------------------------------------
(* Theorems *)

\* The inductive invariant holds in every reachable state.
THEOREM Invariance == Spec => []IInv
  BY InitEstablishes, NextKeeps, PTL DEF Spec

\* Every variable of the phase protocol keeps its type: in particular no more
\* than max_fix_attempts are ever recorded.
THEOREM TypeCorrect == Spec => []TypeOK
<1>1. IInv => TypeOK
  BY DEF IInv
<1> QED BY <1>1, Invariance, PTL

\* An unforced shutdown starts the terminal epoch of a team without open tasks.
THEOREM GateIsCurrent == Spec => GateHolds
<1>1. IInv /\ [Next]_vars => [ShutdownWrite /\ holder.kind = "shutdown" => ~Some("open")]_vars
  BY DEF IInv, GateInv
<1> QED BY <1>1, Invariance, PTL DEF Spec, GateHolds

------------------------------------------------------------------------------
(* What breaks the terminal epoch: two writes, and nothing else *)

\* A poll writes the epoch that it read, and no failure is reported in an epoch.
PollsCurrent == \A w \in Watch : WritePhase(w) => watch[w].base.epoch = file.epoch
HookOutside == HookWrites => ~file.epoch

\* A creation that began before the epoch ends before it.
EpochInv == file.epoch => holder.kind # "create"

LEMMA ReconcileKeepsEpoch ==
  ASSUME NEW b \in File, b.epoch, NEW target  PROVE Reconcile(b, target).epoch
  BY DEF Reconcile

LEMMA ReconcileForges ==
  ASSUME NEW b \in File, NEW target \in Phase, Reconcile(b, target).epoch  PROVE b.epoch
<1>1. [b EXCEPT !.phase = "failed"].epoch = b.epoch
      /\ [b EXCEPT !.phase = "team-fix", !.attempt = b.attempt + 1].epoch = b.epoch
      /\ [b EXCEPT !.phase = target].epoch = b.epoch
  BY DEF File
<1> QED BY <1>1 DEF Reconcile, Walk, EnterFix

LEMMA EpochStays ==
  ASSUME IInv, [Next]_vars, PollsCurrent, HookOutside, file.epoch
  PROVE  file'.epoch
<1>1. CASE ShutdownWrite
  <2>1. holder.base \in File
    BY DEF IInv, TypeOK
  <2> QED BY <1>1, <2>1 DEF ShutdownWrite, File
<1>2. ASSUME NEW w \in Watch, WritePhase(w)  PROVE file'.epoch
  <2>1. watch[w].base \in File /\ watch[w].base.epoch
    BY <1>2 DEF PollsCurrent, IInv, TypeOK
  <2> QED BY <1>2, <2>1, ReconcileKeepsEpoch DEF WritePhase
<1>3. CASE HookWrites
  BY <1>3 DEF HookOutside
<1>4. CASE UNCHANGED file
  BY <1>4
<1> QED BY <1>1, <1>2, <1>3, <1>4
  DEF Next, vars, Finish, Requalify, CreateWrite, CreateBegin, HolderDies, ShutdownBegin,
      Poll, List, ReadPhase, StopPolling, HookReads

LEMMA EpochKeeps ==
  ASSUME IInv, EpochInv, [Next]_vars, PollsCurrent, HookOutside
  PROVE  EpochInv'
<1>1. CASE CreateBegin
  BY <1>1 DEF CreateBegin, CreateAllowed, EpochInv
<1>2. CASE UNCHANGED <<file, holder>>
  BY <1>2 DEF EpochInv
<1>3. CASE holder' = Free
  BY <1>3 DEF EpochInv, Free
<1>4. ASSUME NEW kind \in {"shutdown", "forced"}, ShutdownBegin(kind)  PROVE EpochInv'
  BY <1>4 DEF ShutdownBegin, EpochInv
<1>5. ASSUME NEW w \in Watch, WritePhase(w)  PROVE EpochInv'
  <2>1. watch[w].base.epoch = file.epoch /\ holder' = holder
    BY <1>5 DEF PollsCurrent, WritePhase
  <2>2. watch[w].base \in File /\ watch[w].target \in Phase
    BY DEF IInv, TypeOK
  <2>3. file'.epoch => file.epoch
    BY <1>5, <2>1, <2>2, ReconcileForges DEF WritePhase
  <2> QED BY <2>1, <2>3 DEF EpochInv
<1>6. CASE HookWrites
  <2>1. hook.base \in File /\ holder' = holder
    BY <1>6 DEF HookWrites, IInv, TypeOK
  <2>2. ~file'.epoch
    BY <1>6, <2>1 DEF HookWrites, File
  <2> QED BY <2>2 DEF EpochInv
<1> QED BY <1>1, <1>2, <1>3, <1>4, <1>5, <1>6
  DEF Next, vars, Finish, Requalify, CreateWrite, ShutdownWrite, HolderDies,
      Poll, List, ReadPhase, StopPolling, HookReads

\* An absent task comes from a creation, which the epoch excludes.
LEMMA AbsentStays ==
  ASSUME IInv, EpochInv, [Next]_vars, PollsCurrent, HookOutside, NEW t \in Task,
         file.epoch, tasks[t] = "absent"
  PROVE  tasks'[t] = "absent"
<1>1. ASSUME NEW u \in Task, NEW s \in Status, Finish(u, s)  PROVE tasks'[t] = "absent"
  BY <1>1 DEF Finish
<1>2. ASSUME NEW u \in Task, Requalify(u)  PROVE tasks'[t] = "absent"
  BY <1>2 DEF Requalify
<1>3. ASSUME NEW u \in Task, CreateWrite(u)  PROVE FALSE
  BY <1>3 DEF CreateWrite, EpochInv
<1>4. CASE UNCHANGED tasks
  BY <1>4
<1> QED BY <1>1, <1>2, <1>3, <1>4
  DEF Next, vars, CreateBegin, ShutdownWrite, HolderDies, ShutdownBegin,
      Poll, List, ReadPhase, WritePhase, StopPolling, HookReads, HookWrites

\* Tasks appear after the epoch only through a poll that writes an epoch older than
\* the file's, or a hook that reports a failure within it: with neither, what does not
\* exist when the epoch has begun is never created.
THEOREM EpochHoldsUnless ==
  Spec /\ [][PollsCurrent]_vars /\ [][HookOutside]_vars => NoTaskAfterEpoch
<1>1. ASSUME NEW t \in Task
      PROVE  Spec /\ [][PollsCurrent]_vars /\ [][HookOutside]_vars =>
               [](file.epoch /\ tasks[t] = "absent" => [](tasks[t] = "absent"))
  <2>1. Init => EpochInv
    BY DEF Init, Start, EpochInv
  <2>2. IInv /\ EpochInv /\ [Next]_vars /\ [PollsCurrent]_vars /\ [HookOutside]_vars => EpochInv'
    <3>1. CASE UNCHANGED vars
      BY <3>1 DEF vars, EpochInv
    <3> QED BY <3>1, EpochKeeps
  <2>3. IInv /\ EpochInv /\ [Next]_vars /\ [PollsCurrent]_vars /\ [HookOutside]_vars
          => (file.epoch /\ tasks[t] = "absent" => (file.epoch /\ tasks[t] = "absent")')
    <3>1. CASE UNCHANGED vars
      BY <3>1 DEF vars
    <3> QED BY <3>1, EpochStays, AbsentStays
  <2> QED BY <2>1, <2>2, <2>3, Invariance, PTL DEF Spec
<1> QED BY <1>1 DEF NoTaskAfterEpoch
==============================================================================
