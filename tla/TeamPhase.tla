------------------------------ MODULE TeamPhase ------------------------------
(* The phase file of a team and everybody who writes it: polls of the        *)
(* monitor, which infer the phase from the tasks, the shutdown, which starts *)
(* the terminal epoch, and the hook that reports a dead transport.           *)
(* Source: src/src/team/phase-controller.ts, orchestrator.ts, runtime.ts     *)
(* (monitorTeam, shutdownTeam), state.ts (createTask),                       *)
(* src/src/scripts/codex-native-hook.ts (markTeamTransportFailure).          *)
(*                                                                           *)
(* The monitor and the hook read and write the file without a lock; task     *)
(* creation and shutdown exclude each other by the membership barrier.       *)
EXTENDS Integers

CONSTANTS
    Task,            \* ids that tasks may get
    Watch,           \* polling processes
    MaxFixAttempts   \* max_fix_attempts

ASSUME LimitAssumption == MaxFixAttempts \in Nat

VARIABLES
    tasks,  \* what the counts of the monitor tell apart of each task
    file,   \* the phase file
    watch,  \* where each polling process is in monitorTeam
    holder, \* the barrier operation that has read the file and not yet written
    hook    \* likewise for markTeamTransportFailure, outside the barrier

vars == <<tasks, file, watch, holder, hook>>

\* "unproven": completed, but a code change without verification evidence.
Status == {"absent", "open", "unproven", "completed", "failed"}
Ended == {"complete", "failed"}
Phase == {"team-exec", "team-verify", "team-fix"} \cup Ended
File == [phase: Phase, attempt: 0..MaxFixAttempts, epoch: BOOLEAN]

Start == [phase |-> "team-exec", attempt |-> 0, epoch |-> FALSE]
Resting == [stage |-> "rest", target |-> "team-exec", base |-> Start]
Free == [kind |-> "free", base |-> Start]

Some(s) == \E t \in Task : tasks[t] = s

------------------------------------------------------------------------------
(* phase-controller.ts *)

\* inferPhaseTargetFromTaskCounts
Infer ==
    IF Some("open") THEN "team-exec"
    ELSE IF Some("failed") THEN "team-fix"
    ELSE IF Some("unproven") THEN "team-verify" ELSE "complete"

\* Bug form: the attempt beyond the limit is still made.
EnterFixOnceMore(b) ==
    IF b.attempt > MaxFixAttempts THEN [b EXCEPT !.phase = "failed"]
    ELSE [b EXCEPT !.phase = "team-fix", !.attempt = b.attempt + 1]
\* transitionPhase to team-fix.
EnterFix(b) ==
    IF b.attempt + 1 > MaxFixAttempts THEN [b EXCEPT !.phase = "failed"]
    ELSE [b EXCEPT !.phase = "team-fix", !.attempt = b.attempt + 1]

\* Bug form: verification leads to a fix only.
WalkVerifyToFix(b, target) ==
    IF b.phase = "team-verify" /\ target # "team-fix" THEN b
    ELSE IF target = "team-fix" THEN EnterFix(b) ELSE [b EXCEPT !.phase = target]
\* The transitions along buildTransitionPath: none leads from verification
\* back to execution, and only the last one may enter team-fix.
Walk(b, target) ==
    IF b.phase = "team-verify" /\ target = "team-exec" THEN b
    ELSE IF target = "team-fix" THEN EnterFix(b) ELSE [b EXCEPT !.phase = target]

\* reconcilePhaseStateForMonitor
Reconcile(b, target) ==
    IF b.epoch \/ b.phase = target THEN b
    ELSE IF b.phase \notin Ended THEN Walk(b, target)
    ELSE IF target \in Ended THEN b
    ELSE [phase |-> target, attempt |-> 0, epoch |-> FALSE]

------------------------------------------------------------------------------
Init ==
    /\ tasks = [t \in Task |-> "absent"]
    /\ file = Start
    /\ watch = [w \in Watch |-> Resting]
    /\ holder = Free
    /\ hook = Free

\* Workers finish their tasks; the phase does not stop them.
Finish(t, s) ==
    /\ holder = Free
    /\ tasks[t] = "open"
    /\ s \in {"unproven", "completed", "failed"}
    /\ tasks' = [tasks EXCEPT ![t] = s]
    /\ UNCHANGED <<file, watch, holder, hook>>

\* updateTask: a completed task may lose or gain the need of evidence.
Requalify(t) ==
    /\ holder = Free
    /\ tasks[t] \in {"unproven", "completed"}
    /\ tasks' = [tasks EXCEPT ![t] = IF @ = "completed" THEN "unproven" ELSE "completed"]
    /\ UNCHANGED <<file, watch, holder, hook>>

CreateAllowed == Some("absent") /\ ~file.epoch /\ file.phase \notin Ended

\* Bug form: the task is created without the barrier.
CreateUnlocked ==
    /\ CreateAllowed
    /\ \E t \in Task : tasks[t] = "absent" /\ tasks' = [tasks EXCEPT ![t] = "open"]
    /\ UNCHANGED <<file, watch, holder, hook>>
\* createTask reads the phase, then writes the task, within the barrier.
CreateBegin ==
    /\ holder = Free
    /\ CreateAllowed
    /\ holder' = [Free EXCEPT !.kind = "create"]
    /\ UNCHANGED <<tasks, file, watch, hook>>

CreateWrite(t) ==
    /\ holder.kind = "create"
    /\ tasks[t] = "absent"
    /\ tasks' = [tasks EXCEPT ![t] = "open"]
    /\ holder' = Free
    /\ UNCHANGED <<file, watch, hook>>

\* shutdownTeam: the gate, then the terminal epoch, within the barrier.  The
\* governance is the default one, cleanup_requires_all_workers_inactive.
ShutdownBegin(kind) ==
    /\ holder = Free
    /\ kind = "forced" \/ (kind = "shutdown" /\ ~Some("open"))
    /\ holder' = [kind |-> kind, base |-> file]
    /\ UNCHANGED <<tasks, file, watch, hook>>

ShutdownWrite ==
    /\ holder.kind \in {"shutdown", "forced"}
    /\ file' = [holder.base EXCEPT !.epoch = TRUE]
    /\ holder' = Free
    /\ UNCHANGED <<tasks, watch, hook>>

\* A barrier operation dies, or throws.
HolderDies ==
    /\ holder # Free
    /\ holder' = Free
    /\ UNCHANGED <<tasks, file, watch, hook>>

\* monitorTeam, in three steps: list the tasks, read the phase, write the phase.
\* All workers of a prompt-mode team may be found dead while work remains.
List(w) ==
    /\ watch[w].stage = "rest"
    /\ \E target \in {Infer} \cup (IF Some("open") THEN {"failed"} ELSE {}) :
           watch' = [watch EXCEPT ![w] = [stage |-> "listed", target |-> target, base |-> Start]]
    /\ UNCHANGED <<tasks, file, holder, hook>>

ReadPhase(w) ==
    /\ watch[w].stage = "listed"
    /\ watch' = [watch EXCEPT ![w].stage = "read", ![w].base = file]
    /\ UNCHANGED <<tasks, file, holder, hook>>

\* The polling loop of runtime-cli ends at a terminal phase, and when every worker
\* is found dead while the poll's own listing has work left or the phase is team-fix.
MayLeaveLoop(target, phase) ==
    phase \in Ended \cup {"team-fix"} \/ target \in {"team-exec", "failed"}

WritePhase(w) ==
    /\ watch[w].stage = "read"
    /\ file' = Reconcile(watch[w].base, watch[w].target)
    /\ \E stage \in {"rest"} \cup (IF MayLeaveLoop(watch[w].target, file'.phase)
                                   THEN {"exited"} ELSE {}) :
           watch' = [watch EXCEPT ![w] = [Resting EXCEPT !.stage = stage]]
    /\ UNCHANGED <<tasks, holder, hook>>

\* A signal stops the polling process wherever it is.
StopPolling(w) ==
    /\ watch[w].stage # "exited"
    /\ watch' = [watch EXCEPT ![w] = [Resting EXCEPT !.stage = "exited"]]
    /\ UNCHANGED <<tasks, file, holder, hook>>

\* markTeamTransportFailure reads the phase and writes it, without a lock.
HookReads ==
    /\ hook = Free
    /\ file.phase \notin Ended
    /\ hook' = [kind |-> "hook", base |-> file]
    /\ UNCHANGED <<tasks, file, watch, holder>>

HookWrites ==
    /\ hook # Free
    /\ file' = [hook.base EXCEPT !.phase = "failed", !.epoch = FALSE]
    /\ hook' = Free
    /\ UNCHANGED <<tasks, watch, holder>>

Poll(w) == List(w) \/ ReadPhase(w) \/ WritePhase(w)

Next ==
    \/ \E t \in Task : \E s \in Status : Finish(t, s)
    \/ \E t \in Task : Requalify(t) \/ CreateWrite(t)
    \/ CreateBegin \/ ShutdownWrite \/ HolderDies
    \/ \E kind \in {"shutdown", "forced"} : ShutdownBegin(kind)
    \/ \E w \in Watch : Poll(w) \/ StopPolling(w)
    \/ HookReads \/ HookWrites

Spec == Init /\ [][Next]_vars

\* Fairness: a process that polls goes on polling until it leaves its loop or is stopped.
FairSpec == Spec /\ \A w \in Watch : WF_vars(Poll(w))

------------------------------------------------------------------------------
(* Type invariant *)
TypeOK ==
    /\ tasks \in [Task -> Status]
    /\ file \in File
    /\ watch \in [Watch -> [stage: {"rest", "listed", "read", "exited"},
                           target: Phase, base: File]]
    /\ holder \in [kind: {"free", "create", "shutdown", "forced"}, base: File]
    /\ hook \in [kind: {"free", "hook"}, base: File]

------------------------------------------------------------------------------
(* Properties *)

\* "follow-up created before terminal epoch blocks shutdown without starting
\* the epoch": when an unforced shutdown writes the epoch no task is open,
\* although it has looked at the tasks earlier.
GateHolds == [][ShutdownWrite /\ holder.kind = "shutdown" => ~Some("open")]_vars

AllDone == \A t \in Task : tasks[t] \in {"absent", "completed"}

\* While a process polls, a team whose tasks are all completed and verified comes
\* to an end, whatever an older poll, the hook and earlier fix attempts have
\* written.  No end is promised to a team that nobody polls any more: the loop of
\* runtime-cli is left, in a phase that is no end, as soon as all workers are dead.
NobodyPolls == \A w \in Watch : watch[w].stage = "exited"
DoneEnds ==
    AllDone ~> (file.phase \in Ended \/ file.epoch \/ ~AllDone \/ NobodyPolls)

\* "terminal epoch rejects duplicate late assignment and task creation": what
\* does not exist when the epoch has begun is never created.
NoTaskAfterEpoch ==
    \A t \in Task : [](file.epoch /\ tasks[t] = "absent" => [](tasks[t] = "absent"))
==============================================================================
