--------------------------- MODULE TeamTasksProofs ---------------------------
(* Proofs about TeamTasks.  The inductive invariant IInv adds to the checked *)
(* invariants what an operation inside the barrier knows (AssignSound,       *)
(* ReportSound) and that tokens identify one claim of one worker (HeldSound).*)
(* What depends on the membership holds until an object whose save failed    *)
(* has been saved (overwritten); the rest holds always.                      *)
EXTENDS TeamTasks, TLAPS

USE DEF saves, Open

------------------------------------------------------------------------------
(* The inductive invariant *)

\* What an assignment inside the barrier may rely on: the claim it took is
\* live, and nobody else knows its token.
AssignSound ==
    op # Idle /\ op.kind = "assign" =>
        /\ LiveClaim(op.worker, op.claim)
        /\ op.worker \in config.workers
        /\ op.claim.token \in 1..issued
        /\ \A w \in Worker : \A c \in held[w] : c.token # op.claim.token

\* A transition about to append its event has written the outcome, and nothing
\* has been reported for the task.
ReportSound ==
    Running("transition", "event") =>
        /\ tasks[op.task] # NoTask
        /\ tasks[op.task].status = op.to
        /\ events[op.task] = [completed |-> 0, failed |-> 0]

\* A token belongs to one claim of one worker, and only workers that were once
\* in the team hold any.
HeldSound ==
    \A w \in Worker : \A c \in held[w] :
        /\ overwritten \/ w \in config.used
        /\ c.token \in 1..issued
        /\ \A w2 \in Worker : \A c2 \in held[w2] :
              c2.token = c.token => w2 = w /\ c2 = c

\* A loaded configuration is never newer than the stored one, unless a save of
\* it failed.
ViewSound ==
    /\ config.workers \subseteq config.used
    /\ cfgView # NoView /\ ~ahead => cfgView.gen <= config.gen

ViewInv  == ViewSound /\ GenerationFixesMembership
ClaimInv == ClaimedByMember /\ LeaseHolderOwnsTask /\ HeldSound /\ AssignSound
EventInv == EventsSound /\ ReportSound

IInv == TypeOK /\ ViewInv /\ ClaimInv /\ EventInv

------------------------------------------------------------------------------
(* Facts about the data *)

\* A requeued task is a task again.
LEMMA RequeuedType ==
    ASSUME NEW task \in Task
    PROVE  /\ Requeued(task) \in Task
           /\ Requeued(task).status = "pending"
           /\ Requeued(task).claim = NoClaim
           /\ Requeued(task).owner = NoOwner
  BY DEF Requeued, Moved, Task, Status

\* A task that scale-down took away is a task again.
LEMMA TakenAwayType ==
    ASSUME NEW task \in Task, task.status \notin Terminal
    PROVE  /\ TakenAway(task) \in Task
           /\ TakenAway(task).status \in Open
           /\ TakenAway(task).claim = NoClaim
           /\ TakenAway(task).owner = NoOwner
           /\ TakenAway(task).version = task.version + 1
  BY DEF TakenAway, Moved, Task, Status

\* The operation inside the barrier has the fields of its kind.
LEMMA OpFields ==
    ASSUME op \in Op \cup {Idle}, op # Idle
    PROVE  /\ op.kind = "create" => op.task \in TaskId
           /\ op.kind = "assign" =>
                /\ op.worker \in Worker /\ op.claim \in Held
                /\ op.stage \in {"prepare", "dispatch"}
                /\ op = [kind |-> "assign", stage |-> op.stage,
                         worker |-> op.worker, claim |-> op.claim]
           /\ op.kind = "transition" =>
                /\ op.task \in TaskId /\ op.to \in Terminal
                /\ op.stage \in {"event", "read", "save"}
                /\ op.seen \in Snapshot \cup {NoSnapshot}
                /\ op = [kind |-> "transition", stage |-> op.stage, task |-> op.task,
                         to |-> op.to, seen |-> op.seen]
  BY SentinelsAssumption DEF Op

\* A new version of a task is a task, with the fields it was given.
LEMMA MovedType ==
    ASSUME NEW task \in Task, NEW status \in Status, NEW owner \in Worker \cup {NoOwner},
           NEW claim \in Claim \cup {NoClaim}
    PROVE  Moved(task, status, owner, claim) \in Task
  BY DEF Moved, Task

LEMMA EditedType ==
    ASSUME NEW task \in Task, NEW deps \in SUBSET TaskId, NEW evidence \in BOOLEAN
    PROVE  Edited(task, deps, evidence) \in Task
  BY DEF Edited, Task

LEMMA UpdateType ==
    ASSUME TypeOK, NEW t \in TaskId, NEW d \in DepChoices, UpdateTask(t, d)
    PROVE  Edited(tasks[t], d, tasks[t].evidence) \in Task
  <1>1. tasks[t] \in Task
    BY DEF TypeOK, UpdateTask
  <1>2. d \in SUBSET TaskId /\ tasks[t].evidence \in BOOLEAN
    BY <1>1, ChoicesAssumption DEF Task
  <1>. QED
    BY <1>1, <1>2, EditedType

\* A grant is a task write and a fresh token.
LEMMA GrantType ==
    ASSUME TypeOK, NEW w \in Worker, NEW t \in TaskId, NEW expected,
           ClaimAllowed(t, w, expected), GrantClaim(t, w)
    PROVE  /\ tasks' \in [TaskId -> Task \cup {NoTask}]
           /\ issued' \in 0..MaxTokens /\ issued' = issued + 1 /\ issued' \in Token
           /\ NewHeld(t) \in Held
  <1>1. issued + 1 \in Token /\ issued' \in 0..MaxTokens /\ now + LeaseTerm \in Nat
    BY BoundsAssumption DEF TypeOK, ClaimAllowed, GrantClaim, Token
  <1>2. Moved(tasks[t], "in_progress", w,
              [owner |-> w, token |-> issued + 1, until |-> now + LeaseTerm]) \in Task
    <2>1. tasks[t] \in Task
      BY DEF TypeOK, ClaimAllowed
    <2>2. [owner |-> w, token |-> issued + 1, until |-> now + LeaseTerm] \in Claim
      BY <1>1 DEF Claim
    <2>. QED
      BY <2>1, <2>2, MovedType DEF Status
  <1>3. tasks' \in [TaskId -> Task \cup {NoTask}]
    BY <1>2 DEF TypeOK, GrantClaim
  <1>4. NewHeld(t) \in Held
    BY <1>1 DEF NewHeld, Held
  <1>. QED
    BY <1>1, <1>3, <1>4 DEF GrantClaim

------------------------------------------------------------------------------
(* Type correctness *)

LEMMA InitType == Init => TypeOK
  <1>. SUFFICES ASSUME Init PROVE TypeOK
    OBVIOUS
  <1>1. PICK W \in SUBSET Worker :
           config = [gen |-> 0, nextTaskId |-> 1, workers |-> W, used |-> W]
    BY DEF Init
  <1>2. config \in Config
    BY <1>1 DEF Config
  <1>3. tasks \in [TaskId -> Task \cup {NoTask}]
    BY DEF Init
  <1>4. events \in [TaskId -> [completed: Nat, failed: Nat]]
    BY DEF Init
  <1>5. issued \in 0..MaxTokens
    BY BoundsAssumption DEF Init
  <1>. QED
    BY <1>2, <1>3, <1>4, <1>5 DEF Init, TypeOK

LEMMA StepType ==
    ASSUME TypeOK, AssignSound, [Next]_vars
    PROVE  TypeOK'
  <1>. USE DEF TypeOK
  <1>1. ASSUME NEW n \in TaskId, NEW s \in StatusChoices,
               NEW o \in OwnerChoices, NEW d \in DepChoices, NEW e \in BOOLEAN,
               CreateTask(n, s, o, d, e)
        PROVE  TypeOK'
    <2>1. [status |-> s, owner |-> o, claim |-> NoClaim, version |-> 1,
           deps |-> d, evidence |-> e] \in Task
      BY ChoicesAssumption DEF Task, Status
    <2>2. [kind |-> "create", task |-> n] \in Op
      BY DEF Op
    <2>. QED
      BY <1>1, <2>1, <2>2 DEF CreateTask
  <1>2. CASE AdvanceNextTaskId
    <2>1. op.task \in TaskId /\ op.task + 1 \in Nat \ {0}
      BY <1>2, OpFields DEF AdvanceNextTaskId, TaskId
    <2>2. [config EXCEPT !.nextTaskId = op.task + 1] \in Config
      BY <2>1 DEF Config
    <2>. QED
      BY <1>2, <2>2 DEF AdvanceNextTaskId
  <1>3. ASSUME NEW w \in Worker, NEW t \in TaskId, NEW told \in BOOLEAN,
               NEW v, ClaimTask(w, t, v, told)
        PROVE  TypeOK'
    <2>1. /\ tasks' \in [TaskId -> Task \cup {NoTask}]
          /\ issued' \in 0..MaxTokens /\ NewHeld(t) \in Held
      BY <1>3, GrantType DEF ClaimTask
    <2>. QED
      BY <1>3, <2>1 DEF ClaimTask
  <1>4. ASSUME NEW w \in Worker, NEW c \in held[w], NEW to \in Terminal,
               NEW proof \in BOOLEAN, TransitionTask(w, c, to, proof)
        PROVE  TypeOK'
    <2>1. c.task \in TaskId /\ tasks[c.task] \in Task
      BY <1>4 DEF TransitionTask, TransitionAllowed, Held
    <2>2. Moved(tasks[c.task], to, tasks[c.task].owner, NoClaim) \in Task
      BY <2>1, MovedType DEF Task, Status
    <2>3. Transitioning(c.task, to, "event", NoSnapshot) \in Op
      BY <2>1 DEF Transitioning, Op
    <2>4. tasks' \in [TaskId -> Task \cup {NoTask}]
      BY <1>4, <2>1, <2>2 DEF TransitionTask
    <2>. QED
      BY <1>4, <2>3, <2>4 DEF TransitionTask
  <1>5. ASSUME NEW w \in Worker, NEW c \in held[w], NEW proof \in BOOLEAN,
               RefuseCompletion(w, c, proof)
        PROVE  TypeOK'
    <2>1. Transitioning(c.task, "completed", "read", NoSnapshot) \in Op
      BY DEF Transitioning, Op, Held, Terminal
    <2>. QED
      BY <1>5, <2>1 DEF RefuseCompletion
  <1>6. CASE AppendTaskEvent
    <2>1. op.kind = "transition" /\ op.task \in TaskId /\ op.to \in Terminal
      BY <1>6, OpFields DEF AppendTaskEvent, Running
    <2>2. events' \in [TaskId -> [completed: Nat, failed: Nat]]
      BY <1>6, <2>1 DEF AppendTaskEvent, Terminal
    <2>3. [op EXCEPT !.stage = "read"] \in Op
      BY <1>6, OpFields DEF AppendTaskEvent, Running, Op
    <2>. QED
      BY <1>6, <2>2, <2>3 DEF AppendTaskEvent
  <1>7. CASE ReadSnapshot
    <2>1. op.kind = "transition" /\ op.task \in TaskId /\ op.to \in Terminal
      BY <1>7, OpFields DEF ReadSnapshot, Running
    <2>2. Transitioning(op.task, op.to, "save", snapshot) \in Op
      BY <2>1 DEF Transitioning, Op
    <2>. QED
      BY <1>7, <2>2 DEF ReadSnapshot
  <1>8. CASE SaveSnapshot
    <2>1. op.task \in TaskId /\ op.seen \in Snapshot \cup {NoSnapshot}
      BY <1>8, OpFields DEF SaveSnapshot, Running
    <2>2. EmptySnapshot \in Snapshot
      BY DEF EmptySnapshot, Snapshot
    <2>3. ASSUME NEW base \in Snapshot
          PROVE  [base EXCEPT !.marked = @ \cup {op.task}] \in Snapshot
      BY <2>1 DEF Snapshot
    <2>. QED
      BY <1>8, <2>1, <2>2, <2>3 DEF SaveSnapshot
  <1>9. ASSUME NEW w \in Worker, NEW c \in held[w], ReleaseTaskClaim(w, c)
        PROVE  TypeOK'
    <2>1. c.task \in TaskId /\ tasks[c.task] \in Task
      BY <1>9 DEF ReleaseTaskClaim, Held
    <2>2. Requeued(tasks[c.task]) \in Task
      BY <2>1, RequeuedType
    <2>3. tasks' \in [TaskId -> Task \cup {NoTask}]
      BY <1>9, <2>2 DEF ReleaseTaskClaim
    <2>. QED
      BY <1>9, <2>3 DEF ReleaseTaskClaim
  <1>10. ASSUME NEW t \in TaskId, ReclaimExpiredTaskClaim(t)
         PROVE  TypeOK'
    <2>1. Requeued(tasks[t]) \in Task
      BY <1>10, RequeuedType DEF ReclaimExpiredTaskClaim
    <2>. QED
      BY <1>10, <2>1 DEF ReclaimExpiredTaskClaim
  <1>11. ASSUME NEW t \in TaskId, NEW d \in DepChoices, UpdateTask(t, d)
         PROVE  TypeOK'
    <2>1. Edited(tasks[t], d, tasks[t].evidence) \in Task
      BY <1>11, UpdateType
    <2>. QED
      BY <1>11, <2>1 DEF UpdateTask
  <1>12. ASSUME NEW w \in Worker, NEW t \in TaskId, AssignTask(w, t)
         PROVE  TypeOK'
    <2>1. /\ tasks' \in [TaskId -> Task \cup {NoTask}]
          /\ issued' \in 0..MaxTokens /\ NewHeld(t) \in Held
      BY <1>12, GrantType DEF AssignTask
    <2>2. [kind |-> "assign", stage |-> "prepare", worker |-> w,
           claim |-> NewHeld(t)] \in Op
      BY <2>1 DEF Op
    <2>. QED
      BY <1>12, <2>1, <2>2 DEF AssignTask
  <1>13. ASSUME NEW rewrite \in BOOLEAN, NEW evidence \in BOOLEAN,
                AssignPrepare(rewrite, evidence)
         PROVE  TypeOK'
    <2>1. op.kind = "assign" /\ op.worker \in Worker /\ op.claim \in Held
      BY <1>13, OpFields DEF AssignPrepare, Running
    <2>2. op.claim.task \in TaskId /\ tasks[op.claim.task] \in Task
      BY <1>13, <2>1 DEF AssignPrepare, Running, AssignSound, LiveClaim, Held
    <2>3. Edited(tasks[op.claim.task], tasks[op.claim.task].deps, evidence) \in Task
      BY <2>2, EditedType DEF Task
    <2>4. tasks' \in [TaskId -> Task \cup {NoTask}]
      BY <1>13, <2>3 DEF AssignPrepare
    <2>5. [op EXCEPT !.stage = "dispatch"] \in Op
      BY <1>13, OpFields DEF AssignPrepare, Running, Op
    <2>. QED
      BY <1>13, <2>4, <2>5 DEF AssignPrepare
  <1>14. CASE AssignDelivered
    <2>1. op.worker \in Worker /\ op.claim \in Held
      BY <1>14, OpFields DEF AssignDelivered, Running
    <2>. QED
      BY <1>14, <2>1 DEF AssignDelivered
  <1>15. CASE AssignFailed
    <2>1. op.claim.task \in TaskId /\ tasks[op.claim.task] \in Task
      BY <1>15, OpFields DEF AssignFailed, AssignSound, LiveClaim, Held
    <2>2. Requeued(tasks[op.claim.task]) \in Task
      BY <2>1, RequeuedType
    <2>3. tasks' \in [TaskId -> Task \cup {NoTask}]
      BY <1>15, <2>2 DEF AssignFailed
    <2>. QED
      BY <1>15, <2>3 DEF AssignFailed
  <1>16. CASE LoadConfig
    BY <1>16 DEF LoadConfig
  <1>17. ASSUME NEW W \in SUBSET Worker, SaveTeamConfig(W)
         PROVE  TypeOK'
    <2>1. NewMembers(cfgView, cfgView.gen + 1, W) \in Config
      BY <1>17 DEF SaveTeamConfig, Grown, NewMembers, Config
    <2>2. overwritten' \in BOOLEAN /\ ahead' \in BOOLEAN
      BY <1>17, Zenon DEF SaveTeamConfig, SaveOf
    <2>. QED
      BY <1>17, <2>1, <2>2 DEF SaveTeamConfig, SaveOf
  <1>18. ASSUME NEW R \in SUBSET Worker, NEW gone \in SUBSET R, ScaleDown(R, gone)
         PROVE  TypeOK'
    <2>1. NewMembers(config, config.gen + 1, config.workers \ R) \in Config
      BY DEF NewMembers, Config
    <2>2. \A t \in TakenFrom(R) : TakenAway(tasks[t]) \in Task
      BY TakenAwayType DEF TakenFrom
    <2>3. tasks' \in [TaskId -> Task \cup {NoTask}]
      BY <1>18, <2>2 DEF ScaleDown
    <2>. QED
      BY <1>18, <2>1, <2>3 DEF ScaleDown
  <1>19. CASE PhaseTurns
    BY <1>19 DEF PhaseTurns
  <1>20. CASE Tick
    BY <1>20 DEF Tick
  <1>21. CASE Crash
    BY <1>21 DEF Crash
  <1>22. CASE UNCHANGED vars
    BY <1>22 DEF vars
  <1>23. ASSUME NEW W \in SUBSET Worker, SaveTeamConfigFails(W)
         PROVE  TypeOK'
    <2>1. NewMembers(cfgView, cfgView.gen + 1, W) \in Config
      BY <1>23 DEF SaveTeamConfigFails, Grown, NewMembers, Config
    <2>. QED
      BY <1>23, <2>1 DEF SaveTeamConfigFails
  <1>24. ASSUME NEW W \in SUBSET Worker, NEW gen \in 1..MaxGen, ScaleUp(W, gen)
         PROVE  TypeOK'
    <2>1. NewMembers(config, gen, W) \in Config
      BY BoundsAssumption DEF NewMembers, Config
    <2>. QED
      BY <1>24, <2>1 DEF ScaleUp
  <1>. HIDE DEF TypeOK
  <1>. QED
    BY <1>1, <1>2, <1>3, <1>4, <1>5, <1>6, <1>7, <1>8, <1>9, <1>10, <1>11, <1>12,
       <1>13, <1>14, <1>15, <1>16, <1>17, <1>18, <1>19, <1>20, <1>21, <1>22, <1>23, <1>24
       DEF Next, ClientNext, OpNext

------------------------------------------------------------------------------
(* Configuration *)

\* The steps that write the configuration or its loaded copy.
LEMMA ConfigWriters ==
    ASSUME [Next]_vars
    PROVE  \/ UNCHANGED <<config, cfgView, ahead, overwritten>>
           \/ AdvanceNextTaskId \/ LoadConfig
           \/ \E W \in SUBSET Worker : SaveTeamConfig(W) \/ SaveTeamConfigFails(W)
           \/ \E W \in SUBSET Worker, gen \in 1..MaxGen : ScaleUp(W, gen)
           \/ \E R \in SUBSET Worker : \E gone \in SUBSET R : ScaleDown(R, gone)
  BY DEF Next, ClientNext, OpNext, vars, CreateTask, ClaimTask, TransitionTask,
     RefuseCompletion, ReleaseTaskClaim, ReclaimExpiredTaskClaim, UpdateTask, AssignTask,
     AppendTaskEvent, ReadSnapshot, SaveSnapshot, AssignPrepare, AssignDelivered,
     AssignFailed, PhaseTurns, Tick, Crash

\* A save of an object that is not ahead starts from the membership on disk, a
\* scale-up only adds new names, a scale-down only removes.
LEMMA StepNames ==
    ASSUME TypeOK, ViewInv, [Next]_vars, ~overwritten'
    PROVE  /\ config.used \subseteq config'.used
           /\ (config'.workers \ config.workers) \cap config.used = {}
  <1>. DEFINE Goal == /\ config.used \subseteq config'.used
                     /\ (config'.workers \ config.workers) \cap config.used = {}
  <1>1. CASE UNCHANGED config
    BY <1>1
  <1>2. CASE AdvanceNextTaskId
    BY <1>2 DEF AdvanceNextTaskId, TypeOK, Config
  <1>3. ASSUME NEW W \in SUBSET Worker, SaveTeamConfig(W)
        PROVE  Goal
    <2>1. cfgView.workers = config.workers /\ cfgView.used = config.used
      BY <1>3 DEF SaveTeamConfig, SaveOf, Grown, ViewInv, GenerationFixesMembership
    <2>. QED
      BY <1>3, <2>1 DEF SaveTeamConfig, SaveOf, Grown, NewMembers
  <1>4. ASSUME NEW W \in SUBSET Worker, NEW gen \in 1..MaxGen, ScaleUp(W, gen)
        PROVE  Goal
    BY <1>4 DEF ScaleUp, NewMembers
  <1>5. ASSUME NEW R \in SUBSET Worker, NEW gone \in SUBSET R, ScaleDown(R, gone)
        PROVE  Goal
    BY <1>5 DEF ScaleDown, NewMembers
  <1>. QED
    BY <1>1, <1>2, <1>3, <1>4, <1>5, ConfigWriters DEF LoadConfig, SaveTeamConfigFails

\* An overwrite is remembered.
LEMMA StepOverwritten ==
    ASSUME [Next]_vars
    PROVE  overwritten => overwritten'
  <1>1. ASSUME NEW W \in SUBSET Worker, SaveTeamConfig(W)
        PROVE  overwritten => overwritten'
    BY <1>1, Zenon DEF SaveTeamConfig, SaveOf
  <1>2. CASE overwritten' = overwritten
    BY <1>2, Zenon
  <1>. QED
    BY <1>1, <1>2, ConfigWriters DEF AdvanceNextTaskId, LoadConfig, SaveTeamConfigFails,
       ScaleUp, ScaleDown

LEMMA StepView ==
    ASSUME TypeOK, TypeOK', ViewInv, [Next]_vars
    PROVE  ViewInv'
  <1>. USE DEF ViewInv, ViewSound, GenerationFixesMembership
  <1>1. CASE UNCHANGED <<config, cfgView, ahead, overwritten>>
    BY <1>1
  <1>2. CASE AdvanceNextTaskId
    BY <1>2 DEF AdvanceNextTaskId, TypeOK, Config
  <1>3. CASE LoadConfig
    BY <1>3 DEF LoadConfig, TypeOK, Config
  <1>4. ASSUME NEW W \in SUBSET Worker, SaveTeamConfig(W)
        PROVE  ViewInv'
    BY <1>4 DEF SaveTeamConfig, SaveOf, NewMembers, TypeOK, Config
  <1>5. ASSUME NEW R \in SUBSET Worker, NEW gone \in SUBSET R, ScaleDown(R, gone)
        PROVE  ViewInv'
    BY <1>5 DEF ScaleDown, NewMembers, TypeOK, Config
  <1>6. ASSUME NEW W \in SUBSET Worker, SaveTeamConfigFails(W)
        PROVE  ViewInv'
    BY <1>6 DEF SaveTeamConfigFails
  <1>7. ASSUME NEW W \in SUBSET Worker, NEW gen \in 1..MaxGen, ScaleUp(W, gen)
        PROVE  ViewInv'
    BY <1>7, BoundsAssumption DEF ScaleUp, NewMembers, TypeOK, Config
  <1>. HIDE DEF ViewInv
  <1>. QED
    BY <1>1, <1>2, <1>3, <1>4, <1>5, <1>6, <1>7, ConfigWriters

------------------------------------------------------------------------------
(* Finished tasks *)

\* No step changes the outcome or the owner of a finished task.
LEMMA StepFinal ==
    ASSUME TypeOK, ClaimInv, [Next]_vars, NEW t \in TaskId,
           tasks[t] # NoTask, tasks[t].status \in Terminal
    PROVE  /\ tasks'[t] # NoTask
           /\ tasks'[t].status = tasks[t].status
           /\ tasks'[t].owner = tasks[t].owner
  <1>. DEFINE Goal == /\ tasks'[t] # NoTask
                     /\ tasks'[t].status = tasks[t].status
                     /\ tasks'[t].owner = tasks[t].owner
  <1>. SUFFICES Goal
    OBVIOUS
  <1>1. tasks[t] \in Task /\ tasks \in [TaskId -> Task \cup {NoTask}]
    BY DEF TypeOK
  <1>2. CASE tasks' = tasks
    BY <1>2
  <1>3. ASSUME NEW n \in TaskId, NEW s \in StatusChoices,
               NEW o \in OwnerChoices, NEW d \in DepChoices, NEW e \in BOOLEAN,
               CreateTask(n, s, o, d, e)
        PROVE  Goal
    <2>1. n # t
      BY <1>3 DEF CreateTask, IsNextTaskId, DiskIds, TaskId
    <2>. QED
      BY <1>1, <1>3, <2>1 DEF CreateTask
  <1>4. ASSUME NEW w \in Worker, NEW u \in TaskId, NEW v,
               ClaimAllowed(u, w, v), GrantClaim(u, w)
        PROVE  Goal
    BY <1>1, <1>4 DEF ClaimAllowed, GrantClaim, Terminal
  <1>5. ASSUME NEW w \in Worker, NEW c \in held[w], NEW to, NEW proof,
               TransitionTask(w, c, to, proof)
        PROVE  Goal
    BY <1>1, <1>5 DEF TransitionTask, TransitionAllowed, Terminal
  <1>6. ASSUME NEW w \in Worker, NEW c \in held[w], ReleaseTaskClaim(w, c)
        PROVE  Goal
    BY <1>1, <1>6 DEF ReleaseTaskClaim
  <1>7. ASSUME NEW u \in TaskId, ReclaimExpiredTaskClaim(u)
        PROVE  Goal
    BY <1>1, <1>7 DEF ReclaimExpiredTaskClaim, Terminal
  <1>8. ASSUME NEW u \in TaskId, NEW d \in DepChoices, UpdateTask(u, d)
        PROVE  Goal
    <2>1. Edited(tasks[u], d, tasks[u].evidence) \in Task
      BY <1>8, UpdateType
    <2>. QED
      BY <1>1, <1>8, <2>1, SentinelsAssumption DEF UpdateTask, Edited
  <1>9. ASSUME NEW rewrite, NEW evidence, AssignPrepare(rewrite, evidence)
        PROVE  Goal
    <2>1. op.claim.task # t
      BY <1>9 DEF AssignPrepare, Running, ClaimInv, AssignSound, LiveClaim, Terminal
    <2>. QED
      BY <1>1, <1>9, <2>1 DEF AssignPrepare
  <1>10. CASE AssignFailed
    <2>1. op.claim.task # t
      BY <1>10 DEF AssignFailed, ClaimInv, AssignSound, LiveClaim, Terminal
    <2>. QED
      BY <1>1, <1>10, <2>1 DEF AssignFailed
  <1>11. ASSUME NEW R \in SUBSET Worker, NEW gone \in SUBSET R, ScaleDown(R, gone)
         PROVE  Goal
    BY <1>1, <1>11 DEF ScaleDown, TakenFrom
  <1>. HIDE DEF Goal
  <1>. QED
    BY <1>2, <1>3, <1>4, <1>5, <1>6, <1>7, <1>8, <1>9, <1>10, <1>11
       DEF Next, ClientNext, OpNext, vars, ClaimTask, AssignTask, AdvanceNextTaskId,
       RefuseCompletion, AppendTaskEvent, ReadSnapshot, SaveSnapshot, AssignDelivered,
       LoadConfig, SaveTeamConfig, SaveOf, SaveTeamConfigFails, ScaleUp, PhaseTurns, Tick,
       Crash

------------------------------------------------------------------------------
(* Events *)

\* A step that writes no event and leaves no transition waiting to write one,
\* unless it was waiting already.
EventsQuiet ==
    /\ events' = events
    /\ op' # Idle /\ op'.kind = "transition" /\ op'.stage = "event" =>
          op' = op /\ tasks' = tasks

\* Only the append writes events, only a transition starts one.
LEMMA EventWriters ==
    ASSUME TypeOK, [Next]_vars
    PROVE  \/ AppendTaskEvent
           \/ \E w \in Worker : \E c \in held[w], proof \in BOOLEAN, to \in Terminal :
                 TransitionTask(w, c, to, proof)
           \/ EventsQuiet
  <1>1. ASSUME NEW n, NEW s, NEW o, NEW d, NEW e, CreateTask(n, s, o, d, e)
        PROVE  EventsQuiet
    BY <1>1 DEF CreateTask, EventsQuiet
  <1>2. ASSUME NEW w, NEW t, AssignTask(w, t)
        PROVE  EventsQuiet
    BY <1>2 DEF AssignTask, EventsQuiet
  <1>3. ASSUME NEW w, NEW c, NEW proof, RefuseCompletion(w, c, proof)
        PROVE  EventsQuiet
    BY <1>3 DEF RefuseCompletion, Transitioning, EventsQuiet
  <1>4. CASE ReadSnapshot
    BY <1>4 DEF ReadSnapshot, Transitioning, EventsQuiet
  <1>5. ASSUME NEW rewrite, NEW evidence, AssignPrepare(rewrite, evidence)
        PROVE  EventsQuiet
    <2>1. op' = [op EXCEPT !.stage = "dispatch"] /\ op \in Op /\ op.kind = "assign"
      BY <1>5 DEF AssignPrepare, Running, TypeOK
    <2>2. op'.kind = "assign"
      BY <2>1 DEF Op
    <2>. QED
      BY <1>5, <2>2 DEF AssignPrepare, EventsQuiet
  <1>6. ASSUME events' = events, op' = Idle
        PROVE  EventsQuiet
    BY <1>6 DEF EventsQuiet
  <1>7. ASSUME events' = events, op = Idle, op' = op
        PROVE  EventsQuiet
    BY <1>7 DEF EventsQuiet
  <1>8. ASSUME UNCHANGED <<events, op, tasks>>
        PROVE  EventsQuiet
    BY <1>8 DEF EventsQuiet
  <1>9. CASE ClientNext
    BY <1>1, <1>2, <1>3, <1>7, <1>9
       DEF ClientNext, ClaimTask, ReleaseTaskClaim, UpdateTask, LoadConfig,
       SaveTeamConfig, SaveOf, Grown, SaveTeamConfigFails, ScaleUp, ScaleDown
  <1>10. CASE OpNext
    BY <1>4, <1>5, <1>6, <1>10
       DEF OpNext, AdvanceNextTaskId, SaveSnapshot, AssignDelivered, AssignFailed
  <1>11. ASSUME NEW t, ReclaimExpiredTaskClaim(t)
         PROVE  EventsQuiet
    BY <1>7, <1>11 DEF ReclaimExpiredTaskClaim
  <1>12. CASE PhaseTurns \/ Tick \/ Crash \/ UNCHANGED vars
    BY <1>6, <1>8, <1>12 DEF PhaseTurns, Tick, Crash, vars
  <1>. QED
    BY <1>9, <1>10, <1>11, <1>12 DEF Next

LEMMA StepEvent ==
    ASSUME TypeOK, TypeOK', ClaimInv, EventInv, [Next]_vars
    PROVE  EventInv'
  <1>1. ASSUME NEW t \in TaskId, events'[t] = events[t]
        PROVE  (/\ events[t].completed + events[t].failed <= 1
                /\ events[t].completed = 1 => tasks[t] # NoTask /\ tasks[t].status = "completed"
                /\ events[t].failed = 1 => tasks[t] # NoTask /\ tasks[t].status = "failed")'
    <2>1. events[t].completed \in Nat /\ events[t].failed \in Nat
      BY DEF TypeOK
    <2>2. CASE events[t].completed + events[t].failed = 1
      <3>1. tasks[t] # NoTask /\ tasks[t].status \in Terminal
        BY <2>1, <2>2 DEF EventInv, EventsSound, Terminal
      <3>2. tasks'[t] # NoTask /\ tasks'[t].status = tasks[t].status
        BY <3>1, StepFinal
      <3>. QED
        BY <1>1, <2>1, <2>2, <3>2 DEF EventInv, EventsSound
    <2>3. CASE events[t].completed + events[t].failed = 0
      BY <1>1, <2>1, <2>3
    <2>. QED
      BY <2>1, <2>2, <2>3 DEF EventInv, EventsSound
  <1>2. CASE AppendTaskEvent
    <2>1. /\ op.task \in TaskId /\ op.to \in Terminal
          /\ op' = Idle \/ op'.stage = "read"
      BY <1>2, OpFields DEF AppendTaskEvent, Running, TypeOK
    <2>2. events'[op.task] = [events[op.task] EXCEPT ![op.to] = @ + 1]
      BY <1>2, <2>1 DEF AppendTaskEvent, TypeOK
    <2>3. events'[op.task].completed + events'[op.task].failed = 1
          /\ (events'[op.task].completed = 1 => op.to = "completed")
          /\ (events'[op.task].failed = 1 => op.to = "failed")
      BY <1>2, <2>1, <2>2 DEF AppendTaskEvent, EventInv, ReportSound, Terminal
    <2>4. tasks'[op.task] # NoTask /\ tasks'[op.task].status = op.to
      BY <1>2 DEF AppendTaskEvent, EventInv, ReportSound
    <2>5. EventsSound'
      BY <1>1, <1>2, <2>3, <2>4 DEF AppendTaskEvent, EventsSound, TypeOK
    <2>6. ReportSound'
      BY <2>1 DEF ReportSound, Running
    <2>. QED
      BY <2>5, <2>6 DEF EventInv
  <1>3. ASSUME NEW w \in Worker, NEW c \in held[w], NEW proof \in BOOLEAN,
               NEW to \in Terminal, TransitionTask(w, c, to, proof)
        PROVE  EventInv'
    <2>1. c.task \in TaskId /\ tasks[c.task] # NoTask /\ tasks[c.task].status = "in_progress"
      BY <1>3 DEF TransitionTask, TransitionAllowed, TypeOK, Held
    <2>2. tasks'[c.task].status = to /\ tasks'[c.task] # NoTask
      <3>1. tasks[c.task] \in Task
        BY <2>1 DEF TypeOK
      <3>4. Moved(tasks[c.task], to, tasks[c.task].owner, NoClaim) \in Task
        BY <3>1, MovedType DEF Task, Status
      <3>2. tasks'[c.task] = Moved(tasks[c.task], to, tasks[c.task].owner, NoClaim)
        BY <1>3, <2>1 DEF TransitionTask, TypeOK
      <3>. QED
        BY <3>4, <3>2, SentinelsAssumption DEF Moved
    <2>3. events[c.task] = [completed |-> 0, failed |-> 0]
      <3>1. events[c.task] \in [completed: Nat, failed: Nat]
        BY <2>1 DEF TypeOK
      <3>2. events[c.task].completed = 0 /\ events[c.task].failed = 0
        BY <2>1, <3>1 DEF EventInv, EventsSound
      <3>. QED
        BY <3>1, <3>2
    <2>4. ReportSound'
      <3>1. /\ op' = Transitioning(c.task, to, "event", NoSnapshot)
            /\ events' = events
        BY <1>3 DEF TransitionTask
      <3>2. op'.task = c.task /\ op'.to = to
        BY <3>1 DEF Transitioning
      <3>. QED
        BY <2>2, <2>3, <3>1, <3>2 DEF ReportSound
    <2>5. EventsSound'
      BY <1>1, <1>3 DEF TransitionTask, EventsSound
    <2>. QED
      BY <2>4, <2>5 DEF EventInv
  <1>4. CASE EventsQuiet
    BY <1>1, <1>4 DEF EventsQuiet, EventInv, EventsSound, ReportSound, Running
  <1>. QED
    BY <1>2, <1>3, <1>4, EventWriters

------------------------------------------------------------------------------
(* Claims *)

\* The parts of a task the claim invariants speak about.
SameClaim(t) ==
    /\ tasks'[t] = NoTask <=> tasks[t] = NoTask
    /\ tasks[t] # NoTask =>
          /\ tasks'[t].status = tasks[t].status
          /\ tasks'[t].owner = tasks[t].owner
          /\ tasks'[t].claim = tasks[t].claim

\* The tasks in S lose their claims, and nothing else about claims changes:
\* no worker of the team had an unexpired lease on one of them.
OnlyLost(S) ==
    /\ \A t \in TaskId \ S : SameClaim(t)
    /\ \A t \in S : /\ tasks'[t] # NoTask /\ tasks'[t].claim = NoClaim
                    /\ tasks'[t].status # "in_progress"
    /\ \A w \in Worker : held'[w] \subseteq held[w]
    /\ issued' = issued /\ now' >= now
    /\ overwritten => overwritten'
    /\ ~overwritten' =>
          /\ \A w \in config'.workers : \A c \in held'[w] :
                c.until > now => w \in config.workers /\ c.task \notin S
          /\ config.used \subseteq config'.used
          /\ \A t \in TaskId \ S : tasks[t] # NoTask /\ tasks[t].claim # NoClaim =>
                tasks[t].claim.owner \in config'.workers
    /\ op' # Idle /\ op'.kind = "assign" =>
          /\ op # Idle /\ op.kind = "assign"
          /\ op'.worker = op.worker /\ op'.claim = op.claim
          /\ op.claim.task \notin S /\ op.worker \in config'.workers

\* Such a step, which every step but a grant and its delivery is, keeps the
\* claim invariants.
LEMMA ClaimsOnlyLost ==
    ASSUME TypeOK, TypeOK', ClaimInv, NEW S \in SUBSET TaskId, OnlyLost(S)
    PROVE  ClaimInv'
  <1>. USE DEF OnlyLost
  <1>1. ClaimedByMember'
    <2>1. ASSUME NEW t \in TaskId, tasks'[t] # NoTask, tasks'[t].claim # NoClaim
          PROVE  /\ t \notin S /\ tasks[t] # NoTask /\ tasks'[t].claim = tasks[t].claim
                 /\ tasks'[t].owner = tasks[t].owner
      BY <2>1 DEF SameClaim
    <2>. QED
      BY <2>1 DEF ClaimInv, ClaimedByMember, ClaimConsistent, MemberHasClaim, SameClaim
  <1>2. LeaseHolderOwnsTask'
    <2>1. ASSUME ~overwritten', NEW w \in config'.workers, NEW c \in held'[w], c.until > now'
          PROVE  LiveClaim(w, c)'
      <3>1. w \in Worker /\ c \in Held /\ ~overwritten
        BY <2>1 DEF TypeOK, Config
      <3>2. c.until \in Nat /\ c.task \in TaskId /\ now \in Nat /\ now' \in Nat
        BY <3>1 DEF Held, TypeOK
      <3>3. c.until > now
        BY <2>1, <3>2
      <3>4. w \in config.workers /\ c.task \notin S /\ c \in held[w]
        BY <2>1, <3>1, <3>3
      <3>5. LiveClaim(w, c)
        BY <3>1, <3>3, <3>4 DEF ClaimInv, LeaseHolderOwnsTask
      <3>. QED
        BY <3>2, <3>4, <3>5 DEF LiveClaim, SameClaim
    <2>. QED
      BY <2>1 DEF LeaseHolderOwnsTask
  <1>3. HeldSound'
    <2>1. ASSUME NEW w \in Worker, NEW c \in held'[w]
          PROVE  overwritten' \/ w \in config'.used
      BY <2>1 DEF ClaimInv, HeldSound
    <2>. QED
      BY <2>1 DEF ClaimInv, HeldSound
  <1>4. AssignSound'
    <2>. SUFFICES ASSUME op' # Idle, op'.kind = "assign"
                  PROVE  /\ LiveClaim(op.worker, op.claim)'
                         /\ op'.worker \in config'.workers
                         /\ op'.claim.token \in 1..issued'
                         /\ \A w \in Worker : \A c \in held'[w] :
                               c.token # op'.claim.token
      BY DEF AssignSound
    <2>1. /\ LiveClaim(op.worker, op.claim) /\ op.claim.token \in 1..issued
          /\ \A w \in Worker : \A c \in held[w] : c.token # op.claim.token
      BY DEF ClaimInv, AssignSound
    <2>2. op.claim.task \in TaskId
      BY OpFields DEF TypeOK, Held
    <2>3. LiveClaim(op.worker, op.claim)'
      BY <2>1, <2>2 DEF LiveClaim, SameClaim
    <2>. QED
      BY <2>1, <2>3
  <1>. QED
    BY <1>1, <1>2, <1>3, <1>4 DEF ClaimInv

\* A grant: the task had no unexpired claim, its token is new, and the claim is
\* live.  Nobody with an unexpired lease loses its task.
LEMMA ClaimGranted ==
    ASSUME TypeOK, TypeOK', ClaimInv, NEW w \in Worker, NEW t \in TaskId, NEW expected,
           ClaimAllowed(t, w, expected), GrantClaim(t, w),
           UNCHANGED <<now, config, overwritten>>,
           NEW h, h = NewHeld(t)
    PROVE  /\ ClaimedByMember'
           /\ LiveClaim(w, h)'
           /\ overwritten \/ \A u \in config.workers : \A c \in held[u] :
                 c.until > now => LiveClaim(u, c)'
           /\ \A u \in Worker : \A c \in held[u] : c.token # h.token
           /\ h.token \in 1..issued'
  <1>. DEFINE claim == [owner |-> w, token |-> issued + 1, until |-> now + LeaseTerm]
  <1>1. /\ issued \in Nat /\ issued' = issued + 1 /\ tasks[t] \in Task
        /\ claim \in Claim /\ w \in config.workers
    <2>1. issued + 1 \in Token /\ now + LeaseTerm \in Nat
      BY GrantType, BoundsAssumption DEF TypeOK
    <2>. QED
      BY <2>1 DEF TypeOK, ClaimAllowed, GrantClaim, Claim
  <1>2. /\ tasks'[t] = Moved(tasks[t], "in_progress", w, claim)
        /\ \A u \in TaskId : u # t => tasks'[u] = tasks[u]
    BY <1>1 DEF GrantClaim, TypeOK
  <1>3. /\ tasks'[t] # NoTask /\ tasks'[t].status = "in_progress"
        /\ tasks'[t].owner = w /\ tasks'[t].claim = claim /\ claim # NoClaim
    <2>1. tasks'[t] \in Task
      BY <1>1, <1>2, MovedType DEF Status
    <2>. QED
      BY <1>1, <1>2, <2>1, SentinelsAssumption DEF Moved
  <1>4. ClaimedByMember'
    <2>1. ASSUME NEW u \in TaskId, tasks[u] # NoTask, tasks[u].claim # NoClaim
          PROVE  tasks[u].claim.token \in Nat /\ tasks[u].claim.token <= issued
      <3>1. tasks[u].claim \in Claim
        BY <2>1 DEF TypeOK, Task
      <3>. QED
        BY <2>1, <3>1 DEF Claim, Token, ClaimInv, ClaimedByMember, ClaimConsistent, MemberHasClaim
    <2>2. claim.token = issued + 1 /\ claim.owner = w
      OBVIOUS
    <2>. HIDE DEF claim
    <2>3. ASSUME NEW u \in TaskId, tasks'[u] # NoTask
          PROVE  /\ tasks'[u].claim # NoClaim <=> tasks'[u].status = "in_progress"
                 /\ tasks'[u].claim # NoClaim =>
                       /\ tasks'[u].claim.owner = tasks'[u].owner
                       /\ overwritten \/ tasks'[u].claim.owner \in config.workers
                       /\ tasks'[u].claim.token <= issued'
                       /\ u # t => tasks'[u].claim.token # claim.token
      BY <1>1, <1>2, <1>3, <2>1, <2>2, <2>3 DEF ClaimInv, ClaimedByMember, ClaimConsistent, MemberHasClaim
    <2>4. ASSUME NEW u \in TaskId, NEW v \in TaskId,
                 tasks'[u] # NoTask, tasks'[u].claim # NoClaim,
                 tasks'[v] # NoTask, tasks'[v].claim # NoClaim,
                 tasks'[v].claim.token = tasks'[u].claim.token
          PROVE  v = u
      BY <1>2, <1>3, <2>3, <2>4 DEF ClaimInv, ClaimedByMember, ClaimConsistent, MemberHasClaim
    <2>5. config'.workers = config.workers
      OBVIOUS
    <2>. QED
      BY <2>3, <2>4, <2>5, Zenon DEF ClaimedByMember, ClaimConsistent, MemberHasClaim
  <1>5. LiveClaim(w, h)'
    BY <1>1, <1>3 DEF LiveClaim, NewHeld
  <1>6. ASSUME ~overwritten, NEW u \in config.workers, NEW c \in held[u], c.until > now
        PROVE  LiveClaim(u, c)'
    <2>1. LiveClaim(u, c) /\ c.task \in TaskId
      BY <1>6 DEF ClaimInv, LeaseHolderOwnsTask, TypeOK, Config, Held
    <2>2. c.task # t
      BY <1>6, <2>1 DEF LiveClaim, ClaimAllowed, Expired, TypeOK, Config, Held
    <2>. QED
      BY <1>2, <2>1, <2>2 DEF LiveClaim
  <1>7. h.token = issued + 1
    BY DEF NewHeld
  <1>8. \A u \in Worker : \A c \in held[u] : c.token # h.token
    BY <1>1, <1>7 DEF ClaimInv, HeldSound
  <1>. QED
    BY <1>1, <1>4, <1>5, <1>6, <1>7, <1>8

\* A step that changes no task, claim or membership.
LEMMA ClaimsUntouched ==
    ASSUME TypeOK, TypeOK', ClaimInv,
           UNCHANGED <<tasks, held, issued>>, now' >= now,
           config'.workers = config.workers, config'.used = config.used,
           overwritten' = overwritten,
           op' # Idle /\ op'.kind = "assign" => op' = op
    PROVE  ClaimInv'
  <1>1. OnlyLost({})
    BY DEF OnlyLost, SameClaim, ClaimInv, ClaimedByMember, ClaimConsistent, MemberHasClaim, AssignSound, TypeOK
  <1>. QED
    BY <1>1, ClaimsOnlyLost

LEMMA StepClaim ==
    ASSUME TypeOK, TypeOK', ViewInv, ClaimInv, [Next]_vars
    PROVE  ClaimInv'
  <1>1. ASSUME NEW n \in TaskId, NEW s \in StatusChoices,
               NEW o \in OwnerChoices, NEW d \in DepChoices, NEW e \in BOOLEAN,
               CreateTask(n, s, o, d, e)
        PROVE  ClaimInv'
    <2>1. tasks[n] = NoTask
      BY <1>1 DEF CreateTask, IsNextTaskId, DiskIds, TaskId
    <2>2. /\ tasks'[n] # NoTask /\ tasks'[n].claim = NoClaim /\ tasks'[n].status \in Open
          /\ \A t \in TaskId \ {n} : tasks'[t] = tasks[t]
      <3>1. [status |-> s, owner |-> o, claim |-> NoClaim, version |-> 1,
             deps |-> d, evidence |-> e] \in Task
        BY ChoicesAssumption DEF Task, Status
      <3>2. s \in Open
        BY ChoicesAssumption
      <3>. QED
        BY <1>1, <3>1, <3>2, SentinelsAssumption DEF CreateTask, TypeOK
    <2>3. overwritten \/ \A w \in config.workers : \A c \in held[w] :
             c.until > now => c.task # n
      BY <2>1 DEF ClaimInv, LeaseHolderOwnsTask, LiveClaim
    <2>4. OnlyLost({n})
      BY <1>1, <2>2, <2>3
         DEF CreateTask, OnlyLost, SameClaim, ClaimInv, ClaimedByMember, ClaimConsistent, MemberHasClaim, TypeOK
    <2>. QED
      BY <2>4, ClaimsOnlyLost
  <1>2. ASSUME NEW w \in Worker, NEW t \in TaskId, NEW told \in BOOLEAN, NEW v,
               ClaimTask(w, t, v, told)
        PROVE  ClaimInv'
    <2>1. PICK h : h = NewHeld(t)
      OBVIOUS
    <2>2. /\ ClaimedByMember' /\ LiveClaim(w, h)' /\ h.token \in 1..issued'
          /\ overwritten \/ \A u \in config.workers : \A c \in held[u] :
                c.until > now => LiveClaim(u, c)'
          /\ \A u \in Worker : \A c \in held[u] : c.token # h.token
      BY <1>2, <2>1, ClaimGranted DEF ClaimTask
    <2>3. /\ \A u \in Worker : u # w => held'[u] = held[u]
          /\ held'[w] = held[w] \/ held'[w] = held[w] \cup {h}
          /\ UNCHANGED <<config, now, op, overwritten>> /\ op = Idle
          /\ w \in config.workers /\ issued' = issued + 1
      BY <1>2, <2>1 DEF ClaimTask, ClaimAllowed, GrantClaim, TypeOK
    <2>4. LeaseHolderOwnsTask'
      BY <2>2, <2>3 DEF LeaseHolderOwnsTask, TypeOK, Config
    <2>5. HeldSound'
      <3>1. ASSUME NEW u \in Worker, NEW c \in held'[u]
            PROVE  (overwritten' \/ u \in config'.used) /\ c.token \in 1..issued'
        BY <2>2, <2>3, <3>1 DEF ViewInv, ViewSound, ClaimInv, HeldSound, TypeOK
      <3>2. ASSUME NEW u \in Worker, NEW c \in held'[u],
                   NEW u2 \in Worker, NEW c2 \in held'[u2], c2.token = c.token
            PROVE  u2 = u /\ c2 = c
        BY <2>2, <2>3, <3>2 DEF ClaimInv, HeldSound
      <3>. QED
        BY <2>3, <3>1, <3>2 DEF HeldSound
    <2>6. AssignSound'
      BY <2>3 DEF AssignSound
    <2>. QED
      BY <2>2, <2>4, <2>5, <2>6 DEF ClaimInv
  <1>3. ASSUME NEW w \in Worker, NEW c \in held[w], NEW to \in Terminal,
               NEW proof \in BOOLEAN, TransitionTask(w, c, to, proof)
        PROVE  ClaimInv'
    <2>1. c.task \in TaskId /\ tasks[c.task] \in Task
      BY <1>3 DEF TransitionTask, TransitionAllowed, TypeOK, Held
    <2>2. /\ tasks'[c.task] # NoTask /\ tasks'[c.task].claim = NoClaim
          /\ tasks'[c.task].status # "in_progress"
          /\ \A t \in TaskId \ {c.task} : tasks'[t] = tasks[t]
      <3>1. tasks'[c.task] = Moved(tasks[c.task], to, tasks[c.task].owner, NoClaim)
            /\ \A t \in TaskId \ {c.task} : tasks'[t] = tasks[t]
        BY <1>3, <2>1 DEF TransitionTask, TypeOK
      <3>2. Moved(tasks[c.task], to, tasks[c.task].owner, NoClaim) \in Task
        BY <2>1, MovedType DEF Task, Status
      <3>. QED
        BY <3>1, <3>2, SentinelsAssumption DEF Moved, Terminal
    <2>3. ASSUME ~overwritten, NEW u \in config.workers, NEW d \in held'[u], d.until > now
          PROVE  d.task # c.task
      <3>1. u \in Worker /\ d \in held[u] /\ ~(u = w /\ d = c)
        BY <1>3 DEF TransitionTask, TypeOK, Config
      <3>2. d.token # c.token
        BY <3>1 DEF ClaimInv, HeldSound
      <3>3. LiveClaim(u, d)
        BY <2>3, <3>1 DEF ClaimInv, LeaseHolderOwnsTask
      <3>. QED
        BY <1>3, <3>2, <3>3 DEF TransitionTask, TransitionAllowed, HoldsClaim, LiveClaim
    <2>4. op' # Idle => op'.kind = "transition"
      BY <1>3 DEF TransitionTask, Transitioning
    <2>5. OnlyLost({c.task})
      BY <1>3, <2>1, <2>2, <2>3, <2>4
         DEF TransitionTask, OnlyLost, SameClaim, ClaimInv, ClaimedByMember, ClaimConsistent, MemberHasClaim, TypeOK
    <2>. QED
      BY <2>1, <2>5, ClaimsOnlyLost
  <1>4. ASSUME NEW w \in Worker, NEW c \in held[w], ReleaseTaskClaim(w, c)
        PROVE  ClaimInv'
    <2>1. c.task \in TaskId /\ tasks[c.task] \in Task
      BY <1>4 DEF ReleaseTaskClaim, TypeOK, Held
    <2>2. CASE UNCHANGED tasks
      <3>1. OnlyLost({})
        BY <1>4, <2>2 DEF ReleaseTaskClaim, OnlyLost, SameClaim, ClaimInv, ClaimedByMember, ClaimConsistent, MemberHasClaim,
           TypeOK
      <3>. QED
        BY <3>1, ClaimsOnlyLost
    <2>3. CASE HoldsClaim(c.task, c.token) /\ tasks' = [tasks EXCEPT ![c.task] = Requeued(@)]
      <3>1. /\ tasks'[c.task] # NoTask /\ tasks'[c.task].claim = NoClaim
            /\ tasks'[c.task].status # "in_progress"
            /\ \A t \in TaskId \ {c.task} : tasks'[t] = tasks[t]
        BY <2>1, <2>3, RequeuedType, SentinelsAssumption DEF TypeOK
      <3>2. ASSUME ~overwritten, NEW u \in config.workers, NEW d \in held'[u], d.until > now
            PROVE  d.task # c.task
        <4>1. u \in Worker /\ d \in held[u] /\ ~(u = w /\ d = c)
          BY <1>4 DEF ReleaseTaskClaim, TypeOK, Config
        <4>2. d.token # c.token
          BY <4>1 DEF ClaimInv, HeldSound
        <4>3. LiveClaim(u, d)
          BY <3>2, <4>1 DEF ClaimInv, LeaseHolderOwnsTask
        <4>. QED
          BY <2>3, <4>2, <4>3 DEF HoldsClaim, LiveClaim
      <3>3. OnlyLost({c.task})
        BY <1>4, <2>1, <3>1, <3>2
           DEF ReleaseTaskClaim, OnlyLost, SameClaim, ClaimInv, ClaimedByMember, ClaimConsistent, MemberHasClaim, TypeOK
      <3>. QED
        BY <2>1, <3>3, ClaimsOnlyLost
    <2>. QED
      BY <1>4, <2>2, <2>3 DEF ReleaseTaskClaim
  <1>5. ASSUME NEW t \in TaskId, ReclaimExpiredTaskClaim(t)
        PROVE  ClaimInv'
    <2>1. /\ tasks'[t] # NoTask /\ tasks'[t].claim = NoClaim
          /\ tasks'[t].status # "in_progress"
          /\ \A u \in TaskId \ {t} : tasks'[u] = tasks[u]
      BY <1>5, RequeuedType, SentinelsAssumption DEF ReclaimExpiredTaskClaim, TypeOK
    <2>2. ASSUME ~overwritten, NEW u \in config.workers, NEW d \in held[u], d.until > now
          PROVE  d.task # t
      <3>1. u \in Worker /\ d.until \in Nat /\ now \in Nat
        BY DEF TypeOK, Config, Held
      <3>2. LiveClaim(u, d)
        BY <2>2 DEF ClaimInv, LeaseHolderOwnsTask
      <3>. QED
        BY <1>5, <2>2, <3>1, <3>2 DEF ReclaimExpiredTaskClaim, Expired, LiveClaim
    <2>3. OnlyLost({t})
      BY <1>5, <2>1, <2>2 DEF ReclaimExpiredTaskClaim, OnlyLost, SameClaim, ClaimInv,
         ClaimedByMember, ClaimConsistent, MemberHasClaim, TypeOK
    <2>. QED
      BY <2>3, ClaimsOnlyLost
  <1>6. ASSUME NEW t \in TaskId, NEW d \in DepChoices, UpdateTask(t, d)
        PROVE  ClaimInv'
    <2>1. SameClaim(t) /\ \A u \in TaskId \ {t} : tasks'[u] = tasks[u]
      <3>1. Edited(tasks[t], d, tasks[t].evidence) \in Task
        BY <1>6, UpdateType
      <3>. QED
        BY <1>6, <3>1, SentinelsAssumption DEF UpdateTask, SameClaim, Edited, TypeOK
    <2>2. OnlyLost({})
      BY <1>6, <2>1 DEF UpdateTask, OnlyLost, SameClaim, ClaimInv, ClaimedByMember, ClaimConsistent, MemberHasClaim, TypeOK
    <2>. QED
      BY <2>2, ClaimsOnlyLost
  <1>7. ASSUME NEW w \in Worker, NEW t \in TaskId, AssignTask(w, t)
        PROVE  ClaimInv'
    <2>1. PICK h : h = NewHeld(t)
      OBVIOUS
    <2>2. /\ ClaimedByMember' /\ LiveClaim(w, h)' /\ h.token \in 1..issued'
          /\ overwritten \/ \A u \in config.workers : \A c \in held[u] :
                c.until > now => LiveClaim(u, c)'
          /\ \A u \in Worker : \A c \in held[u] : c.token # h.token
      BY <1>7, <2>1, ClaimGranted DEF AssignTask
    <2>3. /\ UNCHANGED <<config, now, held, overwritten>> /\ w \in config.workers
          /\ issued' = issued + 1
          /\ op' = [kind |-> "assign", stage |-> "prepare", worker |-> w, claim |-> h]
      BY <1>7, <2>1 DEF AssignTask, ClaimAllowed, GrantClaim
    <2>4. LeaseHolderOwnsTask'
      BY <2>2, <2>3 DEF LeaseHolderOwnsTask
    <2>5. HeldSound'
      BY <2>3 DEF ClaimInv, HeldSound, TypeOK
    <2>6. AssignSound'
      BY <2>2, <2>3 DEF AssignSound
    <2>. QED
      BY <2>2, <2>4, <2>5, <2>6 DEF ClaimInv
  <1>8. ASSUME NEW rewrite \in BOOLEAN, NEW evidence \in BOOLEAN,
               AssignPrepare(rewrite, evidence)
        PROVE  ClaimInv'
    <2>1. /\ op.kind = "assign" /\ op.claim \in Held /\ op.claim.task \in TaskId
          /\ tasks[op.claim.task] \in Task
      BY <1>8, OpFields DEF AssignPrepare, Running, ClaimInv, AssignSound, LiveClaim, Held,
         TypeOK
    <2>2. \A t \in TaskId : SameClaim(t)
      <3>1. Edited(tasks[op.claim.task], tasks[op.claim.task].deps, evidence) \in Task
        BY <2>1, EditedType DEF Task
      <3>. QED
        BY <1>8, <2>1, <3>1, SentinelsAssumption DEF AssignPrepare, SameClaim, Edited, TypeOK
    <2>3. op'.kind = "assign" /\ op'.worker = op.worker /\ op'.claim = op.claim
      BY <1>8, OpFields DEF AssignPrepare, Running, TypeOK
    <2>4. OnlyLost({})
      BY <1>8, <2>2, <2>3 DEF AssignPrepare, Running, OnlyLost, ClaimInv, ClaimedByMember, ClaimConsistent, MemberHasClaim,
         AssignSound, TypeOK
    <2>. QED
      BY <2>4, ClaimsOnlyLost
  <1>9. CASE AssignDelivered
    <2>1. /\ op # Idle /\ op.kind = "assign" /\ op' = Idle
          /\ op.worker \in Worker /\ op.claim \in Held
          /\ UNCHANGED <<tasks, config, now, issued, overwritten>>
          /\ \A u \in Worker : u # op.worker => held'[u] = held[u]
          /\ held'[op.worker] = held[op.worker] \cup {op.claim}
      BY <1>9, OpFields DEF AssignDelivered, Running, TypeOK
    <2>2. ClaimedByMember'
      BY <2>1 DEF ClaimInv, ClaimedByMember, ClaimConsistent, MemberHasClaim
    <2>3. LeaseHolderOwnsTask'
      <3>1. ASSUME ~overwritten, NEW u \in config.workers, NEW c \in held'[u], c.until > now
            PROVE  LiveClaim(u, c)
        <4>0. u \in Worker
          BY DEF TypeOK, Config
        <4>1. c \in held[u] \/ (u = op.worker /\ c = op.claim)
          BY <2>1, <3>1, <4>0, Zenon
        <4>2. CASE c \in held[u]
          BY <3>1, <4>2 DEF ClaimInv, LeaseHolderOwnsTask
        <4>3. CASE u = op.worker /\ c = op.claim
          BY <2>1, <4>3 DEF ClaimInv, AssignSound
        <4>. QED
          BY <4>1, <4>2, <4>3
      <3>. QED
        BY <2>1, <3>1 DEF LeaseHolderOwnsTask, LiveClaim
    <2>4. HeldSound'
      BY <2>1 DEF ClaimInv, HeldSound, AssignSound, ViewInv, ViewSound, TypeOK
    <2>5. AssignSound'
      BY <2>1 DEF AssignSound
    <2>. QED
      BY <2>2, <2>3, <2>4, <2>5 DEF ClaimInv
  <1>10. CASE AssignFailed
    <2>1. /\ op.claim.task \in TaskId /\ tasks[op.claim.task] \in Task
          /\ LiveClaim(op.worker, op.claim)
          /\ \A u \in Worker : \A c \in held[u] : c.token # op.claim.token
      BY <1>10, OpFields DEF AssignFailed, ClaimInv, AssignSound, LiveClaim, Held, TypeOK
    <2>2. CASE UNCHANGED tasks
      BY <1>10, <2>2, ClaimsUntouched DEF AssignFailed, TypeOK
    <2>3. CASE tasks' = [tasks EXCEPT ![op.claim.task] = Requeued(@)]
      <3>1. /\ tasks'[op.claim.task] # NoTask /\ tasks'[op.claim.task].claim = NoClaim
            /\ tasks'[op.claim.task].status # "in_progress"
            /\ \A u \in TaskId \ {op.claim.task} : tasks'[u] = tasks[u]
        BY <2>1, <2>3, RequeuedType, SentinelsAssumption DEF TypeOK
      <3>2. ASSUME ~overwritten, NEW u \in config.workers, NEW d \in held[u], d.until > now
            PROVE  d.task # op.claim.task
        <4>1. u \in Worker /\ d.token # op.claim.token
          BY <2>1 DEF TypeOK, Config
        <4>2. LiveClaim(u, d)
          BY <3>2 DEF ClaimInv, LeaseHolderOwnsTask
        <4>. QED
          BY <2>1, <4>1, <4>2 DEF LiveClaim
      <3>3. OnlyLost({op.claim.task})
        BY <1>10, <2>1, <3>1, <3>2 DEF AssignFailed, OnlyLost, SameClaim, ClaimInv,
           ClaimedByMember, ClaimConsistent, MemberHasClaim, TypeOK
      <3>. QED
        BY <2>1, <3>3, ClaimsOnlyLost
    <2>. QED
      BY <1>10, <2>2, <2>3 DEF AssignFailed
  <1>11. ASSUME NEW W \in SUBSET Worker, SaveTeamConfig(W)
         PROVE  ClaimInv'
    <2>1. ASSUME ~overwritten'
          PROVE  /\ config.workers \subseteq config'.workers
                 /\ config.used \subseteq config'.used
                 /\ \A w \in config'.workers \ config.workers : w \notin config.used
      BY <1>11, <2>1 DEF SaveTeamConfig, SaveOf, Grown, NewMembers, ViewInv,
         GenerationFixesMembership
    <2>2. overwritten => overwritten'
      BY StepOverwritten
    <2>3. ASSUME ~overwritten', NEW w \in config'.workers, held[w] # {}
          PROVE  w \in config.workers
      BY <2>1, <2>2, <2>3 DEF ClaimInv, HeldSound, TypeOK, Config
    <2>4. OnlyLost({})
      BY <1>11, <2>1, <2>2, <2>3 DEF SaveTeamConfig, SaveOf, Grown, OnlyLost, SameClaim,
         ClaimInv, ClaimedByMember, ClaimConsistent, MemberHasClaim, TypeOK
    <2>. QED
      BY <2>4, ClaimsOnlyLost
  <1>12. ASSUME NEW R \in SUBSET Worker, NEW gone \in SUBSET R, ScaleDown(R, gone)
         PROVE  ClaimInv'
    <2>1. config'.workers = config.workers \ R /\ config'.used = config.used
      BY <1>12 DEF ScaleDown, NewMembers, ViewInv, ViewSound
    <2>2. \A t \in TakenFrom(R) :
             /\ tasks'[t] # NoTask /\ tasks'[t].claim = NoClaim
             /\ tasks'[t].status # "in_progress"
      <3>1. ASSUME NEW t \in TakenFrom(R)
            PROVE  /\ tasks[t] \in Task /\ tasks[t].status \notin Terminal
                   /\ tasks'[t] = TakenAway(tasks[t])
        BY <1>12 DEF ScaleDown, TakenFrom, TypeOK
      <3>. QED
        BY <3>1, TakenAwayType, SentinelsAssumption
    <2>3. \A t \in TaskId \ TakenFrom(R) : tasks'[t] = tasks[t]
      BY <1>12 DEF ScaleDown
    <2>4. ASSUME ~overwritten, NEW u \in config'.workers, NEW d \in held'[u], d.until > now
          PROVE  u \in config.workers /\ d.task \notin TakenFrom(R)
      <3>1. u \in Worker /\ u \in config.workers /\ u \notin R /\ d \in held[u]
        BY <1>12, <2>1 DEF ScaleDown, TypeOK, Config
      <3>2. LiveClaim(u, d)
        BY <2>4, <3>1 DEF ClaimInv, LeaseHolderOwnsTask
      <3>. QED
        BY <3>1, <3>2 DEF LiveClaim, TakenFrom
    <2>5. ASSUME ~overwritten, NEW t \in TaskId \ TakenFrom(R), tasks[t] # NoTask, tasks[t].claim # NoClaim
          PROVE  tasks[t].claim.owner \in config'.workers
      BY <2>1, <2>5 DEF TakenFrom, ClaimInv, ClaimedByMember, ClaimConsistent, MemberHasClaim, Terminal
    <2>6. /\ \A w \in Worker : held'[w] \subseteq held[w]
          /\ issued' = issued /\ now' >= now /\ op' = Idle /\ overwritten' = overwritten
      BY <1>12 DEF ScaleDown, TypeOK
    <2>7. \A t \in TaskId \ TakenFrom(R) : SameClaim(t)
      BY <2>3 DEF SameClaim
    <2>8. OnlyLost(TakenFrom(R))
      BY <2>1, <2>2, <2>4, <2>5, <2>6, <2>7 DEF OnlyLost
    <2>. QED
      BY <2>8, ClaimsOnlyLost DEF TakenFrom
  <1>13. ASSUME NEW w \in Worker, NEW c \in held[w], NEW proof \in BOOLEAN,
                RefuseCompletion(w, c, proof)
         PROVE  ClaimInv'
    BY <1>13, ClaimsUntouched DEF RefuseCompletion, Transitioning, TypeOK
  <1>14. CASE AdvanceNextTaskId
    BY <1>14, ClaimsUntouched DEF AdvanceNextTaskId, TypeOK, Config
  <1>15. CASE AppendTaskEvent
    <2>1. op' # Idle => op'.kind = "transition"
      BY <1>15, OpFields DEF AppendTaskEvent, Running, TypeOK
    <2>. QED
      BY <1>15, <2>1, ClaimsUntouched DEF AppendTaskEvent, TypeOK
  <1>16. CASE ReadSnapshot
    BY <1>16, ClaimsUntouched DEF ReadSnapshot, Transitioning, TypeOK
  <1>17. CASE SaveSnapshot \/ LoadConfig \/ PhaseTurns \/ Crash
    BY <1>17, ClaimsUntouched DEF SaveSnapshot, LoadConfig, PhaseTurns, Crash, TypeOK
  <1>18. CASE Tick
    BY <1>18, ClaimsUntouched DEF Tick, TypeOK
  <1>19. CASE UNCHANGED vars
    BY <1>19, ClaimsUntouched DEF vars, TypeOK
  <1>20. ASSUME NEW W \in SUBSET Worker, SaveTeamConfigFails(W)
         PROVE  ClaimInv'
    BY <1>20, ClaimsUntouched DEF SaveTeamConfigFails, Grown, TypeOK
  <1>21. ASSUME NEW W \in SUBSET Worker, NEW gen \in 1..MaxGen, ScaleUp(W, gen)
         PROVE  ClaimInv'
    <2>1. /\ config.workers \subseteq config'.workers
          /\ config.used \subseteq config'.used
          /\ \A w \in config'.workers \ config.workers : w \notin config.used
      BY <1>21 DEF ScaleUp, NewMembers
    <2>2. ASSUME ~overwritten, NEW w \in config'.workers, held[w] # {}
          PROVE  w \in config.workers
      BY <2>1, <2>2 DEF ClaimInv, HeldSound, TypeOK, Config
    <2>3. OnlyLost({})
      BY <1>21, <2>1, <2>2 DEF ScaleUp, OnlyLost, SameClaim, ClaimInv, ClaimedByMember,
         ClaimConsistent, MemberHasClaim, TypeOK
    <2>. QED
      BY <2>3, ClaimsOnlyLost
  <1>. QED
    BY <1>1, <1>2, <1>3, <1>4, <1>5, <1>6, <1>7, <1>8, <1>9, <1>10, <1>11, <1>12,
       <1>13, <1>14, <1>15, <1>16, <1>17, <1>18, <1>19, <1>20, <1>21
       DEF Next, ClientNext, OpNext

------------------------------------------------------------------------------
(* The invariants as theorems *)

LEMMA InitIInv == Init => IInv
  <1>. SUFFICES ASSUME Init PROVE IInv
    OBVIOUS
  <1>1. TypeOK
    BY InitType
  <1>2. ViewInv
    BY DEF Init, ViewInv, ViewSound, GenerationFixesMembership
  <1>3. ClaimInv
    BY DEF Init, ClaimInv, ClaimedByMember, ClaimConsistent, MemberHasClaim, LeaseHolderOwnsTask, HeldSound, AssignSound
  <1>4. EventInv
    BY DEF Init, EventInv, EventsSound, ReportSound, Running
  <1>. QED
    BY <1>1, <1>2, <1>3, <1>4 DEF IInv

LEMMA StepIInv == IInv /\ [Next]_vars => IInv'
  BY StepType, StepView, StepClaim, StepEvent DEF IInv, ClaimInv

\* The strengthened invariant holds of every behaviour, for every number of
\* tasks, workers, leases and generations.
THEOREM Invariance == Spec => []IInv
  BY InitIInv, StepIInv, PTL DEF Spec

\* Every variable stays within its type (types of src/team/state.ts).
THEOREM TypeCorrect == Spec => []TypeOK
  <1>1. IInv => TypeOK
    BY DEF IInv
  <1>. QED
    BY <1>1, Invariance, PTL

\* No worker of the team loses a task inside its lease, so two workers never
\* work on one task with unexpired leases.
THEOREM LeaseExclusion == Spec => []LeaseHolderOwnsTask
  <1>1. IInv => LeaseHolderOwnsTask
    BY DEF IInv, ClaimInv
  <1>. QED
    BY <1>1, Invariance, PTL

\* A task in progress is claimed, by its owner, who is a member of the team.
THEOREM ClaimsConsistent == Spec => []ClaimedByMember
  <1>1. IInv => ClaimedByMember
    BY DEF IInv, ClaimInv
  <1>. QED
    BY <1>1, Invariance, PTL

\* A generation names one membership, for every object no save of which failed.
THEOREM GenerationsFaithful == Spec => []GenerationFixesMembership
  <1>1. IInv => GenerationFixesMembership
    BY DEF IInv, ViewInv
  <1>. QED
    BY <1>1, Invariance, PTL

\* A transition reports a task at most once and with its real outcome.
THEOREM EventsFaithful == Spec => []EventsSound
  <1>1. IInv => EventsSound
    BY DEF IInv, EventInv
  <1>. QED
    BY <1>1, Invariance, PTL

\* No behaviour takes a finished task back or changes its owner.
THEOREM FinishedForEver == Spec => TerminalIsFinal
  <1>1. IInv /\ [Next]_vars =>
          [\A t \in TaskId : tasks[t] # NoTask /\ tasks[t].status \in Terminal =>
              /\ tasks'[t] # NoTask
              /\ tasks'[t].status = tasks[t].status
              /\ tasks'[t].owner = tasks[t].owner]_vars
    BY StepFinal DEF IInv
  <1>. QED
    BY <1>1, Invariance, PTL DEF Spec, TerminalIsFinal

\* A removed worker does not come back and its name is not given again, whatever
\* configuration a leader saves and however late, until an object whose earlier
\* save had failed is saved.
THEOREM NamesUsedOnce == Spec => NamesNeverReturn
  <1>1. IInv /\ [Next]_vars =>
          [~overwritten' =>
              /\ config.used \subseteq config'.used
              /\ (config'.workers \ config.workers) \cap config.used = {}]_vars
    BY StepNames DEF IInv
  <1>. QED
    BY <1>1, Invariance, PTL DEF Spec, NamesNeverReturn

------------------------------------------------------------------------------
(* Versions *)

\* A step writes a task file only under the next version, or a new file.
LEMMA StepVersion ==
    ASSUME TypeOK, ClaimInv, [Next]_vars, NEW t \in TaskId,
           tasks[t] # NoTask, tasks'[t] # tasks[t]
    PROVE  tasks'[t] # NoTask /\ tasks'[t].version = tasks[t].version + 1
  <1>. DEFINE Goal == tasks'[t] # NoTask /\ tasks'[t].version = tasks[t].version + 1
  <1>. SUFFICES Goal
    OBVIOUS
  <1>1. tasks[t] \in Task /\ tasks \in [TaskId -> Task \cup {NoTask}]
    BY DEF TypeOK
  <1>2. \A owner \in Worker \cup {NoOwner}, claim \in Claim \cup {NoClaim}, status \in Status :
           /\ Moved(tasks[t], status, owner, claim) # NoTask
           /\ Moved(tasks[t], status, owner, claim).version = tasks[t].version + 1
    BY <1>1, MovedType, SentinelsAssumption DEF Moved
  <1>3. \A deps \in SUBSET TaskId, evidence \in BOOLEAN :
           /\ Edited(tasks[t], deps, evidence) # NoTask
           /\ Edited(tasks[t], deps, evidence).version = tasks[t].version + 1
    BY <1>1, EditedType, SentinelsAssumption DEF Edited
  <1>4. Requeued(tasks[t]) # NoTask /\ Requeued(tasks[t]).version = tasks[t].version + 1
    BY <1>2 DEF Requeued, Status
  <1>5. ASSUME NEW n \in TaskId, NEW s \in StatusChoices,
               NEW o \in OwnerChoices, NEW d \in DepChoices, NEW e \in BOOLEAN,
               CreateTask(n, s, o, d, e)
        PROVE  Goal
    <2>1. n # t
      BY <1>5 DEF CreateTask, IsNextTaskId, DiskIds, TaskId
    <2>. QED
      BY <1>1, <1>5, <2>1 DEF CreateTask
  <1>6. ASSUME NEW w \in Worker, NEW u \in TaskId, NEW v,
               ClaimAllowed(u, w, v), GrantClaim(u, w)
        PROVE  Goal
    <2>1. [owner |-> w, token |-> issued + 1, until |-> now + LeaseTerm] \in Claim
      <3>1. issued + 1 \in Token
        BY <1>6, GrantType
      <3>2. now + LeaseTerm \in Nat
        BY BoundsAssumption DEF TypeOK
      <3>. QED
        BY <3>1, <3>2 DEF Claim
    <2>. QED
      BY <1>1, <1>2, <1>6, <2>1 DEF GrantClaim, Status
  <1>7. ASSUME NEW w \in Worker, NEW c \in held[w], NEW to \in Terminal, NEW proof,
               TransitionTask(w, c, to, proof)
        PROVE  Goal
    BY <1>1, <1>2, <1>7 DEF TransitionTask, Status, Task
  <1>8. ASSUME NEW w \in Worker, NEW c \in held[w], ReleaseTaskClaim(w, c)
        PROVE  Goal
    BY <1>1, <1>4, <1>8 DEF ReleaseTaskClaim
  <1>9. ASSUME NEW u \in TaskId, ReclaimExpiredTaskClaim(u)
        PROVE  Goal
    BY <1>1, <1>4, <1>9 DEF ReclaimExpiredTaskClaim
  <1>10. ASSUME NEW u \in TaskId, NEW d \in DepChoices, UpdateTask(u, d)
         PROVE  Goal
    BY <1>1, <1>3, <1>10, ChoicesAssumption DEF UpdateTask, Task
  <1>11. ASSUME NEW rewrite \in BOOLEAN, NEW evidence \in BOOLEAN,
                AssignPrepare(rewrite, evidence)
         PROVE  Goal
    BY <1>1, <1>3, <1>11 DEF AssignPrepare, Task
  <1>12. CASE AssignFailed
    BY <1>1, <1>4, <1>12 DEF AssignFailed
  <1>13. ASSUME NEW R \in SUBSET Worker, NEW gone \in SUBSET R, ScaleDown(R, gone)
         PROVE  Goal
    BY <1>1, <1>13, TakenAwayType, SentinelsAssumption DEF ScaleDown, TakenFrom
  <1>. HIDE DEF Goal
  <1>14. CASE tasks' = tasks
    BY <1>14
  <1>. QED
    BY <1>5, <1>6, <1>7, <1>8, <1>9, <1>10, <1>11, <1>12, <1>13, <1>14
       DEF Next, ClientNext, OpNext, vars, ClaimTask, AssignTask, AdvanceNextTaskId,
       RefuseCompletion, AppendTaskEvent, ReadSnapshot, SaveSnapshot, AssignDelivered,
       LoadConfig, SaveTeamConfig, SaveOf, SaveTeamConfigFails, ScaleUp, PhaseTurns, Tick,
       Crash

\* Task files are never deleted or overwritten by another task, and a version
\* names one content of a file.
THEOREM NeverReplaced == Spec => TasksNeverReplaced
  <1>1. IInv /\ [Next]_vars =>
          [\A t \in TaskId : tasks[t] # NoTask /\ tasks'[t] # tasks[t] =>
              tasks'[t] # NoTask /\ tasks'[t].version = tasks[t].version + 1]_vars
    BY StepVersion DEF IInv
  <1>. QED
    BY <1>1, Invariance, PTL DEF Spec, TasksNeverReplaced

------------------------------------------------------------------------------
(* Refinement: the store implements TaskLifecycle. *)

\* Where a task is in its life, read off its file.
LEMMA LifeFacts ==
    ASSUME NEW task
    PROVE  /\ task = NoTask => LifeOf(task) = "absent" /\ GrantOf(task) = 0
           /\ task # NoTask /\ task.claim = NoClaim => GrantOf(task) = 0
           /\ task # NoTask /\ task.claim # NoClaim => GrantOf(task) = task.claim.token
           /\ task # NoTask /\ task.status \in Open => LifeOf(task) = "open"
           /\ task # NoTask /\ task.status = "in_progress" => LifeOf(task) = "held"
           /\ task # NoTask /\ task.status \in Terminal => LifeOf(task) = task.status
  BY DEF LifeOf, GrantOf, Terminal

LEMMA RefineInit == Init => Lifecycle!Init
  BY LifeFacts DEF Init, Lifecycle!Init

\* A step that keeps status and claim of every task is a stutter.
LEMMA RefineStutter ==
    ASSUME \A t \in TaskId : SameClaim(t), issued' = issued
    PROVE  UNCHANGED Lifecycle!vars
  <1>1. \A t \in TaskId : LifeOf(tasks'[t]) = LifeOf(tasks[t])
                        /\ GrantOf(tasks'[t]) = GrantOf(tasks[t])
    BY DEF SameClaim, LifeOf, GrantOf
  <1>. QED
    BY <1>1 DEF Lifecycle!vars

\* Requeueing the claimed tasks among S, and leaving the others without a
\* claim, takes tasks back.
LEMMA RefineTakeBack ==
    ASSUME TypeOK, ClaimInv, NEW S \in SUBSET TaskId,
           \A t \in S : tasks[t] # NoTask /\ tasks[t].status \notin Terminal,
           \A t \in S : tasks'[t] # NoTask /\ tasks'[t].status \in Open
                        /\ tasks'[t].claim = NoClaim,
           \A t \in TaskId \ S : tasks'[t] = tasks[t], issued' = issued
    PROVE  \E H \in SUBSET TaskId : Lifecycle!TakeBack(H)
  <1>. DEFINE H == {t \in S : tasks[t].status = "in_progress"}
  <1>1. \A t \in H : LifeOf(tasks[t]) = "held" /\ LifeOf(tasks'[t]) = "open"
                   /\ GrantOf(tasks'[t]) = 0
    BY LifeFacts
  <1>2. \A t \in TaskId \ H : LifeOf(tasks'[t]) = LifeOf(tasks[t])
                            /\ GrantOf(tasks'[t]) = GrantOf(tasks[t])
    <2>1. ASSUME NEW t \in S \ H
          PROVE  tasks[t].status \in Open /\ tasks[t].claim = NoClaim
      <3>1. tasks[t] \in Task /\ tasks[t].status # "in_progress"
        BY DEF TypeOK
      <3>2. tasks[t].status \in Open
        BY <3>1 DEF Task, Status
      <3>. QED
        BY <3>1, <3>2 DEF ClaimInv, ClaimedByMember, ClaimConsistent, MemberHasClaim
    <2>. QED
      BY <2>1, LifeFacts
  <1>3. H \in SUBSET TaskId
    OBVIOUS
  <1>. HIDE DEF H
  <1>4. Lifecycle!TakeBack(H)
    BY <1>1, <1>2, <1>3 DEF Lifecycle!TakeBack
  <1>. QED
    BY <1>3, <1>4

LEMMA RefineGrant ==
    ASSUME TypeOK, ClaimInv, NEW w \in Worker, NEW t \in TaskId, NEW expected,
           ClaimAllowed(t, w, expected), GrantClaim(t, w)
    PROVE  Lifecycle!Grant(t)
  <1>. DEFINE claim == [owner |-> w, token |-> issued + 1, until |-> now + LeaseTerm]
  <1>1. tasks[t] \in Task /\ claim \in Claim /\ issued < MaxTokens
    <2>1. issued + 1 \in Token /\ now + LeaseTerm \in Nat
      BY GrantType, BoundsAssumption DEF TypeOK
    <2>. QED
      BY <2>1 DEF TypeOK, ClaimAllowed, Claim
  <1>2. /\ tasks'[t] = Moved(tasks[t], "in_progress", w, claim)
        /\ \A u \in TaskId : u # t => tasks'[u] = tasks[u]
    BY <1>1 DEF GrantClaim, TypeOK
  <1>3. tasks'[t] # NoTask /\ tasks'[t].status = "in_progress"
        /\ tasks'[t].claim # NoClaim /\ tasks'[t].claim.token = issued + 1
    <2>1. tasks'[t] \in Task
      BY <1>1, <1>2, MovedType DEF Status
    <2>. QED
      BY <1>1, <1>2, <2>1, SentinelsAssumption DEF Moved
  <1>4. LifeOf(tasks'[t]) = "held" /\ GrantOf(tasks'[t]) = issued + 1
    BY <1>3, LifeFacts
  <1>5. LifeOf(tasks[t]) \in {"open", "held"}
    BY <1>1, LifeFacts DEF ClaimAllowed
  <1>6. issued' = issued + 1
    BY DEF GrantClaim
  <1>. QED
    BY <1>1, <1>2, <1>4, <1>5, <1>6 DEF Lifecycle!Grant

LEMMA RefineFinish ==
    ASSUME TypeOK, NEW w \in Worker, NEW c \in held[w], NEW to \in Terminal,
           NEW proof, TransitionTask(w, c, to, proof)
    PROVE  c.task \in TaskId /\ Lifecycle!Finish(c.task, to)
  <1>1. c.task \in TaskId /\ tasks[c.task] \in Task /\ tasks[c.task].status = "in_progress"
    BY DEF TransitionTask, TransitionAllowed, TypeOK, Held
  <1>2. /\ tasks'[c.task] = Moved(tasks[c.task], to, tasks[c.task].owner, NoClaim)
        /\ \A u \in TaskId : u # c.task => tasks'[u] = tasks[u]
    BY <1>1 DEF TransitionTask, TypeOK
  <1>3. tasks'[c.task] # NoTask /\ tasks'[c.task].status = to
        /\ tasks'[c.task].claim = NoClaim
    <2>1. to \in Status /\ tasks[c.task].owner \in Worker \cup {NoOwner}
      BY <1>1 DEF Task, Status
    <2>2. tasks'[c.task] \in Task
      BY <1>1, <1>2, <2>1, MovedType
    <2>. QED
      BY <1>2, <2>2, SentinelsAssumption DEF Moved
  <1>4. /\ LifeOf(tasks'[c.task]) = to /\ GrantOf(tasks'[c.task]) = 0
        /\ LifeOf(tasks[c.task]) = "held"
    BY <1>1, <1>3, SentinelsAssumption, LifeFacts
  <1>5. issued' = issued
    BY DEF TransitionTask
  <1>. QED
    BY <1>1, <1>2, <1>4, <1>5 DEF Lifecycle!Finish

LEMMA RefineAdd ==
    ASSUME TypeOK, NEW n \in TaskId, NEW s \in StatusChoices, NEW o \in OwnerChoices,
           NEW d \in DepChoices, NEW e \in BOOLEAN, CreateTask(n, s, o, d, e)
    PROVE  Lifecycle!Add(n)
  <1>1. tasks[n] = NoTask
    BY DEF CreateTask, IsNextTaskId, DiskIds, TaskId
  <1>2. /\ tasks'[n] # NoTask /\ tasks'[n].status \in Open /\ tasks'[n].claim = NoClaim
        /\ \A u \in TaskId : u # n => tasks'[u] = tasks[u]
    <2>1. [status |-> s, owner |-> o, claim |-> NoClaim, version |-> 1,
           deps |-> d, evidence |-> e] \in Task
      BY ChoicesAssumption DEF Task, Status
    <2>2. s \in Open
      BY ChoicesAssumption
    <2>. QED
      BY <2>1, <2>2, SentinelsAssumption DEF CreateTask, TypeOK
  <1>3. /\ LifeOf(tasks[n]) = "absent" /\ GrantOf(tasks[n]) = 0
        /\ LifeOf(tasks'[n]) = "open" /\ GrantOf(tasks'[n]) = 0
    BY <1>1, <1>2, LifeFacts
  <1>4. issued' = issued
    BY DEF CreateTask
  <1>. QED
    BY <1>2, <1>3, <1>4 DEF Lifecycle!Add

\* One task handed back.
LEMMA RefineRequeue ==
    ASSUME TypeOK, ClaimInv, NEW t \in TaskId, tasks[t] # NoTask,
           tasks[t].status \notin Terminal, tasks' = [tasks EXCEPT ![t] = Requeued(@)],
           issued' = issued
    PROVE  \E H \in SUBSET TaskId : Lifecycle!TakeBack(H)
  <1>1. tasks[t] \in Task
    BY DEF TypeOK
  <1>2. /\ tasks'[t] # NoTask /\ tasks'[t].status = "pending" /\ tasks'[t].claim = NoClaim
        /\ \A u \in TaskId \ {t} : tasks'[u] = tasks[u]
    BY <1>1, RequeuedType, SentinelsAssumption DEF TypeOK
  <1>3. PICK S \in SUBSET TaskId : S = {t}
    OBVIOUS
  <1>4. /\ \A u \in S : tasks[u] # NoTask /\ tasks[u].status \notin Terminal
        /\ \A u \in S : tasks'[u] # NoTask /\ tasks'[u].status = "pending"
                        /\ tasks'[u].claim = NoClaim
        /\ \A u \in TaskId \ S : tasks'[u] = tasks[u]
    BY <1>2, <1>3
  <1>. QED
    BY <1>4, RefineTakeBack

LEMMA RefineStep ==
    ASSUME TypeOK, ClaimInv, [Next]_vars
    PROVE  [Lifecycle!Next]_(Lifecycle!vars)
  <1>1. ASSUME NEW n \in TaskId, NEW s \in StatusChoices,
               NEW o \in OwnerChoices, NEW d \in DepChoices, NEW e \in BOOLEAN,
               CreateTask(n, s, o, d, e)
        PROVE  Lifecycle!Next
    BY <1>1, RefineAdd DEF Lifecycle!Next
  <1>2. ASSUME NEW w \in Worker, NEW t \in TaskId, NEW expected,
               ClaimAllowed(t, w, expected), GrantClaim(t, w)
        PROVE  Lifecycle!Next
    BY <1>2, RefineGrant DEF Lifecycle!Next
  <1>3. ASSUME NEW w \in Worker, NEW c \in held[w], NEW to \in Terminal,
               NEW proof \in BOOLEAN, TransitionTask(w, c, to, proof)
        PROVE  Lifecycle!Next
    BY <1>3, RefineFinish DEF Lifecycle!Next, Lifecycle!Outcome, Terminal
  <1>4. ASSUME NEW w \in Worker, NEW c \in held[w], ReleaseTaskClaim(w, c)
        PROVE  [Lifecycle!Next]_(Lifecycle!vars)
    <2>1. c.task \in TaskId
      BY DEF TypeOK, Held
    <2>2. CASE UNCHANGED tasks
      BY <1>4, <2>2, RefineStutter DEF ReleaseTaskClaim, SameClaim
    <2>3. CASE tasks[c.task].status \notin Terminal
               /\ tasks' = [tasks EXCEPT ![c.task] = Requeued(@)]
      BY <1>4, <2>1, <2>3, RefineRequeue DEF ReleaseTaskClaim, Lifecycle!Next
    <2>. QED
      BY <1>4, <2>2, <2>3 DEF ReleaseTaskClaim
  <1>5. ASSUME NEW t \in TaskId, ReclaimExpiredTaskClaim(t)
        PROVE  Lifecycle!Next
    BY <1>5, RefineRequeue DEF ReclaimExpiredTaskClaim, Lifecycle!Next, Terminal
  <1>6. ASSUME NEW t \in TaskId, NEW d \in DepChoices, UpdateTask(t, d)
        PROVE  UNCHANGED Lifecycle!vars
    <2>1. Edited(tasks[t], d, tasks[t].evidence) \in Task
      BY <1>6, UpdateType
    <2>2. \A u \in TaskId : SameClaim(u)
      BY <1>6, <2>1, SentinelsAssumption DEF UpdateTask, SameClaim, Edited, TypeOK
    <2>. QED
      BY <1>6, <2>2, RefineStutter DEF UpdateTask
  <1>7. ASSUME NEW rewrite \in BOOLEAN, NEW evidence \in BOOLEAN,
               AssignPrepare(rewrite, evidence)
        PROVE  UNCHANGED Lifecycle!vars
    <2>1. op.claim.task \in TaskId /\ tasks[op.claim.task] \in Task
      BY <1>7, OpFields DEF AssignPrepare, Running, ClaimInv, AssignSound, LiveClaim, Held,
         TypeOK
    <2>2. Edited(tasks[op.claim.task], tasks[op.claim.task].deps, evidence) \in Task
      BY <2>1, EditedType DEF Task
    <2>3. \A u \in TaskId : SameClaim(u)
      BY <1>7, <2>1, <2>2, SentinelsAssumption DEF AssignPrepare, SameClaim, Edited, TypeOK
    <2>. QED
      BY <1>7, <2>3, RefineStutter DEF AssignPrepare
  <1>8. CASE AssignFailed
    <2>1. /\ op.claim.task \in TaskId /\ tasks[op.claim.task] # NoTask
          /\ tasks[op.claim.task].status \notin Terminal
      BY <1>8, OpFields DEF AssignFailed, ClaimInv, AssignSound, LiveClaim, Held, TypeOK,
         Terminal
    <2>. QED
      BY <1>8, <2>1, RefineRequeue, RefineStutter
         DEF AssignFailed, Lifecycle!Next, SameClaim
  <1>9. ASSUME NEW R \in SUBSET Worker, NEW gone \in SUBSET R, ScaleDown(R, gone)
        PROVE  Lifecycle!Next
    <2>1. \A t \in TakenFrom(R) :
             /\ tasks'[t] # NoTask /\ tasks'[t].status \in Open
             /\ tasks'[t].claim = NoClaim
      <3>1. ASSUME NEW t \in TakenFrom(R)
            PROVE  /\ tasks[t] \in Task /\ tasks[t].status \notin Terminal
                   /\ tasks'[t] = TakenAway(tasks[t])
        BY <1>9 DEF ScaleDown, TakenFrom, TypeOK
      <3>. QED
        BY <3>1, TakenAwayType, SentinelsAssumption
    <2>2. /\ \A t \in TaskId \ TakenFrom(R) : tasks'[t] = tasks[t]
          /\ issued' = issued
      BY <1>9 DEF ScaleDown
    <2>3. /\ TakenFrom(R) \in SUBSET TaskId
          /\ \A t \in TakenFrom(R) : tasks[t] # NoTask /\ tasks[t].status \notin Terminal
      BY DEF TakenFrom
    <2>. QED
      BY <2>1, <2>2, <2>3, RefineTakeBack DEF Lifecycle!Next
  <1>10. ASSUME UNCHANGED <<tasks, issued>>
         PROVE  UNCHANGED Lifecycle!vars
    BY <1>10, RefineStutter DEF SameClaim
  <1>. QED
    BY <1>1, <1>2, <1>3, <1>4, <1>5, <1>6, <1>7, <1>8, <1>9, <1>10
       DEF Next, ClientNext, OpNext, vars, ClaimTask, AssignTask, AdvanceNextTaskId,
       RefuseCompletion, AppendTaskEvent, ReadSnapshot, SaveSnapshot, AssignDelivered,
       LoadConfig, SaveTeamConfig, SaveOf, SaveTeamConfigFails, ScaleUp, PhaseTurns, Tick,
       Crash

\* Every behaviour of the store, crashes included, is a behaviour of the life
\* cycle: no grant is reused, nothing finished is handed out or finished again.
THEOREM Refinement == Spec => ImplementsLifecycle
  <1>1. Init => Lifecycle!Init
    BY RefineInit
  <1>2. IInv /\ [Next]_vars => [Lifecycle!Next]_(Lifecycle!vars)
    BY RefineStep DEF IInv
  <1>. QED
    BY <1>1, <1>2, Invariance, PTL DEF Spec, ImplementsLifecycle, Lifecycle!Spec

==============================================================================
