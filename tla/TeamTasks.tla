------------------------------ MODULE TeamTasks ------------------------------
(* The task store of a team: task files, the team configuration that        *)
(* allocates task ids and lists the workers, the task events and the        *)
(* "already reported" set of the monitor snapshot.                          *)
(* Source: src/src/team/state/tasks.ts and src/src/team/state.ts, with the  *)
(* callers that change tasks in src/src/team/runtime.ts (assignTask) and    *)
(* src/src/team/scaling.ts (scaleUp, scaleDown).                            *)
(*                                                                          *)
(* Every operation runs inside the team membership barrier (one directory   *)
(* lock per team), so at most one is in progress: `op'.  An operation that  *)
(* awaits between two writes is a sequence of steps, and the process that   *)
(* runs it may die between any two of them (Crash).                         *)
EXTENDS Naturals, FiniteSets

CONSTANTS
    Worker,        \* worker names
    MaxTasks,      \* bound: task ids are 1..MaxTasks
    LeaseTerm,     \* length of a claim lease (15 minutes in the code)
    MaxNow,        \* bound: the clock stops here
    MaxTokens,     \* bound: claims granted in a behaviour
    MaxVersion,    \* bound: plain edits stop at this version
    MaxGen,        \* bound: configuration generations
    StatusChoices, \* statuses a caller may give to a new task
    OwnerChoices,  \* owners a caller may preassign to a new task
    DepChoices,    \* dependency lists a caller may give to a task
    NoTask, NoOwner, NoClaim, NoView, NoSnapshot, Idle, AnyVersion

TaskId == 1..MaxTasks
Token  == 1..MaxTokens

ASSUME BoundsAssumption ==
    /\ MaxTasks \in Nat /\ LeaseTerm \in Nat \ {0} /\ MaxNow \in Nat
    /\ MaxTokens \in Nat /\ MaxVersion \in Nat /\ MaxGen \in Nat
\* createTask takes any open status; the callers in the repository pass pending.
Open == {"pending", "blocked"}      \* claims tell neither from the other

ASSUME ChoicesAssumption ==
    /\ NoOwner \notin Worker
    /\ StatusChoices \subseteq Open
    /\ OwnerChoices \subseteq Worker \cup {NoOwner}
    /\ DepChoices \subseteq SUBSET TaskId

VARIABLES
    tasks,     \* TaskId -> task file, or NoTask
    config,    \* config.json: generation, next_task_id, workers
    cfgView,   \* the configuration object a leader process loaded earlier
    ahead,     \* a save of that object failed after it had raised its generation
    overwritten,  \* history: an object that was ahead has been saved
    closed,    \* the team phase is terminal, or a terminal epoch has begun
    now,       \* wall clock
    issued,    \* claim tokens drawn so far (randomUUID never repeats)
    held,      \* Worker -> claims the worker was told it holds
    op,        \* the operation inside the membership barrier, or Idle
    events,    \* TaskId -> number of task_completed / task_failed events
    snapshot   \* monitor-snapshot.json, or NoSnapshot

vars == <<tasks, config, cfgView, ahead, overwritten, closed, now, issued, held, op,
          events, snapshot>>
saves == <<cfgView, ahead, overwritten>>

------------------------------------------------------------------------------
(* Data *)

Terminal == {"completed", "failed"}
Status   == Open \cup {"in_progress"} \cup Terminal

Claim == [owner: Worker, token: Token, until: Nat]
Held  == [task: TaskId, token: Token, until: Nat]

Task == [status: Status, owner: Worker \cup {NoOwner},
         claim: Claim \cup {NoClaim}, version: Nat \ {0},
         deps: SUBSET TaskId, evidence: BOOLEAN]

\* `used': names that were given to workers, those below next_worker_index.
Config == [gen: Nat, nextTaskId: Nat \ {0}, workers: SUBSET Worker, used: SUBSET Worker]

Snapshot == [status: [TaskId -> Status \cup {"none"}], marked: SUBSET TaskId]

Op == [kind: {"create"}, task: TaskId]
      \cup [kind: {"transition"}, stage: {"event", "read", "save"}, task: TaskId,
            to: Terminal, seen: Snapshot \cup {NoSnapshot}]
      \cup [kind: {"assign"}, stage: {"prepare", "dispatch"},
            worker: Worker, claim: Held]

ASSUME SentinelsAssumption ==
    /\ NoTask \notin Task /\ NoClaim \notin Claim /\ Idle \notin Op
    /\ NoView \notin Config /\ NoSnapshot \notin Snapshot

Running(kind, stage) == op # Idle /\ op.kind = kind /\ op.stage = stage

\* Bug form: a lease counts as over one tick early.
ExpiredEarly(c) == c.until <= now + 1
\* isClaimLeaseExpired, and the inline `leased_until <= now' tests.
Expired(c) == c.until <= now

\* computeTaskReadiness: every dependency exists and is completed.
Ready(t) == \A d \in tasks[t].deps :
                tasks[d] # NoTask /\ tasks[d].status = "completed"

DiskIds == {t \in TaskId : tasks[t] # NoTask}

\* Bug form: trusts the configured counter and does not look at the disk.
IsNextTaskIdFromConfig(n) == n = config.nextTaskId
\* max(config.next_task_id, 1 + the largest task id on disk).
IsNextTaskId(n) ==
    /\ n >= config.nextTaskId /\ \A t \in DiskIds : n > t
    /\ n = config.nextTaskId \/ (n - 1) \in DiskIds

\* The owner, token and lease test shared by transition and release.
HoldsClaim(t, token) ==
    /\ tasks[t].owner # NoOwner /\ tasks[t].claim # NoClaim
    /\ tasks[t].claim.owner = tasks[t].owner
    /\ tasks[t].claim.token = token
    /\ ~Expired(tasks[t].claim)

\* The next version of a task file: new lifecycle fields, or new contents.
Moved(task, status, owner, claim) ==
    [status |-> status, owner |-> owner, claim |-> claim,
     version |-> task.version + 1, deps |-> task.deps, evidence |-> task.evidence]
Edited(task, deps, evidence) ==
    [status |-> task.status, owner |-> task.owner, claim |-> task.claim,
     version |-> task.version + 1, deps |-> deps, evidence |-> evidence]

\* What release and reclaim write back.
Requeued(task) == Moved(task, "pending", NoOwner, NoClaim)
\* What scale-down writes back: a blocked task stays blocked.
TakenAway(task) ==
    Moved(task, IF task.status = "in_progress" THEN "pending" ELSE task.status,
          NoOwner, NoClaim)

------------------------------------------------------------------------------
(* initTeamState: a fresh team with its first workers and no tasks. *)
Init ==
    /\ tasks = [t \in TaskId |-> NoTask]
    /\ config \in {[gen |-> 0, nextTaskId |-> 1, workers |-> W, used |-> W] :
                      W \in (SUBSET Worker) \ {{}}}
    /\ cfgView = NoView /\ ahead = FALSE /\ overwritten = FALSE
    /\ closed = FALSE
    /\ now = 0 /\ issued = 0
    /\ held = [w \in Worker |-> {}]
    /\ op = Idle
    /\ events = [t \in TaskId |-> [completed |-> 0, failed |-> 0]]
    /\ snapshot = NoSnapshot

------------------------------------------------------------------------------
(* createTask: the task file first, then config.next_task_id. *)

CreateTask(n, status, owner, deps, evidence) ==
    /\ op = Idle /\ ~closed
    /\ IsNextTaskId(n)
    /\ tasks' = [tasks EXCEPT ![n] =
                    [status |-> status, owner |-> owner, claim |-> NoClaim,
                     version |-> 1, deps |-> deps, evidence |-> evidence]]
    /\ op' = [kind |-> "create", task |-> n]
    /\ UNCHANGED <<config, saves, closed, now, issued, held, events, snapshot>>

AdvanceNextTaskId ==
    /\ op # Idle /\ op.kind = "create"
    /\ config' = [config EXCEPT !.nextTaskId = op.task + 1]
    /\ op' = Idle
    /\ UNCHANGED <<tasks, saves, closed, now, issued, held, events, snapshot>>

------------------------------------------------------------------------------
(* claimTask *)

\* Bug form: the terminal test is missing, a finished task is claimed again.
ClaimAllowedAgain(t, w, expected) ==
    /\ tasks[t] # NoTask /\ Ready(t) /\ w \in config.workers
    /\ tasks[t].claim # NoClaim => Expired(tasks[t].claim)
    /\ issued < MaxTokens /\ now + LeaseTerm <= MaxNow

ClaimAllowed(t, w, expected) ==
    /\ tasks[t] # NoTask
    /\ expected \in {AnyVersion, tasks[t].version}
    /\ Ready(t)
    /\ w \in config.workers
    /\ \/ /\ tasks[t].status = "in_progress"
          /\ tasks[t].claim # NoClaim /\ Expired(tasks[t].claim)
       \/ /\ tasks[t].status \in Open
          /\ tasks[t].claim # NoClaim => Expired(tasks[t].claim)
          /\ tasks[t].owner \in {NoOwner, w}
    /\ issued < MaxTokens /\ now + LeaseTerm <= MaxNow  \* bounds

GrantClaim(t, w) ==
    /\ tasks' = [tasks EXCEPT ![t] = Moved(@, "in_progress", w,
          [owner |-> w, token |-> issued + 1, until |-> now + LeaseTerm])]
    /\ issued' = issued + 1

NewHeld(t) == [task |-> t, token |-> issued + 1, until |-> now + LeaseTerm]

\* `told' is FALSE when the caller dies before it reads the answer.
ClaimTask(w, t, expected, told) ==
    /\ op = Idle
    /\ ClaimAllowed(t, w, expected)
    /\ GrantClaim(t, w)
    /\ held' = IF told THEN [held EXCEPT ![w] = @ \cup {NewHeld(t)}] ELSE held
    /\ UNCHANGED <<config, saves, closed, now, op, events, snapshot>>

------------------------------------------------------------------------------
(* transitionTaskStatus: only in_progress -> completed | failed is allowed. *)

TransitionAllowed(c, to, proof) ==
    /\ tasks[c.task] # NoTask
    /\ tasks[c.task].status = "in_progress"
    /\ HoldsClaim(c.task, c.token)
    /\ to = "completed" /\ tasks[c.task].evidence => proof

Transitioning(t, to, stage, seen) ==
    [kind |-> "transition", stage |-> stage, task |-> t, to |-> to, seen |-> seen]

\* `proof': the result carries the compliance evidence the task asks for.
TransitionTask(w, c, to, proof) ==
    /\ op = Idle /\ c \in held[w]
    /\ TransitionAllowed(c, to, proof)
    /\ tasks' = [tasks EXCEPT ![c.task] = Moved(@, to, @.owner, NoClaim)]
    /\ held' = [held EXCEPT ![w] = @ \ {c}]
    /\ op' = Transitioning(c.task, to, "event", NoSnapshot)
    /\ UNCHANGED <<config, saves, closed, now, issued, events, snapshot>>

\* A refused completion leaves the claim lock with an error value and still
\* falls through to the snapshot update; a refused failure just returns.
RefuseCompletion(w, c, proof) ==
    /\ op = Idle /\ c \in held[w]
    /\ ~TransitionAllowed(c, "completed", proof)
    /\ op' = Transitioning(c.task, "completed", "read", NoSnapshot)
    /\ UNCHANGED <<tasks, config, saves, closed, now, issued, held, events, snapshot>>

\* Bug form: the append is retried although it already succeeded.
AppendTaskEventAgain ==
    /\ Running("transition", "event")
    /\ events' = [events EXCEPT ![op.task][op.to] = @ + 1]
    /\ op' = op
    /\ UNCHANGED <<tasks, config, saves, closed, now, issued, held, snapshot>>

AppendTaskEvent ==
    /\ Running("transition", "event")
    /\ events' = [events EXCEPT ![op.task][op.to] = @ + 1]
    /\ op' = IF op.to = "completed" THEN [op EXCEPT !.stage = "read"] ELSE Idle
    /\ UNCHANGED <<tasks, config, saves, closed, now, issued, held, snapshot>>

ReadSnapshot ==
    /\ Running("transition", "read")
    /\ op' = Transitioning(op.task, op.to, "save", snapshot)
    /\ UNCHANGED <<tasks, config, saves, closed, now, issued, held, events, snapshot>>

\* Bug form: unseen tasks get a placeholder status instead of no entry.
EmptySnapshotPlaceholder == [status |-> [t \in TaskId |-> "unknown"], marked |-> {}]
EmptySnapshot == [status |-> [t \in TaskId |-> "none"], marked |-> {}]

SaveSnapshot ==
    /\ Running("transition", "save")
    /\ LET base == IF op.seen = NoSnapshot THEN EmptySnapshot ELSE op.seen
       IN  snapshot' = [base EXCEPT !.marked = @ \cup {op.task}]
    /\ op' = Idle
    /\ UNCHANGED <<tasks, config, saves, closed, now, issued, held, events>>

------------------------------------------------------------------------------
(* releaseTaskClaim, reclaimExpiredTaskClaim, updateTask *)

ReleaseTaskClaim(w, c) ==
    /\ op = Idle /\ c \in held[w]
    /\ tasks[c.task] # NoTask
    /\ \/ /\ tasks[c.task].status = "pending"   \* already released: ok, no write
          /\ tasks[c.task].claim = NoClaim /\ tasks[c.task].owner = NoOwner
          /\ UNCHANGED tasks
       \/ /\ tasks[c.task].status \notin Terminal
          /\ HoldsClaim(c.task, c.token)
          /\ tasks' = [tasks EXCEPT ![c.task] = Requeued(@)]
    /\ held' = [held EXCEPT ![w] = @ \ {c}]
    /\ UNCHANGED <<config, saves, closed, now, issued, op, events, snapshot>>

\* Bug form: nothing is reclaimed while the team phase is terminal.
ReclaimWhileOpen(t) ==
    /\ op = Idle /\ ~closed
    /\ tasks[t] # NoTask
    /\ tasks[t].status = "in_progress"
    /\ tasks[t].claim # NoClaim /\ Expired(tasks[t].claim)
    /\ tasks' = [tasks EXCEPT ![t] = Requeued(@)]
    /\ UNCHANGED <<config, saves, closed, now, issued, held, op, events, snapshot>>

ReclaimExpiredTaskClaim(t) ==
    /\ op = Idle
    /\ tasks[t] # NoTask
    /\ tasks[t].status = "in_progress"
    /\ tasks[t].claim # NoClaim /\ Expired(tasks[t].claim)
    /\ tasks' = [tasks EXCEPT ![t] = Requeued(@)]
    /\ UNCHANGED <<config, saves, closed, now, issued, held, op, events, snapshot>>

\* The public update-task operation may not touch lifecycle fields; it merges
\* dependencies (or nothing the model tells apart) whatever the task's status.
UpdateTask(t, deps) ==
    /\ op = Idle
    /\ tasks[t] # NoTask
    /\ tasks[t].version < MaxVersion
    /\ tasks' = [tasks EXCEPT ![t] = Edited(@, deps, @.evidence)]
    /\ UNCHANGED <<config, saves, closed, now, issued, held, op, events, snapshot>>

------------------------------------------------------------------------------
(* assignTask: claim for the worker, complete the delegation plan, dispatch; *)
(* any failure after the claim releases it again.  All in one barrier.       *)

AssignTask(w, t) ==
    /\ op = Idle /\ ~closed
    /\ tasks[t] # NoTask /\ ClaimAllowed(t, w, tasks[t].version)
    /\ GrantClaim(t, w)
    /\ op' = [kind |-> "assign", stage |-> "prepare", worker |-> w, claim |-> NewHeld(t)]
    /\ UNCHANGED <<config, saves, closed, now, held, events, snapshot>>

AssignPrepare(rewrite, evidence) ==
    /\ Running("assign", "prepare")
    /\ IF rewrite
       THEN tasks' = [tasks EXCEPT ![op.claim.task] = Edited(@, @.deps, evidence)]
       ELSE UNCHANGED tasks
    /\ op' = [op EXCEPT !.stage = "dispatch"]
    /\ UNCHANGED <<config, saves, closed, now, issued, held, events, snapshot>>

AssignDelivered ==
    /\ Running("assign", "dispatch")
    /\ held' = [held EXCEPT ![op.worker] = @ \cup {op.claim}]
    /\ op' = Idle
    /\ UNCHANGED <<tasks, config, saves, closed, now, issued, events, snapshot>>

AssignFailed ==
    /\ op # Idle /\ op.kind = "assign"
    /\ IF HoldsClaim(op.claim.task, op.claim.token)
       THEN tasks' = [tasks EXCEPT ![op.claim.task] = Requeued(@)]
       ELSE UNCHANGED tasks
    /\ op' = Idle
    /\ UNCHANGED <<config, saves, closed, now, issued, held, events, snapshot>>

------------------------------------------------------------------------------
(* Configuration: a leader loads it, changes its copy outside the barrier,   *)
(* and saves it under a generation test; scaleDown commits a membership and  *)
(* task transaction (see MembershipTransaction).                             *)

LoadConfig ==
    /\ op = Idle
    /\ cfgView' = config /\ ahead' = FALSE
    /\ UNCHANGED <<tasks, config, overwritten, closed, now, issued, held, op, events, snapshot>>

NewMembers(cfg, gen, W) ==
    [gen |-> gen, nextTaskId |-> cfg.nextTaskId, workers |-> W, used |-> cfg.used \cup W]

\* A leader only adds workers to its copy, under names new to it.
Grown(W) ==
    /\ op = Idle /\ cfgView # NoView
    /\ cfgView.workers \subseteq W
    /\ (W \ cfgView.workers) \cap cfgView.used = {}
    /\ config.gen < MaxGen  \* bound

SaveOf(W, gen) ==
    /\ config' = NewMembers(cfgView, gen, W)
    /\ cfgView' = config' /\ ahead' = FALSE
    /\ overwritten' = (overwritten \/ ahead)
    /\ UNCHANGED <<tasks, closed, now, issued, held, op, events, snapshot>>

\* Bug form: any configuration object may be saved, however old.
SaveTeamConfigAnyGeneration(W) == Grown(W) /\ SaveOf(W, config.gen + 1)
\* Only the generation test tells that the object is not older than the file.
SaveTeamConfig(W) ==
    /\ Grown(W) /\ cfgView.gen = config.gen
    /\ SaveOf(W, cfgView.gen + 1)

\* The object's generation is raised before the files are written; when the
\* write fails the files are rolled back and the object is not.
SaveTeamConfigFails(W) ==
    /\ Grown(W) /\ cfgView.gen = config.gen
    /\ cfgView' = NewMembers(cfgView, cfgView.gen + 1, W) /\ ahead' = TRUE
    /\ UNCHANGED <<tasks, config, overwritten, closed, now, issued, held, op,
                   events, snapshot>>

\* scaleUp keeps the barrier through several saves.  Rolled back (no new
\* worker) it restores next_worker_index too, so the names stay free.
ScaleUp(W, gen) ==
    /\ op = Idle
    /\ config.workers \subseteq W /\ (W \ config.workers) \cap config.used = {}
    /\ config.gen < gen
    /\ config' = NewMembers(config, gen, W)
    /\ UNCHANGED <<tasks, saves, closed, now, issued, held, op, events, snapshot>>

\* Bug form: work that is already in progress is left where it is.
TakenFromIfPending(R) == {t \in TaskId :
    tasks[t] # NoTask /\ tasks[t].status \in Open /\ tasks[t].owner \in R}
\* Tasks that scale-down takes away from the removed workers.
TakenFrom(R) == {t \in TaskId :
    /\ tasks[t] # NoTask /\ tasks[t].status \notin Terminal
    /\ \/ tasks[t].owner \in R
       \/ tasks[t].claim # NoClaim /\ tasks[t].claim.owner \in R}

\* Bug form: the committed membership keeps its old generation.
ScaleDownSameGeneration(R, gone) ==
    /\ op = Idle
    /\ R # {} /\ R \subseteq config.workers /\ config.workers \ R # {} /\ gone \subseteq R
    /\ config' = NewMembers(config, config.gen, config.workers \ R)
    /\ tasks' = [t \in TaskId |->
                    IF t \in TakenFrom(R) THEN TakenAway(tasks[t]) ELSE tasks[t]]
    /\ held' = [w \in Worker |-> IF w \in gone THEN {} ELSE held[w]]
    /\ UNCHANGED <<saves, closed, now, issued, op, events, snapshot>>

\* `gone': the removed workers whose panes could be torn down; the others keep
\* running with what they were told, as recorded cleanup debt.
ScaleDown(R, gone) ==
    /\ op = Idle
    /\ R # {} /\ R \subseteq config.workers /\ config.workers \ R # {} /\ gone \subseteq R
    /\ config.gen < MaxGen
    /\ config' = NewMembers(config, config.gen + 1, config.workers \ R)
    /\ tasks' = [t \in TaskId |->
                    IF t \in TakenFrom(R) THEN TakenAway(tasks[t]) ELSE tasks[t]]
    /\ held' = [w \in Worker |-> IF w \in gone THEN {} ELSE held[w]]
    /\ UNCHANGED <<saves, closed, now, issued, op, events, snapshot>>

------------------------------------------------------------------------------
(* Environment *)

\* Another process moves the team into or out of a terminal phase (TeamPhase).
PhaseTurns ==
    /\ closed' = ~closed
    /\ UNCHANGED <<tasks, config, saves, now, issued, held, op, events, snapshot>>

Tick ==
    /\ now < MaxNow
    /\ now' = now + 1
    /\ UNCHANGED <<tasks, config, saves, closed, issued, held, op, events, snapshot>>

\* The process inside the barrier dies; its lock goes stale and is taken over.
Crash ==
    /\ op # Idle
    /\ op' = Idle
    /\ UNCHANGED <<tasks, config, saves, closed, now, issued, held, events, snapshot>>

------------------------------------------------------------------------------
ClientNext ==
    \/ \E n \in TaskId, s \in StatusChoices, o \in OwnerChoices, d \in DepChoices, e \in BOOLEAN :
          CreateTask(n, s, o, d, e)
    \/ \E w \in Worker, t \in TaskId, told \in BOOLEAN,
          v \in {AnyVersion} \cup (1..MaxVersion) : ClaimTask(w, t, v, told)
    \/ \E w \in Worker : \E c \in held[w], proof \in BOOLEAN :
          \/ \E to \in Terminal : TransitionTask(w, c, to, proof)
          \/ RefuseCompletion(w, c, proof)
          \/ ReleaseTaskClaim(w, c)
    \/ \E t \in TaskId, d \in DepChoices : UpdateTask(t, d)
    \/ \E w \in Worker, t \in TaskId : AssignTask(w, t)
    \/ LoadConfig
    \/ \E W \in SUBSET Worker :
          \/ SaveTeamConfig(W) \/ SaveTeamConfigFails(W)
          \/ \E gen \in 1..MaxGen : ScaleUp(W, gen)
          \/ \E gone \in SUBSET W : ScaleDown(W, gone)

OpNext ==
    \/ AdvanceNextTaskId
    \/ AppendTaskEvent \/ ReadSnapshot \/ SaveSnapshot
    \/ \E rewrite, evidence \in BOOLEAN : AssignPrepare(rewrite, evidence)
    \/ AssignDelivered \/ AssignFailed

Next ==
    \/ ClientNext
    \/ OpNext
    \/ \E t \in TaskId : ReclaimExpiredTaskClaim(t)
    \/ PhaseTurns \/ Tick \/ Crash

Spec == Init /\ [][Next]_vars

------------------------------------------------------------------------------
(* Type invariant *)
TypeOK ==
    /\ tasks \in [TaskId -> Task \cup {NoTask}]
    /\ config \in Config
    /\ cfgView \in Config \cup {NoView}
    /\ ahead \in BOOLEAN /\ overwritten \in BOOLEAN
    /\ closed \in BOOLEAN
    /\ now \in Nat /\ issued \in 0..MaxTokens
    /\ held \in [Worker -> SUBSET Held]
    /\ op \in Op \cup {Idle}
    /\ events \in [TaskId -> [completed: Nat, failed: Nat]]
    /\ snapshot \in Snapshot \cup {NoSnapshot}

------------------------------------------------------------------------------
(* Safety *)

\* The live claim of task t is claim c, held by worker w.
LiveClaim(w, c) ==
    /\ tasks[c.task] # NoTask
    /\ tasks[c.task].status = "in_progress"
    /\ tasks[c.task].owner = w
    /\ tasks[c.task].claim = [owner |-> w, token |-> c.token, until |-> c.until]

\* Two failures the generation test does not see: a save that failed left its
\* object one generation ahead of the file, and after another process's write
\* the object is taken for current and saved.  From then on (overwritten) the
\* membership on disk may be an old one; what follows holds until then.

\* A worker of the team that was given a claim and is still inside its lease
\* owns the task: no claim, reclaim, assignment or scale-down of anyone else
\* has taken the task meanwhile.  Two workers never work on one task with
\* unexpired leases, unless a removed worker was brought back by an overwrite.
LeaseHolderOwnsTask ==
    overwritten \/
    \A w \in config.workers : \A c \in held[w] : c.until > now => LiveClaim(w, c)

\* The task file's owner, status and claim agree and tokens are never shared,
\* however the leader's configuration writes interleave with claims and
\* scale-downs; and unless an overwrite dropped a worker, a task is never in
\* the hands of a worker that left the team.
ClaimConsistent(t) ==
    /\ tasks[t].claim # NoClaim <=> tasks[t].status = "in_progress"
    /\ tasks[t].claim # NoClaim =>
          /\ tasks[t].claim.owner = tasks[t].owner
          /\ tasks[t].claim.token <= issued
          /\ \A u \in TaskId : tasks[u] # NoTask /\ tasks[u].claim # NoClaim
                /\ tasks[u].claim.token = tasks[t].claim.token => u = t
MemberHasClaim(t) ==
    tasks[t].claim # NoClaim => tasks[t].claim.owner \in config.workers
ClaimedByMember ==
    \A t \in TaskId : tasks[t] # NoTask =>
        ClaimConsistent(t) /\ (overwritten \/ MemberHasClaim(t))

\* A configuration object loaded earlier whose generation is still current has
\* the current membership, as long as no save of it failed: the generation
\* test of saveTeamConfig then keeps a stale copy from undoing a scale-down.
GenerationFixesMembership ==
    cfgView # NoView /\ ~ahead /\ cfgView.gen = config.gen =>
        cfgView.workers = config.workers /\ cfgView.used = config.used

\* The transition path reports a task at most once, with the outcome the task
\* really has, whatever operation crashes between the task file and the event.
EventsSound ==
    \A t \in TaskId :
        /\ events[t].completed + events[t].failed <= 1
        /\ events[t].completed = 1 => tasks[t] # NoTask /\ tasks[t].status = "completed"
        /\ events[t].failed = 1 => tasks[t] # NoTask /\ tasks[t].status = "failed"

\* A finished task keeps its outcome and its owner for ever.
TerminalIsFinal ==
    [][\A t \in TaskId : tasks[t] # NoTask /\ tasks[t].status \in Terminal =>
          /\ tasks'[t] # NoTask
          /\ tasks'[t].status = tasks[t].status
          /\ tasks'[t].owner = tasks[t].owner]_vars

\* A worker that was removed never comes back and its name is not given again,
\* also when a leader saves a configuration that it loaded before a scale-down:
\* scaleDown takes the tasks from the workers it removes, and only from them.
\* The one way back is an overwrite by an object whose earlier save failed.
NamesNeverReturn ==
    [][~overwritten' =>
          /\ config.used \subseteq config'.used
          /\ (config'.workers \ config.workers) \cap config.used = {}]_vars

\* A task file is never deleted or overwritten by another task, even when a
\* stale configuration moves next_task_id back or a creation died before it
\* advanced the counter; every write of a file raises its version by one, so
\* a version names one content.
TasksNeverReplaced ==
    [][\A t \in TaskId : tasks[t] # NoTask /\ tasks'[t] # tasks[t] =>
          tasks'[t] # NoTask /\ tasks'[t].version = tasks[t].version + 1]_vars

------------------------------------------------------------------------------
(* Refinement: the store implements TaskLifecycle. *)

LifeOf(task) ==
    IF task = NoTask THEN "absent"
    ELSE IF task.status \in Open THEN "open"
    ELSE IF task.status = "in_progress" THEN "held"
    ELSE task.status

GrantOf(task) ==
    IF task = NoTask THEN 0
    ELSE IF task.claim = NoClaim THEN 0
    ELSE task.claim.token

Lifecycle == INSTANCE TaskLifecycle WITH
    MaxGrants <- MaxTokens,
    life  <- [t \in TaskId |-> LifeOf(tasks[t])],
    grant <- [t \in TaskId |-> GrantOf(tasks[t])],
    drawn <- issued

\* Every behaviour of the store is a life cycle: a task is finished at most
\* once and by the current grant, a grant is fresh, nothing comes back from
\* completed or failed.
ImplementsLifecycle == Lifecycle!Spec

------------------------------------------------------------------------------
(* Liveness *)

\* Fairness: time passes; a process inside the barrier either goes on or dies.
Fairness == WF_vars(Tick) /\ WF_vars(OpNext \/ Crash)

FairSpec == Spec /\ Fairness

\* Someone goes on calling monitorTeam and now and then finds the barrier free
\* (SF: the lock is polled, so an attempt may lose).  Nothing makes a process do
\* so: pollLoop returns at a terminal phase and when the workers are dead.
Monitored == \A t \in TaskId : SF_vars(ReclaimExpiredTaskClaim(t))

\* No claim outlasts the monitor: its holder finishes or gives up, or the lease
\* runs out and a sweep puts the task back, whatever the team phase.
ClaimedUnder(t, k) ==
    tasks[t] # NoTask /\ tasks[t].claim # NoClaim /\ tasks[t].claim.token = k
ClaimsEnd ==
    Monitored => \A t \in TaskId, k \in Token : ClaimedUnder(t, k) ~> ~ClaimedUnder(t, k)
==============================================================================
