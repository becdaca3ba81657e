----------------------------- MODULE TeamDispatch -----------------------------
(* The life of dispatch requests: hook processes claim pending requests by a  *)
(* lease, type them into panes without the dispatch lock, and record what came*)
(* of it; senders and workers mark them meanwhile. The list is requests.json, *)
(* or, with the runtime bridge, dispatch.json: a view that every command of   *)
(* the engine renders again and that hooks and senders also write themselves. *)
(* Source: src/src/scripts/notify-hook/team-dispatch.ts,                      *)
(* src/src/team/state/dispatch.ts, src/src/team/state.ts.                     *)
(*                                                                           *)
(* Requests have different triggers (no cooldown), fewer than maxPerTick are  *)
(* claimed, and a command of the engine is one step (see RuntimeEngine).      *)
EXTENDS Naturals, FiniteSets

CONSTANTS
    Hook,         \* processes that drain the queue
    MaxRequests,  \* bound: requests, numbered in the order of the list
    MaxBridged,   \* bound: of these, how many there are with the bridge
    MaxAttempts,  \* MAX_UNCONFIRMED_ATTEMPTS
    Leader,       \* requests for the leader that name no pane
    MaxLost,      \* bound: losses (a kill, a lock timeout, a slow owner)
    MaxTyped,     \* bound of the counter typed
    Free, Dead

ASSUME BoundAssumption ==
    /\ MaxRequests \in Nat /\ MaxBridged \in Nat /\ MaxAttempts \in Nat \ {0}
    /\ MaxLost \in Nat /\ MaxTyped \in Nat
    /\ Free \notin Hook /\ Dead \notin Hook /\ Free # Dead

ASSUME HookAssumption == IsFiniteSet(Hook)

Request == 1..MaxRequests

VARIABLES
    bridge,   \* the engine is in use
    pane,     \* the configuration names the leader's pane
    queued,   \* how many requests were ever queued
    list,     \* the requests that everybody reads
    engine,   \* the status of each in the engine's log
    lock,     \* who holds the dispatch lock
    lease,    \* who holds the lease of each request
    pc,
    claims,   \* the requests each hook has claimed and not released
    copy,     \* the list as it read it, while it has the lock
    result,   \* what became of the typing
    leaving,  \* it failed and only releases its leases
    typed,    \* history: how often each request was typed or submitted once more, since
              \* a command of the engine last rendered it other than it was
    lost,     \* history: how often an owner of it was killed, slow or out of time
    late      \* history: what each hook still works on without the lease, which another
              \* took over, or removed that had lost its own

hooks == <<pc, claims, copy, result, leaving>>
settings == <<bridge, pane>>
vars == <<settings, queued, list, engine, lock, lease, hooks, typed, lost, late>>

Status == {"none", "pending", "notified", "delivered", "failed"}
Entry == [status : Status, attempts : Nat]

\* TEAM_DISPATCH_REQUEST_STATUS_TRANSITIONS; DispatchLog has the same.
Allowed(from, to) ==
    <<from, to>> \in {<<"pending", "notified">>, <<"pending", "failed">>,
                      <<"notified", "delivered">>, <<"notified", "failed">>}

\* Attempts count for pending requests only.
At(status, attempts) ==
    [status |-> status, attempts |-> IF status = "pending" THEN attempts ELSE 0]

\* dispatch.json as the engine writes it: its records do not know the attempts.
Render(log) == [r \in Request |-> At(log[r], 0)]

NoCopy == [r \in Request |-> At("none", 0)]
First(S) == CHOOSE r \in S : \A q \in S : r <= q
Lossy == \A r \in Request : lost[r] < MaxLost

Pending(l) == {r \in Request : l[r].status = "pending"}

------------------------------------------------------------------------------
Init ==
    /\ bridge \in BOOLEAN /\ pane \in BOOLEAN /\ queued = 0
    /\ list = NoCopy
    /\ engine = [r \in Request |-> "none"]
    /\ lock = Free /\ lease = [r \in Request |-> Free]
    /\ pc = [h \in Hook |-> "idle"]
    /\ claims = [h \in Hook |-> {}]
    /\ copy = [h \in Hook |-> NoCopy]
    /\ result = [h \in Hook |-> "none"]
    /\ leaving = [h \in Hook |-> FALSE]
    /\ typed = [r \in Request |-> 0] /\ lost = [r \in Request |-> 0]
    /\ late = [h \in Hook |-> {}]

Rendered ==
    /\ list' = Render(engine')
    /\ typed' = [r \in Request |-> IF list'[r] = list[r] THEN typed[r] ELSE 0]

Command(r, status) ==
    /\ engine' = [engine EXCEPT ![r] = status]
    /\ Rendered

\* startTeam records the leader's pane, if there is one.
RecordPane ==
    /\ ~pane /\ pane' = TRUE
    /\ UNCHANGED <<bridge, queued, list, engine, lock, lease, hooks, typed, lost, late>>

\* enqueueDispatchRequest. When the engine cannot be run the request is in the list only.
Enqueue(r) ==
    /\ bridge => r <= MaxBridged
    /\ lock = Free
    /\ r = queued + 1 /\ queued' = r
    /\ \/ bridge /\ Command(r, "pending")
       \/ list' = [list EXCEPT ![r] = At("pending", 0)] /\ UNCHANGED <<engine, typed>>
    /\ UNCHANGED <<settings, lock, lease, hooks, lost, late>>

\* markDispatchRequestNotified, -Delivered by a command, with no lock ...
Marks(r, status) ==
    /\ bridge /\ status # "failed"
    /\ list[r].status \in {"pending", "notified"} \ {status}
    /\ Allowed(engine[r], status)
    /\ Command(r, status)
    /\ UNCHANGED <<settings, queued, lock, lease, hooks, lost, late>>

\* ... and transitionDispatchRequest: without a bridge, when the engine refuses, and
\* whenever a sender that could not type fails the request. The engine is not told.
Transition(r, status) ==
    /\ lock = Free
    /\ bridge /\ status # "failed" => ~Allowed(engine[r], status)
    /\ Allowed(list[r].status, status)
    /\ list' = [list EXCEPT ![r] = At(status, 0)]
    /\ UNCHANGED <<settings, queued, engine, lock, lease, hooks, typed, lost, late>>

\* A command about another message or team: the view is rendered again.
OtherCommand ==
    /\ bridge
    /\ UNCHANGED engine /\ Rendered
    /\ UNCHANGED <<settings, queued, lock, lease, hooks, lost, late>>

------------------------------------------------------------------------------
(* A hook *)

Goto(h, from, to) == pc[h] = from /\ pc' = [pc EXCEPT ![h] = to]

\* A request for a leader whose pane is not known stays pending and is passed over.
Deferred == IF pane THEN {} ELSE Leader \cap Pending(list)

\* Bug form: the lease of a dead process is for ever.
ClaimableFree == {r \in Pending(list) \ Deferred : lease[r] = Free}
\* tryAcquireDispatchRequestLease
Claimable == {r \in Pending(list) \ Deferred : lease[r] \in {Free, Dead}}

\* The leases of others, who may be slow rather than dead.
Slow == {r \in Pending(list) \ Deferred : lease[r] \in Hook /\ Lossy}

\* withDispatchLock: the list is read and every free or stale lease taken. The lease
\* of a process that died is stale in the end; that of a slow one may be as well.
\* Who only passes requests over writes the list as well: without the bridge, as it is.
Claim(h) ==
    /\ Goto(h, "idle", "claim")
    /\ lock = Free /\ lock' = h
    /\ \E slow \in SUBSET Slow :
        LET mine == slow \cup Claimable IN
        /\ mine # {} \/ (bridge /\ Deferred # {})
        /\ claims' = [claims EXCEPT ![h] = mine]
        /\ lease' = [r \in Request |-> IF r \in mine THEN h ELSE lease[r]]
        /\ lost' = [r \in Request |-> IF r \in slow THEN lost[r] + 1 ELSE lost[r]]
        /\ late' = [k \in Hook |-> late[k] \cup {r \in slow : lease[r] = k}]
    /\ copy' = [copy EXCEPT ![h] = list]
    /\ UNCHANGED <<settings, queued, list, engine, result, leaving, typed>>

\* The cooldowns changed, or a request was passed over: the list is written as read.
ClaimWrite(h) ==
    /\ Goto(h, "claim", IF claims[h] = {} THEN "idle" ELSE "inject")
    /\ list' = copy[h] /\ lock' = Free
    /\ copy' = [copy EXCEPT ![h] = NoCopy]
    /\ UNCHANGED <<settings, queued, engine, lease, claims, result, leaving, typed, lost, late>>

\* The claims are worked off in their order.
Current(h) == First(claims[h])

\* What injectDispatchRequest ends with: it may give up before any key is typed, but
\* also when the pane is lost afterwards. Then the worker may have read the trigger.
Ends(h, outcome, keys) ==
    /\ outcome # "failed" => keys
    /\ result' = [result EXCEPT ![h] = outcome]
    /\ typed' = IF keys /\ typed[Current(h)] < MaxTyped
                THEN [typed EXCEPT ![Current(h)] = @ + 1] ELSE typed

\* Bug form: the lease is given up as soon as the request is typed.
InjectReleasing(h) ==
    /\ Goto(h, "inject", "finalize")
    /\ \E outcome \in {"ok", "unconfirmed", "failed"}, keys \in BOOLEAN : Ends(h, outcome, keys)
    /\ lease' = [lease EXCEPT ![Current(h)] = IF @ = h THEN Free ELSE @]
    /\ UNCHANGED <<settings, queued, list, engine, lock, claims, copy, leaving, lost, late>>
\* injectDispatchRequest. One that is confirmed tells the engine, which accepts it of
\* a request that somebody else has marked as notified meanwhile.
Inject(h) ==
    /\ Goto(h, "inject", "finalize")
    /\ \/ /\ \E outcome \in {"ok", "unconfirmed", "failed"}, keys \in BOOLEAN :
                Ends(h, outcome, keys)
          /\ UNCHANGED <<list, engine>>
       \/ /\ bridge /\ Allowed(engine[Current(h)], "delivered")
          /\ Command(Current(h), "delivered")
          /\ result' = [result EXCEPT ![h] = "ok"]
    /\ UNCHANGED <<settings, queued, lock, lease, claims, copy, leaving, lost, late>>

\* Bug form: what was claimed is recorded whatever became of it meanwhile.
RereadBlind(h) ==
    /\ lock = Free /\ lock' = h
    /\ copy' = [copy EXCEPT ![h] = list]
    /\ Goto(h, "finalize", IF bridge THEN "command" ELSE "write")
    /\ UNCHANGED <<settings, queued, list, engine, lease, claims, result, leaving, typed, lost, late>>
\* Bug form: the list is read again without the lock.
RereadUnlocked(h) ==
    /\ pc[h] = "finalize"
    /\ \/ /\ Current(h) \in Pending(list)
          /\ Goto(h, "finalize", IF bridge THEN "command" ELSE "write")
          /\ copy' = [copy EXCEPT ![h] = list]
       \/ /\ Current(h) \notin Pending(list)
          /\ Goto(h, "finalize", "release")
          /\ UNCHANGED copy
    /\ UNCHANGED <<settings, queued, list, engine, lock, lease, claims, result, leaving, typed,
                   lost, late>>
\* finalizeClaimedDispatchRequest: the lock, and the list read again.
Reread(h) ==
    /\ pc[h] = "finalize" /\ lock = Free
    /\ \/ /\ Current(h) \in Pending(list)
          /\ Goto(h, "finalize", IF bridge THEN "command" ELSE "write")
          /\ lock' = h /\ copy' = [copy EXCEPT ![h] = list]
       \/ /\ Current(h) \notin Pending(list)
          /\ Goto(h, "finalize", "release")
          /\ UNCHANGED <<lock, copy>>
    /\ UNCHANGED <<settings, queued, list, engine, lease, claims, result, leaving, typed, lost, late>>

\* The lock is not to be had in time: the process gives up and releases.
Timeout(h) ==
    /\ Goto(h, "finalize", "release")
    /\ Lossy
    /\ lost' = [lost EXCEPT ![Current(h)] = @ + 1]
    /\ leaving' = [leaving EXCEPT ![h] = TRUE]
    /\ UNCHANGED <<settings, queued, list, engine, lock, lease, claims, copy, result, typed, late>>

\* Bug form: one more attempt than there may be.
VerdictOneMore(h) ==
    LET attempts == copy[h][Current(h)].attempts + 1 IN
    IF result[h] = "ok" THEN At("notified", 0)
    ELSE IF result[h] = "unconfirmed" /\ attempts <= MaxAttempts THEN At("pending", attempts)
    ELSE At("failed", 0)
\* What the request becomes: pending once more while unconfirmed attempts remain.
Verdict(h) ==
    LET attempts == copy[h][Current(h)].attempts + 1 IN
    IF result[h] = "ok" THEN At("notified", 0)
    ELSE IF result[h] = "unconfirmed" /\ attempts < MaxAttempts THEN At("pending", attempts)
    ELSE At("failed", 0)

\* runtimeExec; a refusal is ignored, and so is a command that cannot be run.
Run(h) ==
    /\ Goto(h, "command", "write")
    /\ LET r == Current(h)  status == Verdict(h).status IN
       \/ Allowed(engine[r], status) /\ Command(r, status)
       \/ UNCHANGED <<list, engine, typed>>
    /\ UNCHANGED <<settings, queued, lock, lease, claims, copy, result, leaving, lost, late>>

FinalWrite(h) ==
    /\ Goto(h, "write", "release")
    /\ list' = [copy[h] EXCEPT ![Current(h)] = Verdict(h)]
    /\ lock' = Free
    /\ copy' = [copy EXCEPT ![h] = NoCopy]
    /\ UNCHANGED <<settings, queued, engine, lease, claims, result, leaving, typed, lost, late>>

\* releaseDispatchRequestLease, without the lock: the owner is read ...
ReleaseRead(h) ==
    /\ pc[h] = "release"
    /\ Goto(h, "release", IF lease[Current(h)] = h THEN "remove" ELSE "next")
    /\ UNCHANGED <<settings, queued, list, engine, lock, lease, claims, copy, result, leaving,
                   typed, lost, late>>

\* ... and the directory removed.
ReleaseRemove(h) ==
    /\ Goto(h, "remove", "next")
    /\ lease' = [lease EXCEPT ![Current(h)] = Free]
    /\ late' = [k \in Hook |-> IF k # h /\ lease[Current(h)] = k
                               THEN late[k] \cup {Current(h)} ELSE late[k]]
    /\ UNCHANGED <<settings, queued, list, engine, lock, claims, copy, result, leaving, typed, lost>>

\* The next claim: to be typed, or, by a process that gave up, to be released.
NextClaim(h) ==
    /\ pc[h] = "next"
    /\ LET left == claims[h] \ {Current(h)} IN
        /\ claims' = [claims EXCEPT ![h] = left]
        /\ \/ /\ left = {} /\ Goto(h, "next", "idle")
              /\ leaving' = [leaving EXCEPT ![h] = FALSE]
           \/ /\ left # {} /\ Goto(h, "next", IF leaving[h] THEN "release" ELSE "inject")
              /\ UNCHANGED leaving
    /\ result' = [result EXCEPT ![h] = "none"]
    /\ late' = [late EXCEPT ![h] = @ \ {Current(h)}]
    /\ UNCHANGED <<settings, queued, list, engine, lock, lease, copy, typed, lost>>

\* The process is killed: its lock and its leases become stale.
Kill(h) ==
    /\ pc[h] # "idle" /\ Lossy
    /\ pc' = [pc EXCEPT ![h] = "idle"]
    /\ lock' = IF lock = h THEN Free ELSE lock
    /\ lease' = [r \in Request |-> IF lease[r] = h THEN Dead ELSE lease[r]]
    /\ lost' = [r \in Request |-> IF r \in claims[h] THEN lost[r] + 1 ELSE lost[r]]
    /\ claims' = [claims EXCEPT ![h] = {}]
    /\ copy' = [copy EXCEPT ![h] = NoCopy]
    /\ result' = [result EXCEPT ![h] = "none"]
    /\ leaving' = [leaving EXCEPT ![h] = FALSE]
    /\ late' = [late EXCEPT ![h] = {}]
    /\ UNCHANGED <<settings, queued, list, engine, typed>>

Drain(h) ==
    \/ Claim(h) \/ ClaimWrite(h) \/ Inject(h) \/ Reread(h) \/ Run(h) \/ FinalWrite(h)
    \/ ReleaseRead(h) \/ ReleaseRemove(h) \/ NextClaim(h)

Next ==
    \/ \E r \in Request : Enqueue(r)
    \/ \E r \in Request, status \in Status : Marks(r, status) \/ Transition(r, status)
    \/ OtherCommand \/ RecordPane
    \/ \E h \in Hook : Drain(h) \/ Timeout(h) \/ Kill(h)

Spec == Init /\ [][Next]_vars

\* Fairness: the hook runs at every turn, so some process goes on with the queue.
FairSpec == Spec /\ WF_vars(\E h \in Hook : Drain(h))

------------------------------------------------------------------------------
Locked == {"claim", "command", "write"}

\* Type invariant; the lock is held where the list is read and written.
TypeOK ==
    /\ bridge \in BOOLEAN /\ pane \in BOOLEAN /\ queued \in 0..MaxRequests
    /\ list \in [Request -> Entry] /\ engine \in [Request -> Status]
    /\ lease \in [Request -> Hook \cup {Free, Dead}]
    /\ pc \in [Hook -> Locked \cup {"idle", "inject", "finalize", "release", "remove", "next"}]
    /\ claims \in [Hook -> SUBSET Request]
    /\ copy \in [Hook -> [Request -> Entry]]
    /\ result \in [Hook -> {"none", "ok", "unconfirmed", "failed"}]
    /\ leaving \in [Hook -> BOOLEAN]
    /\ typed \in [Request -> 0..MaxTyped] /\ lost \in [Request -> 0..MaxLost]
    /\ late \in [Hook -> SUBSET Request]
    /\ lock \in Hook \cup {Free}
    /\ \A h \in Hook : lock = h <=> pc[h] \in Locked

\* Of two processes at the same request one has lost its lease: it was taken for dead
\* and the other took over, or one that was taken for dead removed it, between its look
\* at the owner and the removal (tryAcquireDispatchRequestLease,
\* releaseDispatchRequestLease). With the bridge and without it, and nobody removes the
\* lease of another for any other reason.
Owners(r) == {h \in Hook : r \in claims[h] /\ ~(pc[h] = "next" /\ r = Current(h))}
OneTyper ==
    /\ \A r \in Request : \A h, k \in Owners(r) : h = k \/ r \in late[h] \cup late[k]
    /\ \A h \in Hook : pc[h] = "remove" => lease[Current(h)] = h \/ Current(h) \in late[h]

\* A request is typed at most as often as unconfirmed attempts are allowed, and once
\* more for every owner that may have typed it and was killed, slow or out of time
\* before it recorded the attempt (finalizeClaimedDispatchRequest). With
\* the bridge the count starts again when a command renders the request other than it
\* was, which the engine does without its attempts.
AttemptsBounded == \A r \in Request : typed[r] <= MaxAttempts + lost[r]

\* Hooks that type without the lock never undo what senders and workers record
\* meanwhile: the status only goes forward, delivered and failed are final.
Forward ==
    [][~bridge => \A r \in Request :
        \/ list'[r].status = list[r].status
        \/ list[r].status = "none" /\ list'[r].status = "pending"
        \/ Allowed(list[r].status, list'[r].status)]_vars

\* A command renders the request without the attempts it had.
Forgets(r) == list[r].attempts > 0 /\ list'[r] = At("pending", 0)

\* No request is pending for ever, also when processes die with its lease: it is notified
\* or failed, or one that the engine does not know is gone. Except one for a leader whose
\* pane is never recorded, which is put off for ever (drainPendingTeamDispatch), and
\* one whose attempts are forgotten again and again.
Settles ==
    \A r \in Request :
        (r \notin Leader \/ <>[]pane) /\ <>[][~Forgets(r)]_vars =>
            (list[r].status = "pending" ~> list[r].status # "pending")

\* src/docs/contracts/team-delivery-state-contract.md:39: "failed -> notified is not
\* allowed for the same request_id", with the bridge as well.
FailedStaysFailed ==
    \A r \in Request :
        [](list[r].status = "failed" => [](list[r].status # "notified"))
==============================================================================
