---------------------------- MODULE TaskLifecycle ----------------------------
(* What the task store promises, without files, barriers, leases or          *)
(* versions: a task is added once, is handed out under a fresh grant each    *)
(* time, may be taken back, and is finished at most once, by the grant that  *)
(* is current.  TeamTasks implements it.                                     *)
EXTENDS Naturals

CONSTANTS TaskId, MaxGrants

VARIABLES
    life,    \* TaskId -> where the task is in its life
    grant,   \* TaskId -> the current grant, 0 when nobody holds the task
    drawn    \* number of grants made

vars == <<life, grant, drawn>>

Outcome == {"completed", "failed"}
Life    == {"absent", "open", "held"} \cup Outcome

Init ==
    /\ life = [t \in TaskId |-> "absent"]
    /\ grant = [t \in TaskId |-> 0]
    /\ drawn = 0

Add(t) ==
    /\ life[t] = "absent"
    /\ life' = [life EXCEPT ![t] = "open"]
    /\ UNCHANGED <<grant, drawn>>

\* A held task may be granted anew: its lease ran out.
Grant(t) ==
    /\ life[t] \in {"open", "held"} /\ drawn < MaxGrants
    /\ life' = [life EXCEPT ![t] = "held"]
    /\ grant' = [grant EXCEPT ![t] = drawn + 1]
    /\ drawn' = drawn + 1

\* Several tasks at once: scale-down takes all tasks of the removed workers.
TakeBack(S) ==
    /\ \A t \in S : life[t] = "held"
    /\ life' = [t \in TaskId |-> IF t \in S THEN "open" ELSE life[t]]
    /\ grant' = [t \in TaskId |-> IF t \in S THEN 0 ELSE grant[t]]
    /\ UNCHANGED drawn

Finish(t, outcome) ==
    /\ life[t] = "held"
    /\ life' = [life EXCEPT ![t] = outcome]
    /\ grant' = [grant EXCEPT ![t] = 0]
    /\ UNCHANGED drawn

Next ==
    \/ \E t \in TaskId : Add(t) \/ Grant(t)
    \/ \E S \in SUBSET TaskId : TakeBack(S)
    \/ \E t \in TaskId, outcome \in Outcome : Finish(t, outcome)

Spec == Init /\ [][Next]_vars
==============================================================================
