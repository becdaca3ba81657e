----------------------------- MODULE MailboxWake -----------------------------
(* How a worker is told that it has mail. A message is stored, then a wake   *)
(* request is queued unless a live one for the same worker exists; a hook     *)
(* types the wake into the worker's pane; the worker lists its mailbox and    *)
(* acknowledges message by message; the last acknowledgement settles the wake.*)
(* Source: src/src/team/mcp-comm.ts (queueDirectMailboxMessage),              *)
(* src/src/team/runtime.ts (finalizeHookPreferredMailboxDispatch,             *)
(* deliverPendingMailboxMessages), src/src/team/state/dispatch.ts,            *)
(* src/src/team/api-interop.ts (mailbox-mark-delivered),                      *)
(* src/src/scripts/notify-hook/team-dispatch.ts (drainPendingTeamDispatch).   *)
(*                                                                           *)
(* One worker, one pane, one intent: all wakes are for the same target. Each  *)
(* call to the stores is one step, which their locks and the engine provide.  *)
(* With the runtime bridge the wakes are a view that every command of the     *)
(* engine renders again; a sender that cannot type fails its wake in the view *)
(* only. A view that the hook takes back and commands that fail are TeamDispatch. *)
EXTENDS Naturals, FiniteSets

CONSTANTS
    MaxMessages,  \* bound: messages, numbered in the order in which they are stored
    MaxWakes,     \* bound: wake requests
    MaxSends,     \* bound: sends under way at a time; the leader's monitor comes on top
    MaxFails      \* bound: attempts to type that fail

ASSUME BoundAssumption == {MaxMessages, MaxWakes, MaxSends, MaxFails} \subseteq Nat

Message == 1..MaxMessages

\* Who queues a wake: the sender of a message, and the leader's monitor that
\* finds it in the mailbox without a notification.
Actor == {"sender", "monitor"}

VARIABLES
    mail,    \* the mailbox
    wake,    \* the wake requests: their status, as everybody reads it
    hidden,  \* the status that the engine has of one that failed without its knowledge
    back,    \* history: the wakes that failed so and came back
    of,      \* the message each was queued for
    pc,      \* where each actor is with each message
    req,     \* the request that it waits for
    hook,    \* the request that the hook has typed and not yet marked
    typed,   \* a wake is in the pane, not read yet
    worker,  \* where the worker is
    active,  \* the live requests it found
    fails    \* failed attempts so far

actors == <<pc, req>>
recipient == <<worker, active>>
view == <<wake, hidden, back>>
vars == <<mail, view, of, actors, hook, typed, recipient, fails>>

Wake == 1..MaxWakes
WakeStatus == {"none", "pending", "notified", "delivered", "failed"}

Nowhere == [w \in Wake |-> "none"]

\* What the engine knows; without the bridge it is what everybody reads.
Engine == [w \in Wake |-> IF hidden[w] = "none" THEN wake[w] ELSE hidden[w]]

Undelivered == {m \in Message : mail[m] \in {"new", "notified"}}
Live == {w \in Wake : wake[w] \in {"pending", "notified"}}
Unused == {w \in Wake : wake[w] = "none"}

------------------------------------------------------------------------------
Init ==
    /\ mail = [m \in Message |-> "none"]
    /\ wake = Nowhere /\ hidden = Nowhere /\ back = {}
    /\ of = [w \in Wake |-> 0]
    /\ pc = [a \in Actor |-> [m \in Message |-> "idle"]]
    /\ req = [a \in Actor |-> [m \in Message |-> 0]]
    /\ hook = 0 /\ typed = FALSE
    /\ worker = "idle" /\ active = {}
    /\ fails = 0

Goto(a, m, from, to) == pc[a][m] = from /\ pc' = [pc EXCEPT ![a][m] = to]
Return(a, m, from) == Goto(a, m, from, "idle") /\ req' = [req EXCEPT ![a][m] = 0]

\* A command of the engine: the wakes are shown as it has them.
Command(wakes) ==
    /\ wake' = wakes /\ hidden' = Nowhere
    /\ back' = back \cup {w \in Wake : hidden[w] # "none"}

Notified(m) == IF mail[m] = "new" THEN [mail EXCEPT ![m] = "notified"] ELSE mail

\* Messages are numbered in the order in which they are stored; one with the same
\* body that is neither acknowledged nor notified is taken up again.
Sendable(m) ==
    /\ mail[m] = "new" \/ (mail[m] = "none" /\ \A n \in 1..(m - 1) : mail[n] # "none")
    /\ Cardinality({n \in Message : pc["sender"][n] # "idle"}) < MaxSends

\* Bug form: the send goes on although the message could not be stored.
SendUnstored(m) ==
    /\ Sendable(m) /\ Goto("sender", m, "idle", "enqueue")
    /\ UNCHANGED <<mail, view, of, req, hook, typed, recipient, fails>>
\* sendDirectMessage; what is in the mailbox already is not stored again.
Send(m) ==
    /\ Sendable(m) /\ Goto("sender", m, "idle", "enqueue")
    /\ \/ mail[m] = "none" /\ mail' = [mail EXCEPT ![m] = "new"] /\ Command(Engine)
       \/ mail[m] = "new" /\ UNCHANGED <<mail, view>>
    /\ UNCHANGED <<of, req, hook, typed, recipient, fails>>

\* deliverPendingMailboxMessages lists the messages without delivery and
\* notification and takes them one after the other, as listed.
Notice ==
    /\ \A m \in Message : pc["monitor"][m] = "idle"
    /\ \E m \in Message : mail[m] = "new"
    /\ pc' = [pc EXCEPT !["monitor"] =
                [m \in Message |-> IF mail[m] = "new" THEN "enqueue" ELSE "idle"]]
    /\ UNCHANGED <<mail, view, of, req, hook, typed, recipient, fails>>

Free(a) == a = "monitor" => \A m \in Message : pc["monitor"][m] \in {"idle", "enqueue"}

\* equivalentPendingDispatch, sameMailboxWakeTarget.
Equivalent == {w \in Wake : wake[w] \in {"pending", "notified"}}

\* enqueueDispatchRequest, in the dispatch lock.
Enqueue(a, m) ==
    /\ Free(a)
    /\ Goto(a, m, "enqueue", "wait")
    /\ \/ /\ Equivalent # {}
          /\ \E w \in Equivalent : req' = [req EXCEPT ![a][m] = w]
          /\ UNCHANGED <<view, of>>
       \/ /\ Equivalent = {}
          /\ \E w \in Unused :
              /\ \A v \in Unused : w <= v
              /\ Command([Engine EXCEPT ![w] = "pending"])
              /\ of' = [of EXCEPT ![w] = m]
              /\ req' = [req EXCEPT ![a][m] = w]
    /\ UNCHANGED <<mail, hook, typed, recipient, fails>>

\* waitForDispatchReceipt: the request was typed or acknowledged.
Receipt(a, m) ==
    /\ Return(a, m, "wait")
    /\ wake[req[a][m]] \in {"notified", "delivered"}
    /\ mail' = Notified(m) /\ Command(Engine)
    /\ UNCHANGED <<of, hook, typed, recipient, fails>>

\* The request was still pending when the wait ended, or it failed. What happens
\* to it from here on is not seen before the actor has typed the wake itself.
GiveUp(a, m) ==
    /\ \/ Goto(a, m, "wait", "fallback") /\ wake[req[a][m]] = "pending"
       \/ Goto(a, m, "wait", "refused") /\ wake[req[a][m]] = "failed"
    /\ UNCHANGED <<mail, view, of, req, hook, typed, recipient, fails>>

FallbackTypes(a, m) ==
    /\ Goto(a, m, "fallback", "typed") \/ Goto(a, m, "refused", "retyped")
    /\ typed' = TRUE
    /\ UNCHANGED <<mail, view, of, req, hook, recipient, fails>>

\* The marks afterwards, of the message and of the request, which stays as it is if
\* it failed or was settled. One step: whoever reads the first does not read the second.
FallbackMarks(a, m) ==
    /\ Return(a, m, "typed")
    /\ mail' = Notified(m)
    /\ Command(IF Engine[req[a][m]] = "pending"
               THEN [Engine EXCEPT ![req[a][m]] = "notified"] ELSE Engine)
    /\ UNCHANGED <<of, hook, typed, recipient, fails>>

\* After a failed receipt the message is marked, and the request, which the command for
\* that mark may show as live again, is to fail once more.
RefusedMarks(a, m) ==
    /\ Goto(a, m, "retyped", "refail")
    /\ mail' = Notified(m) /\ Command(Engine)
    /\ UNCHANGED <<of, req, hook, typed, recipient, fails>>

\* transitionDispatchRequest without a command: with the bridge the engine has the
\* request still as it was, without it nobody has.
Refuse(r) ==
    IF r \in Live
    THEN /\ wake' = [wake EXCEPT ![r] = "failed"]
         /\ hidden' \in {hidden, [hidden EXCEPT ![r] = wake[r]]}
    ELSE UNCHANGED <<wake, hidden>>

RefusedFails(a, m) ==
    /\ Return(a, m, "refail") /\ Refuse(req[a][m])
    /\ UNCHANGED <<mail, of, back, hook, typed, recipient, fails>>

\* Bug form: the message is marked although nothing was typed.
FallbackFailsMarked(a, m) ==
    /\ fails < MaxFails /\ fails' = fails + 1
    /\ Return(a, m, "fallback") /\ Refuse(req[a][m])
    /\ mail' = Notified(m)
    /\ UNCHANGED <<of, back, hook, typed, recipient>>
\* The actor cannot type either: a live request fails, unless it was seen to have
\* failed before; the message stays unnotified.
FallbackFails(a, m) ==
    /\ fails < MaxFails /\ fails' = fails + 1
    /\ \/ Return(a, m, "fallback") /\ Refuse(req[a][m])
       \/ Return(a, m, "refused") /\ UNCHANGED <<wake, hidden>>
    /\ UNCHANGED <<mail, of, back, hook, typed, recipient>>

Act(a, m) ==
    \/ Enqueue(a, m) \/ Receipt(a, m) \/ GiveUp(a, m)
    \/ FallbackTypes(a, m) \/ FallbackMarks(a, m)
    \/ RefusedMarks(a, m) \/ RefusedFails(a, m)

------------------------------------------------------------------------------
(* The hook *)

HookTypes ==
    /\ hook = 0
    /\ \E w \in Wake : wake[w] = "pending" /\ hook' = w
    /\ typed' = TRUE
    /\ UNCHANGED <<mail, view, of, actors, recipient, fails>>

\* Bug form: the request is marked although nothing was typed.
HookFailsMarked ==
    /\ hook = 0
    /\ fails < MaxFails /\ fails' = fails + 1
    /\ \E w \in Wake : wake[w] = "pending" /\ wake' = [wake EXCEPT ![w] = "notified"]
    /\ UNCHANGED <<mail, hidden, back, of, actors, hook, typed, recipient>>
\* The engine is told. The hook writes back what it read before the command: what
\* failed untold is shown as failed still.
HookFails ==
    /\ hook = 0
    /\ fails < MaxFails /\ fails' = fails + 1
    /\ \E w \in Wake : wake[w] = "pending" /\ wake' = [wake EXCEPT ![w] = "failed"]
    /\ UNCHANGED <<mail, hidden, back, of, actors, hook, typed, recipient>>

\* finalizeClaimedDispatchRequest: only a request that is still pending is marked.
HookMarks ==
    /\ hook # 0 /\ hook' = 0
    /\ IF wake[hook] = "pending"
       THEN /\ wake' = [wake EXCEPT ![hook] = "notified"]
            /\ mail' = Notified(of[hook])
       ELSE UNCHANGED <<wake, mail>>
    /\ UNCHANGED <<hidden, back, of, actors, typed, recipient, fails>>

------------------------------------------------------------------------------
(* The worker *)

\* It reads the wake; it goes back to its work when its mailbox holds nothing new.
Look ==
    /\ worker = "idle" /\ typed
    /\ typed' = FALSE /\ worker' = "list"
    /\ UNCHANGED <<mail, view, of, actors, hook, active, fails>>

Nothing ==
    /\ worker = "list" /\ Undelivered = {}
    /\ worker' = "idle"
    /\ UNCHANGED <<mail, view, of, actors, hook, typed, active, fails>>

\* mailbox-mark-delivered: the mark, then markLatestMailboxDispatchDelivered.
MarkDelivered(m) ==
    /\ worker = "list" /\ m \in Undelivered
    /\ mail' = [mail EXCEPT ![m] = "delivered"] /\ Command(Engine)
    /\ worker' = "active"
    /\ UNCHANGED <<of, actors, hook, typed, active, fails>>

ListActive ==
    /\ worker = "active"
    /\ active' = Live
    /\ worker' = IF Live = {} THEN "list" ELSE "check"
    /\ UNCHANGED <<mail, view, of, actors, hook, typed, fails>>

\* The wake stays as long as a message is undelivered.
CheckMailbox ==
    /\ worker = "check"
    /\ IF Undelivered = {} THEN worker' = "settle" /\ UNCHANGED active
       ELSE worker' = "list" /\ active' = {}
    /\ UNCHANGED <<mail, view, of, actors, hook, typed, fails>>

\* Bug form: what is live by now is settled, queued after the check or not.
SettleLive ==
    /\ worker = "settle"
    /\ wake' = [w \in Wake |-> IF w \in Live THEN "delivered" ELSE wake[w]]
    /\ active' = {} /\ worker' = "list"
    /\ UNCHANGED <<mail, hidden, back, of, actors, hook, typed, fails>>
\* Only what was found before the mailbox was read; a failed one stays failed.
Settle ==
    /\ worker = "settle"
    /\ \E w \in active :
        /\ IF w \in Live THEN Command([Engine EXCEPT ![w] = "delivered"]) ELSE UNCHANGED view
        /\ active' = active \ {w}
    /\ worker' = IF active' = {} THEN "list" ELSE "settle"
    /\ UNCHANGED <<mail, of, actors, hook, typed, fails>>

Read == Look \/ Nothing \/ (\E m \in Message : MarkDelivered(m)) \/ ListActive \/ CheckMailbox \/ Settle

\* A command about the mail or the wakes of somebody else.
OtherCommand ==
    /\ Command(Engine)
    /\ UNCHANGED <<mail, of, actors, hook, typed, recipient, fails>>

Next ==
    \/ \E m \in Message : Send(m)
    \/ Notice \/ OtherCommand
    \/ \E a \in Actor, m \in Message : Act(a, m) \/ FallbackFails(a, m)
    \/ HookTypes \/ HookFails \/ HookMarks
    \/ Read

Spec == Init /\ [][Next]_vars

\* Fairness: as long as a send that began, the leader's poll, the hook or the worker
\* can go on, one of them does. Nobody has to send, nothing has to fail.
GoOn ==
    \/ \E a \in Actor, m \in Message : Act(a, m)
    \/ Notice \/ HookTypes \/ HookMarks \/ Read

FairSpec == Spec /\ WF_vars(GoOn)

------------------------------------------------------------------------------
\* Type invariant; every wake names a message that is in the mailbox.
TypeOK ==
    /\ mail \in [Message -> {"none", "new", "notified", "delivered"}]
    /\ wake \in [Wake -> WakeStatus] /\ hidden \in [Wake -> {"none", "pending", "notified"}]
    /\ \A w \in Wake : hidden[w] # "none" => wake[w] = "failed"
    /\ back \subseteq Wake
    /\ of \in [Wake -> 0..MaxMessages]
    /\ \A w \in Wake : IF wake[w] = "none" THEN of[w] = 0 ELSE of[w] # 0 /\ mail[of[w]] # "none"
    /\ pc \in [Actor -> [Message -> {"idle", "enqueue", "wait", "fallback", "refused", "typed", "retyped", "refail"}]]
    /\ req \in [Actor -> [Message -> 0..MaxWakes]]
    /\ hook \in 0..MaxWakes /\ typed \in BOOLEAN
    /\ worker \in {"idle", "list", "active", "check", "settle"}
    /\ active \subseteq Wake
    /\ fails \in 0..MaxFails

\* A wake that is settled as delivered was queued for a message that the worker has
\* acknowledged, however sends and acknowledgements interleave: the live wakes are
\* listed before the mailbox is read (markLatestMailboxDispatchDelivered).
SettledMeansDelivered ==
    \A w \in Wake : wake[w] = "delivered" => mail[of[w]] = "delivered"

\* The worker has been told of a wake and has not gone back to its work since.
Awake == typed \/ worker # "idle"

\* A wake that was typed is not overlooked: a worker that is back at its work has
\* acknowledged the message that it was queued for, whoever typed and marked it.
TypedMeansSeen ==
    \A w \in Wake : wake[w] = "notified" \/ hook = w => mail[of[w]] = "delivered" \/ Awake

\* A message with a wake of its own is not marked as notified, after which nobody takes
\* it up again, unless the worker was told of it: not by the receipt of a wake that is
\* older than the message (finalizeHookPreferredMailboxDispatch), and not after a failure.
\* Except by one that waits for a wake that failed without the engine's knowledge and
\* came back, for which the message is taken as told (transitionDispatchRequest).
MarkedMeansTold ==
    [][\A m \in Message :
        mail[m] = "new" /\ mail'[m] = "notified" /\ (\E w \in Wake : of[w] = m) =>
            Awake \/ \E a \in Actor : req[a][m] \in back]_vars

\* In the end every message is acknowledged that has a wake and is still to be notified,
\* or whose wake was typed, also when the hook or the fallback cannot type at times
\* (finalizeHookPreferredMailboxDispatch, deliverPendingMailboxMessages).
Promised(m) == \E w \in Wake : of[w] = m /\ (mail[m] = "new" \/ wake[w] = "notified")
FreshDelivered == <>[](\A m \in Message : Promised(m) => mail[m] = "delivered")

\* src/CHANGELOG.md:83: "mailbox wakeups are coalesced and every wake is
\* acknowledged": a wake that was typed is settled in the end.
EveryWakeAcknowledged ==
    \A w \in Wake : wake[w] = "notified" ~> wake[w] \in {"delivered", "failed"}
==============================================================================
