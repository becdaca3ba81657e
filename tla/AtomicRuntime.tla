---------------------------- MODULE AtomicRuntime ----------------------------
(* What a caller of the runtime engine may rely on: a command on a request is *)
(* applied in one step or not at all, whatever process dies, and only a       *)
(* command that was applied is acknowledged. A request id is accepted once    *)
(* and for ever. The mailbox lags behind its log: a command on a message that *)
(* was not acknowledged may show or not, and what shows may change.           *)
EXTENDS DispatchLog

VARIABLES
    log,      \* the events of the requests and messages that are on record
    mail,     \* the messages as a caller finds them
    applied,  \* all events ever applied
    acked     \* those whose caller was told so

vars == <<log, mail, applied, acked>>

Init ==
    /\ log = {} /\ applied = {} /\ acked = {}
    /\ mail = [m \in MessageId |-> "none"]

Recorded(e) ==
    /\ \/ log' = log \cup {e}
       \/ log' = Without(log \cup {e}, Settled(log \cup {e}))
    /\ applied' = applied \cup {e}
    /\ UNCHANGED acked

\* An event of a request, which moves forward only; an id is never queued twice.
Dispatch(e) ==
    /\ e.kind \in DispatchKind /\ e \notin applied
    /\ Accepts(log, e)
    /\ Recorded(e)
    /\ UNCHANGED mail

\* An event of a message, accepted by the mailbox as it shows.
Mail(e) ==
    /\ e.kind \in MailKind
    /\ MailAccepts(mail, e)
    /\ Recorded(e)
    /\ mail' \in [MessageId -> MailStatus]
    /\ Shows(mail', acked', applied')

\* What nobody was told yet appears, or disappears.
Show ==
    /\ mail' \in [MessageId -> MailStatus]
    /\ Shows(mail', acked, applied)
    /\ UNCHANGED <<log, applied, acked>>

\* Records are removed for good.
Remove ==
    /\ \E ids \in SUBSET Queued(log) :
        \/ log' = Without(log, ids)
        \/ log' = Without(Without(log, ids), Settled(Without(log, ids)))
    /\ UNCHANGED <<mail, applied, acked>>

\* A command is acknowledged when its effect shows.
Acknowledge ==
    /\ \E e \in applied : acked' = acked \cup {e}
    /\ Shows(mail, acked', applied)
    /\ UNCHANGED <<log, mail, applied>>

Next ==
    \/ \E e \in Event : Dispatch(e) \/ Mail(e)
    \/ Show
    \/ Remove
    \/ Acknowledge

Spec == Init /\ [][Next]_vars
==============================================================================
