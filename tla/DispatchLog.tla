----------------------------- MODULE DispatchLog -----------------------------
(* The event log of the runtime engine and the states its replay rebuilds:   *)
(* dispatch requests and mailbox messages.                                   *)
(* Source: src/crates/omx-runtime-core/src/{engine,dispatch,mailbox}.rs.      *)
(*                                                                           *)
(* An id is queued, notified, delivered or failed at most once in a log, and  *)
(* what is repeated for a message changes nothing, so a log is a set of       *)
(* events: a second record with the id of a message is never found again.     *)
CONSTANTS
    DispatchId,  \* request ids
    MessageId    \* mailbox message ids

DispatchKind == {"queued", "notified", "delivered", "failed"}
MailKind == {"created", "mail_notified", "mail_delivered"}

Event == [kind: DispatchKind, id: DispatchId] \cup [kind: MailKind, id: MessageId]

E(kind, id) == [kind |-> kind, id |-> id]

\* The requests a log knows, and their state in the order of their events.
Queued(log) == {id \in DispatchId : E("queued", id) \in log}

Status(log, id) ==
    IF id \notin Queued(log) THEN "none"
    ELSE IF E("failed", id) \in log THEN "failed"
    ELSE IF E("delivered", id) \in log THEN "delivered"
    ELSE IF E("notified", id) \in log THEN "notified"
    ELSE "pending"

\* DispatchLog::queue, mark_notified, mark_delivered, mark_failed: when they succeed.
Accepts(log, e) ==
    CASE e.kind = "notified"  -> Status(log, e.id) = "pending"
      [] e.kind = "delivered" -> Status(log, e.id) = "notified"
      [] e.kind = "failed"    -> Status(log, e.id) \in {"pending", "notified"}
      [] OTHER                -> Status(log, e.id) = "none"

\* The events of some requests are taken out of the log.
Without(log, ids) == {e \in log : e.kind \in DispatchKind => e.id \notin ids}

Settled(log) == {id \in DispatchId : Status(log, id) \in {"delivered", "failed"}}

\* The mailbox that a replay rebuilds; marks on unknown messages are ignored.
MailOf(log) ==
    [m \in MessageId |->
        IF E("created", m) \notin log THEN "none"
        ELSE IF E("mail_delivered", m) \in log THEN "delivered"
        ELSE IF E("mail_notified", m) \in log THEN "notified"
        ELSE "new"]

MailStatus == {"none", "new", "notified", "delivered"}

\* MailboxLog::create, mark_notified, mark_delivered: when they succeed, and the
\* result. Nothing refuses a message that exists already.
MailAccepts(mail, e) == e.kind # "created" => mail[e.id] \in {"new", "notified"}

MailAfter(mail, e) ==
    [mail EXCEPT ![e.id] =
        CASE e.kind = "created"        -> IF mail[e.id] = "none" THEN "new" ELSE mail[e.id]
          [] e.kind = "mail_notified"  -> "notified"
          [] e.kind = "mail_delivered" -> "delivered"]

\* A mailbox with every message and mark of told, and none that is not in done.
Shows(mail, told, done) ==
    \A m \in MessageId :
        /\ mail[m] # "none" => E("created", m) \in done
        /\ mail[m] = "notified" => E("mail_notified", m) \in done
        /\ mail[m] = "delivered" => E("mail_delivered", m) \in done
        /\ E("created", m) \in told => mail[m] # "none"
        /\ E("mail_notified", m) \in told => mail[m] \in {"notified", "delivered"}
        /\ E("mail_delivered", m) \in told => mail[m] = "delivered"
==============================================================================
