---------------------------- MODULE RuntimeEngine ----------------------------
(* The runtime command `omx-runtime exec': each call is a process that takes  *)
(* a lock, loads the state from files, applies one command and writes the     *)
(* files again, one after the other; it may be killed at any point (the       *)
(* bridge kills it after a timeout).                                          *)
(* Source: src/crates/omx-runtime/src/main.rs (exec),                         *)
(* src/crates/omx-runtime-core/src/engine.rs (process, compact, persist,      *)
(* write_compatibility_view, load).                                           *)
EXTENDS DispatchLog, Naturals, Sequences

CONSTANTS
    Process,  \* calls of the command that run at the same time
    MaxKills, \* bound: how many of all calls are killed
    NoProcess

ASSUME ProcessAssumption == NoProcess \notin Process /\ MaxKills \in Nat

VARIABLES
    state,   \* of each file: "absent", "torn" (cut short) or "whole"
    ledger,  \* dispatch-seen.json: ids that may not be queued again
    events,  \* events.json, the log
    mailbox, \* mailbox.json
    view,    \* dispatch.json
    lock,    \* who holds runtime-mutation.lock
    pc,      \* 0 outside, else the next file to write
    cut,     \* that file has been truncated and not yet written
    mem,     \* the engine of each process
    kills,   \* calls killed so far
    kept, applied, acked  \* history: the log as last written, events applied, acknowledged

files == <<state, ledger, events, mailbox, view>>
history == <<kept, applied, acked>>
vars == <<files, lock, pc, cut, mem, kills, history>>

File == {"snapshot", "ledger", "events", "mailbox", "dispatch"}

\* Bug form: the mailbox is written before the log it is rebuilt from.
WritesMailFirst ==
    <<"snapshot", "ledger", "mailbox", "events", "dispatch", "dispatch", "mailbox">>
\* Bug form: the caller is told when the log is on disk.
WritesLogOnly == <<"snapshot", "ledger", "events">>
\* persist, then write_compatibility_view (whose other files nobody reads back).
Writes == <<"snapshot", "ledger", "events", "mailbox", "dispatch", "dispatch", "mailbox">>

Done == Len(Writes) + 1

NoMail == [m \in MessageId |-> "none"]
Statuses(log) == [id \in DispatchId |-> Status(log, id)]
Listed(v) == {id \in DispatchId : v[id] # "none"}

\* An engine: log, ledger and mailbox; the requests follow from the log.
\* `out' is what the caller will be told, none for the removal of records.
Fresh == [log |-> {}, seen |-> {}, mail |-> NoMail, out |-> {}]

\* Bug form: the ids are taken from the log, the ledger is not read.
LoadedFromLog ==
    [log  |-> events,
     seen |-> Queued(events),
     mail |-> IF state["mailbox"] = "whole" THEN mailbox ELSE MailOf(events),
     out  |-> {}]

\* RuntimeEngine::load
Loaded ==
    [log  |-> events,
     seen |-> ledger,
     mail |-> IF state["mailbox"] = "whole" THEN mailbox ELSE MailOf(events),
     out  |-> {}]

\* What load requires of the files.
Loadable ==
    /\ state["events"] = "whole" /\ state["ledger"] = "whole"
    /\ state["dispatch"] # "torn"
    /\ Queued(events) \subseteq ledger
    /\ state["dispatch"] = "whole" => Listed(view) \subseteq ledger

\* A directory that exec takes for a new one when load fails.
IsNew == \A f \in {"events", "snapshot", "mailbox"} : state[f] = "absent"

\* The caller starts with what load returned, or afresh in a directory without state.
Starts(engine) ==
    \/ Loadable /\ engine = Loaded
    \/ ~Loadable /\ IsNew /\ engine = Fresh

\* Bug form: an id is refused only as long as its record exists.
ProcessWithoutLedger(engine) ==
    {[engine EXCEPT !.log = @ \cup {e}, !.seen = @ \cup {e.id}, !.out = {e}] :
        e \in {e \in [kind: DispatchKind, id: DispatchId] : Accepts(engine.log, e)}}
\* RuntimeEngine::process, commands on requests: the engines that may result.
ProcessDispatch(engine) ==
    {[engine EXCEPT !.log = @ \cup {e}, !.seen = @ \cup {e.id}, !.out = {e}] :
        e \in {e \in [kind: DispatchKind, id: DispatchId] :
                /\ Accepts(engine.log, e)
                /\ e.kind = "queued" => e.id \notin engine.seen}}

ProcessMail(engine) ==
    {[engine EXCEPT !.log = @ \cup {e}, !.mail = MailAfter(@, e), !.out = {e}] :
        e \in {e \in [kind: MailKind, id: MessageId] : MailAccepts(engine.mail, e)}}

ProcessRemove(engine) ==
    {[engine EXCEPT !.log = Without(@, ids)] : ids \in SUBSET Queued(engine.log) \ {{}}}

Compacted(engine) == [engine EXCEPT !.log = Without(@, Settled(@))]

------------------------------------------------------------------------------
Init ==
    /\ state = [f \in File |-> "absent"]
    /\ ledger = {} /\ events = {} /\ mailbox = NoMail /\ view = Statuses({})
    /\ lock = NoProcess
    /\ pc = [p \in Process |-> 0]
    /\ cut = [p \in Process |-> FALSE]
    /\ mem = [p \in Process |-> Fresh]
    /\ kills = 0
    /\ kept = {} /\ applied = {} /\ acked = {}

\* The lock, load and process: nobody else writes meanwhile, nothing is written yet.
\* A command that is refused leaves everything as it is.
Begin(p) ==
    /\ pc[p] = 0
    /\ lock = NoProcess
    /\ \E engine \in {Loaded, Fresh} :
        /\ Starts(engine)
        /\ \E next \in ProcessDispatch(engine) \cup ProcessMail(engine) \cup ProcessRemove(engine) :
            mem' = [mem EXCEPT ![p] = next] \/ mem' = [mem EXCEPT ![p] = Compacted(next)]
    /\ lock' = p
    /\ pc' = [pc EXCEPT ![p] = 1]
    /\ UNCHANGED <<files, cut, kills, history>>

\* Bug form: the ledger is written in place as well.
TruncateAny(p) ==
    /\ pc[p] \in 1..Len(Writes) /\ ~cut[p]
    /\ state' = [state EXCEPT ![Writes[pc[p]]] = "torn"]
    /\ cut' = [cut EXCEPT ![p] = TRUE]
    /\ UNCHANGED <<ledger, events, mailbox, view, lock, pc, mem, kills, history>>
\* std::fs::write truncates before it writes; the ledger is renamed into place.
Truncate(p) ==
    /\ pc[p] \in 1..Len(Writes) /\ ~cut[p] /\ Writes[pc[p]] # "ledger"
    /\ state' = [state EXCEPT ![Writes[pc[p]]] = "torn"]
    /\ cut' = [cut EXCEPT ![p] = TRUE]
    /\ UNCHANGED <<ledger, events, mailbox, view, lock, pc, mem, kills, history>>

Write(p) ==
    /\ pc[p] \in 1..Len(Writes)
    /\ cut[p] \/ Writes[pc[p]] = "ledger"
    /\ state' = [state EXCEPT ![Writes[pc[p]]] = "whole"]
    /\ ledger' = IF Writes[pc[p]] = "ledger" THEN mem[p].seen ELSE ledger
    /\ mailbox' = IF Writes[pc[p]] = "mailbox" THEN mem[p].mail ELSE mailbox
    /\ view' = IF Writes[pc[p]] = "dispatch" THEN Statuses(mem[p].log) ELSE view
    /\ IF Writes[pc[p]] = "events"
       THEN /\ events' = mem[p].log
            /\ kept' = mem[p].log
            /\ applied' = applied \cup mem[p].out
       ELSE UNCHANGED <<events, kept, applied>>
    /\ pc' = [pc EXCEPT ![p] = @ + 1]
    /\ cut' = [cut EXCEPT ![p] = FALSE]
    /\ UNCHANGED <<lock, mem, kills, acked>>

\* The event is printed and the process ends, which releases the lock.
Reply(p) ==
    /\ pc[p] = Done
    /\ acked' = acked \cup mem[p].out
    /\ lock' = NoProcess
    /\ pc' = [pc EXCEPT ![p] = 0]
    /\ mem' = [mem EXCEPT ![p] = Fresh]
    /\ UNCHANGED <<files, cut, kills, kept, applied>>

\* The process is killed: the lock is released, the files stay as they are.
Kill(p) ==
    /\ pc[p] # 0
    /\ kills < MaxKills /\ kills' = kills + 1
    /\ lock' = NoProcess
    /\ pc' = [pc EXCEPT ![p] = 0]
    /\ cut' = [cut EXCEPT ![p] = FALSE]
    /\ mem' = [mem EXCEPT ![p] = Fresh]
    /\ UNCHANGED <<files, history>>

Next == \E p \in Process : Begin(p) \/ Truncate(p) \/ Write(p) \/ Reply(p) \/ Kill(p)

Spec == Init /\ [][Next]_vars

------------------------------------------------------------------------------
(* Type invariant *)
Engine ==
    [log: SUBSET Event, seen: SUBSET DispatchId, mail: [MessageId -> MailStatus],
     out: SUBSET Event]

TypeOK ==
    /\ state \in [File -> {"absent", "torn", "whole"}] /\ state["ledger"] # "torn"
    /\ ledger \subseteq DispatchId
    /\ events \subseteq Event
    /\ mailbox \in [MessageId -> MailStatus]
    /\ view \in [DispatchId -> {"none", "pending", "notified", "delivered", "failed"}]
    /\ lock \in Process \cup {NoProcess}
    /\ pc \in [Process -> 0..Done]
    /\ cut \in [Process -> BOOLEAN]
    /\ mem \in [Process -> Engine]
    /\ kills \in 0..MaxKills
    /\ kept \subseteq Event /\ applied \subseteq Event /\ acked \subseteq applied

------------------------------------------------------------------------------
(* Properties *)

\* A command whose caller was told that it was done is in every state that is
\* loaded afterwards, whatever was killed since: the record of a request has the
\* event as long as it exists, a message exists and keeps its delivery mark.
AcknowledgedKept ==
    Loadable =>
        /\ \A e \in acked : e.kind \in DispatchKind /\ e.id \in Queued(Loaded.log) => e \in Loaded.log
        /\ \A m \in MessageId :
            /\ E("created", m) \in acked => Loaded.mail[m] # "none"
            /\ E("mail_delivered", m) \in acked => Loaded.mail[m] = "delivered"

\* When the caller is told that its command was done, the two files that it reads
\* back say so: dispatch.json shows the requests as the log on disk replays to, and
\* mailbox.json has the message or mark, every earlier one that somebody was told,
\* and none that no command made.
ReplyIsVisible ==
    [][\A p \in Process :
        pc[p] = Done /\ pc'[p] = 0 /\ acked' # acked =>
            /\ state["dispatch"] = "whole" /\ view = Statuses(events)
            /\ state["mailbox"] = "whole" /\ Shows(mailbox, acked', applied)]_vars

\* No request is both delivered and failed, in the whole history of the engine: not
\* after its record was removed or compacted, and not by a command that was killed
\* and whose caller tries again.
OneOutcome ==
    \A id \in DispatchId : ~(E("delivered", id) \in applied /\ E("failed", id) \in applied)

\* The mailbox as the next command will load it.
Mail == IF state["mailbox"] = "whole" THEN mailbox ELSE MailOf(kept)

\* A killed command on a request has been applied completely or not at all, and an
\* accepted id is never accepted again: "A crash can conservatively retain extra IDs,
\* but can never make an accepted ID reusable"
\* (src/crates/omx-runtime-core/src/engine.rs:304). A command on a message that is
\* killed between events.json and mailbox.json is half applied: what is loaded later
\* may show it or not, but shows all that was told and nothing that was not done.
Atomic == INSTANCE AtomicRuntime WITH log <- kept, mail <- Mail
RefinesAtomic == Atomic!Spec
==============================================================================
