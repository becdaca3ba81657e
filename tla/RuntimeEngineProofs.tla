------------------------- MODULE RuntimeEngineProofs -------------------------
(* RuntimeEngine keeps its types and every acknowledged command, and          *)
(* implements AtomicRuntime, for any number of calls, requests and messages.  *)
EXTENDS RuntimeEngine, TLAPS

------------------------------------------------------------------------------
(* The inductive invariant *)

\* What is done to messages that exist.
Mark == {"mail_notified", "mail_delivered"}

\* What a command of an engine that was loaded from log may do.
Command(log, ap, engine) ==
    \/ \E e \in Event :
        /\ engine.out = {e}
        /\ e.kind \in DispatchKind => e \notin ap /\ Accepts(log, e)
        /\ e.kind \in Mark => E("created", e.id) \in ap
        /\ \/ engine.log = log \cup {e}
           \/ engine.log = Without(log \cup {e}, Settled(log \cup {e}))
    \/ /\ engine.out = {}
       /\ \E ids \in SUBSET Queued(log) :
            \/ engine.log = Without(log, ids)
            \/ engine.log = Without(Without(log, ids), Settled(Without(log, ids)))

\* Only the process that holds the lock is under way.
OneAtATime ==
    \A p \in Process :
        /\ pc[p] # 0 => lock = p
        /\ pc[p] = 0 => ~cut[p]
        /\ cut[p] => pc[p] \in 1..7

\* The log on disk is the log as last written, and nothing precedes the first one.
LogOnDisk ==
    /\ state["events"] = "whole" => events = kept
    /\ state["events"] = "absent" => kept = {} /\ applied = {}

\* What was applied to a request is in the log for as long as the request is;
\* what was applied to a message stays; every id that was queued is in the ledger.
History ==
    /\ kept \subseteq applied
    /\ Queued(applied) \subseteq ledger
    /\ \A e \in applied : e.kind \in DispatchKind =>
        e.id \in Queued(applied) /\ (e.id \in Queued(kept) => e \in kept)
    /\ \A e \in applied : e.kind \in MailKind => e \in kept
    /\ \A m \in MessageId, k \in Mark : E(k, m) \in applied => E("created", m) \in applied

\* The mailbox file shows all that was told, and nothing that was not done.
MailOnDisk == state["mailbox"] = "whole" => Shows(mailbox, acked, applied)

\* The engine of a process that is writing.
Writing ==
    \A p \in Process : pc[p] # 0 =>
        /\ pc[p] \in 1..3 =>
            /\ Command(kept, applied, mem[p])
            /\ \A e \in mem[p].out : e.kind \in MailKind => MailAccepts(Mail, e)
        /\ Queued(applied \cup mem[p].out) \subseteq mem[p].seen
        /\ pc[p] >= 3 => ledger = mem[p].seen
        /\ pc[p] >= 4 => /\ state["events"] = "whole"
                         /\ kept = mem[p].log /\ mem[p].out \subseteq applied
        /\ pc[p] >= 7 => state["dispatch"] = "whole" /\ view = Statuses(mem[p].log)
        /\ pc[p] = 8 => state["mailbox"] = "whole" /\ mailbox = mem[p].mail
        /\ Shows(mem[p].mail, acked \cup mem[p].out, applied \cup mem[p].out)
        /\ \A e, f \in mem[p].out : e = f

Inv == TypeOK /\ OneAtATime /\ LogOnDisk /\ History /\ MailOnDisk /\ Writing

------------------------------------------------------------------------------
(* Lemmas about logs *)

\* The order in which the files are written.
LEMMA WritesFact ==
    /\ Len(Writes) = 7 /\ Done = 8
    /\ \A i \in 1..7 : Writes[i] \in File
    /\ Writes[1] = "snapshot" /\ Writes[2] = "ledger" /\ Writes[3] = "events"
    /\ Writes[4] = "mailbox" /\ Writes[5] = "dispatch" /\ Writes[6] = "dispatch"
    /\ Writes[7] = "mailbox"
BY DEF Writes, Done, File

\* An event is made of its kind and its id.
LEMMA EventForm ==
    \A e \in Event : /\ e = E(e.kind, e.id)
                     /\ e.kind \in DispatchKind \cup MailKind
                     /\ e.kind \in DispatchKind => e.id \in DispatchId
                     /\ e.kind \in MailKind => e.id \in MessageId
                     /\ ~(e.kind \in DispatchKind /\ e.kind \in MailKind)
BY DEF Event, E, DispatchKind, MailKind

\* Taking out the events of some requests.
LEMMA WithoutFact ==
    ASSUME NEW log \in SUBSET Event, NEW ids \in SUBSET DispatchId
    PROVE  /\ Without(log, ids) \subseteq log
           /\ Queued(Without(log, ids)) = Queued(log) \ ids
           /\ \A e \in log : e.kind \in MailKind => e \in Without(log, ids)
           /\ \A e \in log : e.id \in Queued(Without(log, ids)) => e \in Without(log, ids)
<1>1. Without(log, ids) \subseteq log
  BY DEF Without
<1>2. Queued(Without(log, ids)) = Queued(log) \ ids
  BY DEF Without, Queued, E, DispatchKind
<1>3. \A e \in log : e.kind \in MailKind => e \in Without(log, ids)
  BY EventForm DEF Without
<1>4. \A e \in log : e.id \in Queued(Without(log, ids)) => e \in Without(log, ids)
  BY <1>2 DEF Without
<1> QED
  BY <1>1, <1>2, <1>3, <1>4

LEMMA SettledFact == ASSUME NEW log PROVE Settled(log) \subseteq DispatchId
BY DEF Settled

\* A mailbox shows all of a part of what was told, and nothing beyond more than was done.
LEMMA ShowsWeaker ==
    ASSUME NEW mail, NEW told, NEW done, NEW less, NEW more,
           Shows(mail, told, done), less \subseteq told, done \subseteq more
    PROVE  Shows(mail, less, more)
BY DEF Shows

\* What an engine that obeys Command has in its log.
LEMMA CommandLog ==
    ASSUME NEW log \in SUBSET Event, NEW ap \in SUBSET Event, NEW engine,
           Command(log, ap, engine), log \subseteq ap
    PROVE  /\ engine.out \subseteq Event
           /\ engine.log \subseteq log \cup engine.out
           /\ Queued(engine.log) \subseteq Queued(log \cup engine.out)
           /\ \A e \in log \cup engine.out : e.kind \in MailKind => e \in engine.log
           /\ \A e \in log \cup engine.out : e.id \in Queued(engine.log) => e \in engine.log
<1>1. CASE engine.out = {}
  <2>1. PICK ids \in SUBSET Queued(log) :
            \/ engine.log = Without(log, ids)
            \/ engine.log = Without(Without(log, ids), Settled(Without(log, ids)))
    BY <1>1 DEF Command
  <2>2. ids \in SUBSET DispatchId
    BY DEF Queued
  <2>3. Without(log, ids) \in SUBSET Event
    BY DEF Without
  <2>4. Settled(Without(log, ids)) \in SUBSET DispatchId
    BY SettledFact
  <2>5. CASE engine.log = Without(log, ids)
    BY <1>1, <2>2, <2>5, WithoutFact
  <2>6. CASE engine.log = Without(Without(log, ids), Settled(Without(log, ids)))
    <3> DEFINE L == Without(log, ids)
               S == Settled(L)
    <3>1. /\ L \subseteq log /\ Queued(L) = Queued(log) \ ids
          /\ \A e \in log : e.kind \in MailKind => e \in L
          /\ \A e \in log : e.id \in Queued(L) => e \in L
      BY <2>2, WithoutFact
    <3>2. L \in SUBSET Event /\ S \in SUBSET DispatchId
      BY <2>3, <2>4
    <3> HIDE DEF L, S
    <3>3. /\ Without(L, S) \subseteq L /\ Queued(Without(L, S)) = Queued(L) \ S
          /\ \A e \in L : e.kind \in MailKind => e \in Without(L, S)
          /\ \A e \in L : e.id \in Queued(Without(L, S)) => e \in Without(L, S)
      BY <3>2, WithoutFact
    <3>4. engine.log = Without(L, S)
      BY <2>6 DEF L, S
    <3> QED
      BY <1>1, <3>1, <3>3, <3>4
  <2> QED
    BY <2>1, <2>5, <2>6
<1>2. CASE engine.out # {}
  <2>1. PICK e \in Event :
            /\ engine.out = {e}
            /\ \/ engine.log = log \cup {e}
               \/ engine.log = Without(log \cup {e}, Settled(log \cup {e}))
    BY <1>2 DEF Command
  <2>2. log \cup {e} \in SUBSET Event /\ Settled(log \cup {e}) \in SUBSET DispatchId
    BY SettledFact
  <2>3. CASE engine.log = log \cup {e}
    BY <2>1, <2>3
  <2>4. CASE engine.log = Without(log \cup {e}, Settled(log \cup {e}))
    <3> DEFINE L == log \cup {e}
               S == Settled(L)
    <3>1. L \in SUBSET Event /\ S \in SUBSET DispatchId
      BY <2>2
    <3> HIDE DEF S
    <3>2. /\ Without(L, S) \subseteq L /\ Queued(Without(L, S)) = Queued(L) \ S
          /\ \A f \in L : f.kind \in MailKind => f \in Without(L, S)
          /\ \A f \in L : f.id \in Queued(Without(L, S)) => f \in Without(L, S)
      BY <3>1, WithoutFact
    <3>3. engine.log = Without(L, S) /\ L = log \cup engine.out
      BY <2>1, <2>4 DEF S
    <3> QED
      BY <2>1, <3>2, <3>3
  <2> QED
    BY <2>1, <2>3, <2>4
<1> QED
  BY <1>1, <1>2

\* Applying a command keeps the history consistent.
LEMMA CommandHistory ==
    ASSUME NEW log \in SUBSET Event, NEW ap \in SUBSET Event, NEW engine,
           Command(log, ap, engine), log \subseteq ap,
           \A e \in ap : e.kind \in DispatchKind =>
                e.id \in Queued(ap) /\ (e.id \in Queued(log) => e \in log),
           \A e \in ap : e.kind \in MailKind => e \in log,
           \A m \in MessageId, k \in Mark : E(k, m) \in ap => E("created", m) \in ap
    PROVE  LET after == ap \cup engine.out IN
           /\ engine.log \subseteq after
           /\ \A e \in after : e.kind \in DispatchKind =>
                e.id \in Queued(after) /\ (e.id \in Queued(engine.log) => e \in engine.log)
           /\ \A e \in after : e.kind \in MailKind => e \in engine.log
           /\ \A m \in MessageId, k \in Mark : E(k, m) \in after => E("created", m) \in after
<1> DEFINE after == ap \cup engine.out
<1>1. /\ engine.out \subseteq Event
      /\ engine.log \subseteq log \cup engine.out
      /\ Queued(engine.log) \subseteq Queued(log \cup engine.out)
      /\ \A e \in log \cup engine.out : e.kind \in MailKind => e \in engine.log
      /\ \A e \in log \cup engine.out : e.id \in Queued(engine.log) => e \in engine.log
  BY CommandLog
<1>2. engine.out = {} \/ \E e \in Event :
        /\ engine.out = {e}
        /\ e.kind \in DispatchKind => e \notin ap /\ Accepts(log, e)
        /\ e.kind \in Mark => E("created", e.id) \in ap
  BY DEF Command
<1>3. Queued(log) \subseteq Queued(ap) /\ Queued(ap) \subseteq Queued(after)
  BY DEF Queued
<1>4. ASSUME NEW e \in engine.out, e.kind \in DispatchKind
      PROVE  e.id \in Queued(after) /\ (e.kind # "queued" => e.id \in Queued(log))
  <2>1. e \in Event /\ Accepts(log, e)
    BY <1>2, <1>4, <1>1
  <2>2. CASE e.kind = "queued"
    <3>1. e = E("queued", e.id) /\ e.id \in DispatchId
      BY <2>1, <2>2, <1>4, EventForm
    <3> QED
      BY <3>1, <2>2 DEF Queued
  <2>3. CASE e.kind # "queued"
    <3>1. Status(log, e.id) # "none"
      BY <2>1, <2>3, <1>4 DEF Accepts, DispatchKind
    <3>2. e.id \in Queued(log)
      BY <3>1 DEF Status
    <3> QED
      BY <3>2, <1>3
  <2> QED
    BY <2>2, <2>3
<1>5. ASSUME NEW e \in after, e.kind \in DispatchKind
      PROVE  e.id \in Queued(after) /\ (e.id \in Queued(engine.log) => e \in engine.log)
  <2>1. e.id \in Queued(after)
    BY <1>3, <1>4, <1>5
  <2>2. ASSUME e.id \in Queued(engine.log) PROVE e \in engine.log
    <3>1. CASE e \in engine.out
      BY <1>1, <2>2, <3>1
    <3>2. CASE e \in ap /\ e.id \in Queued(log)
      <4>1. e \in log
        BY <3>2, <1>5
      <4> QED
        BY <4>1, <1>1, <2>2
    <3>3. CASE e \in ap /\ e.id \notin Queued(log)
      <4>1. e.id \in Queued(log \cup engine.out)
        BY <2>2, <1>1
      <4>2. E("queued", e.id) \in engine.out
        BY <4>1, <3>3 DEF Queued
      <4>3. E("queued", e.id) \in ap
        BY <3>3, <1>5 DEF Queued
      <4>4. E("queued", e.id).kind \in DispatchKind
        BY DEF E, DispatchKind
      <4> QED
        BY <4>2, <4>3, <4>4, <1>2
    <3> QED
      BY <3>1, <3>2, <3>3
  <2> QED
    BY <2>1, <2>2
<1>6. \A e \in after : e.kind \in MailKind => e \in engine.log
  BY <1>1
<1>7. \A m \in MessageId, k \in Mark : E(k, m) \in after => E("created", m) \in after
  <2>1. SUFFICES ASSUME NEW m \in MessageId, NEW k \in Mark, E(k, m) \in engine.out
                 PROVE  E("created", m) \in ap
    OBVIOUS
  <2>2. E(k, m).kind = k /\ E(k, m).id = m
    BY DEF E
  <2> QED
    BY <1>2, <2>1, <2>2
<1>8. engine.log \subseteq after
  BY <1>1
<1> QED
  BY <1>5, <1>6, <1>7, <1>8

------------------------------------------------------------------------------
(* Lemmas about commands *)

\* A request that was marked is no longer in the state that accepts the mark.
LEMMA AcceptedIsNew ==
    ASSUME NEW log \in SUBSET Event, NEW e \in Event, e.kind \in DispatchKind, Accepts(log, e)
    PROVE  e \notin log /\ (e.kind # "queued" => e.id \in Queued(log))
<1>1. e = E(e.kind, e.id) /\ e.id \in DispatchId
  BY EventForm
<1>2. CASE e.kind = "queued"
  BY <1>1, <1>2 DEF Accepts, Status, Queued
<1>3. CASE e.kind = "notified"
  BY <1>1, <1>3 DEF Accepts, Status
<1>4. CASE e.kind = "delivered"
  BY <1>1, <1>4 DEF Accepts, Status
<1>5. CASE e.kind = "failed"
  BY <1>1, <1>5 DEF Accepts, Status
<1> QED
  BY <1>2, <1>3, <1>4, <1>5 DEF DispatchKind

\* What an engine is like when it has been loaded.
StartOK(engine) ==
    /\ engine \in Engine /\ engine.out = {}
    /\ engine.log = kept
    /\ Queued(applied) \subseteq engine.seen
    /\ engine.mail = Mail /\ Shows(Mail, acked, applied)

\* A mailbox that is rebuilt from the log shows what was done.
LEMMA ReplayShows == ASSUME Inv PROVE Shows(MailOf(kept), acked, applied)
<1>1. SUFFICES ASSUME NEW m \in MessageId
               PROVE  /\ MailOf(kept)[m] # "none" => E("created", m) \in applied
                      /\ MailOf(kept)[m] = "notified" => E("mail_notified", m) \in applied
                      /\ MailOf(kept)[m] = "delivered" => E("mail_delivered", m) \in applied
                      /\ E("created", m) \in acked => MailOf(kept)[m] # "none"
                      /\ E("mail_notified", m) \in acked =>
                            MailOf(kept)[m] \in {"notified", "delivered"}
                      /\ E("mail_delivered", m) \in acked => MailOf(kept)[m] = "delivered"
  BY DEF Shows
<1>2. /\ E("created", m).kind \in MailKind
      /\ E("mail_notified", m).kind \in MailKind
      /\ E("mail_delivered", m).kind \in MailKind
  BY DEF E, MailKind
<1>3. kept \subseteq applied /\ acked \subseteq applied
  BY DEF Inv, History, TypeOK
<1>4. /\ E("created", m) \in applied => E("created", m) \in kept
      /\ E("mail_notified", m) \in applied => E("mail_notified", m) \in kept
      /\ E("mail_delivered", m) \in applied => E("mail_delivered", m) \in kept
      /\ E("mail_notified", m) \in applied => E("created", m) \in applied
      /\ E("mail_delivered", m) \in applied => E("created", m) \in applied
  BY <1>2 DEF Inv, History, Mark
<1>5. MailOf(kept)[m] = IF E("created", m) \notin kept THEN "none"
                        ELSE IF E("mail_delivered", m) \in kept THEN "delivered"
                        ELSE IF E("mail_notified", m) \in kept THEN "notified" ELSE "new"
  BY DEF MailOf
<1> QED
  BY <1>3, <1>4, <1>5

\* The next command loads a mailbox that shows what was done.
MailShown == Shows(Mail, acked, applied) /\ Mail \in [MessageId -> MailStatus]

LEMMA MailShows == Inv => MailShown
<1>1. MailOf(kept) \in [MessageId -> MailStatus]
  BY DEF MailOf, MailStatus
<1>2. Inv => mailbox \in [MessageId -> MailStatus]
  BY DEF Inv, TypeOK
<1> QED
  BY <1>1, <1>2, ReplayShows DEF Mail, Inv, MailOnDisk, MailShown

LEMMA MailShowsNext == Inv' => MailShown'
BY MailShows, PTL

\* Loading, or starting afresh, gives an engine with everything that was told.
LEMMA StartLemma ==
    ASSUME Inv, NEW engine, Starts(engine), engine \in {Loaded, Fresh}
    PROVE  StartOK(engine)
<1> USE DEF Inv
<1>1. kept \subseteq Event /\ applied \subseteq Event /\ acked \subseteq applied
  BY DEF TypeOK
<1>2. CASE Loadable /\ engine = Loaded
  <2>1. events = kept /\ Queued(applied) \subseteq ledger
    BY <1>2 DEF Loadable, LogOnDisk, History
  <2>2. engine.log = kept /\ engine.seen = ledger /\ engine.out = {}
    BY <1>2, <2>1 DEF Loaded
  <2>3. engine.mail = Mail
    BY <1>2, <2>1 DEF Loaded, Mail
  <2>4. engine \in Engine
    BY <1>2, <2>1, <2>3, MailShows DEF MailShown, Loaded, Engine, TypeOK
  <2> QED
    BY <2>1, <2>2, <2>3, <2>4, MailShows DEF MailShown, StartOK
<1>3. CASE ~Loadable /\ IsNew /\ engine = Fresh
  <2>1. state["events"] = "absent" /\ state["mailbox"] = "absent"
    BY <1>3 DEF IsNew
  <2>2. kept = {} /\ applied = {} /\ acked = {}
    BY <1>1, <2>1 DEF LogOnDisk
  <2>3. Queued(applied) = {}
    BY <2>2 DEF Queued
  <2>4. NoMail \in [MessageId -> MailStatus] /\ \A m \in MessageId : NoMail[m] = "none"
    BY DEF NoMail, MailStatus
  <2>6. Mail = NoMail
    BY <2>1, <2>2 DEF Mail, MailOf, NoMail
  <2>5. Fresh \in Engine /\ Fresh.out = {} /\ Fresh.log = {} /\ Fresh.seen = {} /\ Fresh.mail = NoMail
    BY <2>4 DEF Fresh, Engine
  <2> QED
    BY <1>3, <2>2, <2>3, <2>5, <2>6, MailShows DEF MailShown, StartOK
<1> QED
  BY <1>2, <1>3 DEF Starts

\* The part of Writing that speaks of a process before its first write.
WritesOK(engine) ==
    /\ engine \in Engine
    /\ Command(kept, applied, engine)
    /\ Queued(applied \cup engine.out) \subseteq engine.seen
    /\ \A e \in engine.out : e.kind \in MailKind => MailAccepts(Mail, e)
    /\ Shows(engine.mail, acked \cup engine.out, applied \cup engine.out)
    /\ \A e, f \in engine.out : e = f

\* Commands on requests.
LEMMA DispatchLemma ==
    ASSUME Inv, NEW engine, StartOK(engine), NEW next \in ProcessDispatch(engine)
    PROVE  WritesOK(next) /\ WritesOK(Compacted(next))
<1> USE DEF Inv
<1>1. PICK e \in [kind: DispatchKind, id: DispatchId] :
        /\ next = [engine EXCEPT !.log = @ \cup {e}, !.seen = @ \cup {e.id}, !.out = {e}]
        /\ Accepts(engine.log, e) /\ (e.kind = "queued" => e.id \notin engine.seen)
  BY DEF ProcessDispatch
<1>2. e \in Event /\ e.kind \in DispatchKind /\ e.id \in DispatchId /\ e = E(e.kind, e.id)
  BY DEF Event, E
<1>3. engine \in Engine /\ engine.log = kept /\ Queued(applied) \subseteq engine.seen
  BY DEF StartOK
<1>4. /\ next \in Engine /\ next.out = {e} /\ next.log = kept \cup {e}
      /\ next.seen = engine.seen \cup {e.id} /\ next.mail = engine.mail
  BY <1>1, <1>2, <1>3 DEF Engine
<1>5. kept \in SUBSET Event /\ applied \in SUBSET Event
  BY DEF TypeOK
<1>6. e \notin applied /\ Accepts(kept, e)
  <2>1. e \notin kept /\ (e.kind # "queued" => e.id \in Queued(kept)) /\ Accepts(kept, e)
    BY <1>1, <1>2, <1>3, <1>5, AcceptedIsNew
  <2>2. CASE e.kind = "queued"
    BY <1>1, <1>2, <1>3, <2>2 DEF Queued
  <2>3. CASE e.kind # "queued"
    BY <1>2, <2>1, <2>3 DEF History
  <2> QED
    BY <2>1, <2>2, <2>3
<1>7. Queued(applied \cup {e}) \subseteq engine.seen \cup {e.id}
  BY <1>3, <1>2 DEF Queued, E
<1>8. Shows(engine.mail, acked \cup {e}, applied \cup {e})
  <2>1. \A m \in MessageId, k \in MailKind : E(k, m) # e
    BY <1>2 DEF E, DispatchKind, MailKind
  <2>2. Shows(engine.mail, acked, applied)
    BY DEF StartOK
  <2> QED
    BY <2>1, <2>2 DEF Shows, MailKind
<1>9. e.kind \notin Mark /\ e.kind \notin MailKind
  BY <1>2 DEF DispatchKind, Mark, MailKind
<1>10. WritesOK(next)
  BY <1>2, <1>4, <1>6, <1>7, <1>8, <1>9 DEF WritesOK, Command
<1>11. /\ Compacted(next).log = Without(kept \cup {e}, Settled(kept \cup {e}))
       /\ Compacted(next).out = {e} /\ Compacted(next).seen = next.seen
       /\ Compacted(next).mail = next.mail
  BY <1>4 DEF Compacted, Engine
<1>12. Compacted(next) \in Engine
  <2>1. Without(next.log, Settled(next.log)) \in SUBSET Event
    BY <1>4 DEF Without, Engine
  <2> QED
    BY <1>4, <2>1 DEF Compacted, Engine
<1> QED
  BY <1>2, <1>4, <1>6, <1>7, <1>8, <1>9, <1>10, <1>11, <1>12 DEF WritesOK, Command

\* Commands on messages.
LEMMA MailLemma ==
    ASSUME Inv, NEW engine, StartOK(engine), NEW next \in ProcessMail(engine)
    PROVE  WritesOK(next) /\ WritesOK(Compacted(next))
<1> USE DEF Inv
<1>1. PICK e \in [kind: MailKind, id: MessageId] :
        /\ next = [engine EXCEPT !.log = @ \cup {e}, !.mail = MailAfter(@, e), !.out = {e}]
        /\ MailAccepts(engine.mail, e)
  BY DEF ProcessMail
<1>2. e \in Event /\ e.kind \in MailKind /\ e.id \in MessageId /\ e = E(e.kind, e.id)
  BY DEF Event, E
<1>3. engine \in Engine /\ engine.log = kept /\ Queued(applied) \subseteq engine.seen
  BY DEF StartOK
<1>4. engine.mail \in [MessageId -> MailStatus]
  BY <1>3 DEF Engine
<1> DEFINE to == CASE e.kind = "created"        -> IF engine.mail[e.id] = "none" THEN "new"
                                                  ELSE engine.mail[e.id]
                   [] e.kind = "mail_notified"  -> "notified"
                   [] e.kind = "mail_delivered" -> "delivered"
<1>5. /\ to \in MailStatus /\ to # "none"
      /\ e.kind = "mail_notified" => to = "notified"
      /\ e.kind = "mail_delivered" => to = "delivered"
      /\ e.kind = "created" => \/ to = "new" /\ engine.mail[e.id] = "none"
                               \/ to = engine.mail[e.id]
  BY <1>2, <1>4 DEF MailKind, MailStatus
<1>6. MailAfter(engine.mail, e) = [engine.mail EXCEPT ![e.id] = to]
  BY DEF MailAfter
<1> HIDE DEF to
<1>7. MailAfter(engine.mail, e) \in [MessageId -> MailStatus]
  BY <1>4, <1>5, <1>6
<1>8. /\ next \in Engine /\ next.out = {e} /\ next.log = kept \cup {e}
      /\ next.seen = engine.seen /\ next.mail = [engine.mail EXCEPT ![e.id] = to]
  BY <1>1, <1>2, <1>3, <1>6, <1>7 DEF Engine
<1>9. e.kind \notin DispatchKind
  BY <1>2 DEF MailKind, DispatchKind
<1>10. Queued(applied \cup {e}) \subseteq engine.seen
  BY <1>3, <1>9 DEF Queued, E, DispatchKind
<1>11. e.kind # "created" => engine.mail[e.id] \in {"new", "notified"}
  BY <1>1 DEF MailAccepts
<1>12. Shows(engine.mail, acked, applied) /\ MailAccepts(Mail, e)
  BY <1>1 DEF StartOK
<1>16. e.kind # "created" => E("created", e.id) \in applied
  BY <1>2, <1>11, <1>12 DEF Shows
<1>13. Shows(next.mail, acked \cup {e}, applied \cup {e})
  <2> SUFFICES ASSUME NEW m \in MessageId
               PROVE  /\ next.mail[m] # "none" => E("created", m) \in applied \cup {e}
                      /\ next.mail[m] = "notified" => E("mail_notified", m) \in applied \cup {e}
                      /\ next.mail[m] = "delivered" => E("mail_delivered", m) \in applied \cup {e}
                      /\ E("created", m) \in acked \cup {e} => next.mail[m] # "none"
                      /\ E("mail_notified", m) \in acked \cup {e} =>
                            next.mail[m] \in {"notified", "delivered"}
                      /\ E("mail_delivered", m) \in acked \cup {e} => next.mail[m] = "delivered"
    BY DEF Shows
  <2>1. /\ engine.mail[m] # "none" => E("created", m) \in applied
        /\ engine.mail[m] = "notified" => E("mail_notified", m) \in applied
        /\ engine.mail[m] = "delivered" => E("mail_delivered", m) \in applied
        /\ E("created", m) \in acked => engine.mail[m] # "none"
        /\ E("mail_notified", m) \in acked => engine.mail[m] \in {"notified", "delivered"}
        /\ E("mail_delivered", m) \in acked => engine.mail[m] = "delivered"
    BY <1>12 DEF Shows
  <2>2. CASE m = e.id
    <3>1. next.mail[m] = to
      BY <1>2, <1>4, <1>8, <2>2
    <3>2. CASE e.kind = "created"
      <4>1. /\ E("created", m) = e
            /\ E("mail_notified", m) # e /\ E("mail_delivered", m) # e
        BY <1>2, <2>2, <3>2 DEF E
      <4> QED
        BY <1>5, <2>1, <2>2, <3>1, <3>2, <4>1
    <3>3. CASE e.kind = "mail_notified"
      <4>1. /\ E("mail_notified", m) = e
            /\ E("created", m) # e /\ E("mail_delivered", m) # e
        BY <1>2, <2>2, <3>3 DEF E
      <4> QED
        BY <1>5, <1>11, <1>16, <2>1, <2>2, <3>1, <3>3, <4>1
    <3>4. CASE e.kind = "mail_delivered"
      <4>1. /\ E("mail_delivered", m) = e
            /\ E("created", m) # e /\ E("mail_notified", m) # e
        BY <1>2, <2>2, <3>4 DEF E
      <4> QED
        BY <1>5, <1>11, <1>16, <2>1, <2>2, <3>1, <3>4, <4>1
    <3> QED
      BY <1>2, <3>2, <3>3, <3>4 DEF MailKind
  <2>3. CASE m # e.id
    <3>1. next.mail[m] = engine.mail[m]
      BY <1>4, <1>8, <2>3
    <3>2. \A k : E(k, m) # e
      BY <2>3 DEF E
    <3> QED
      BY <2>1, <3>1, <3>2
  <2> QED
    BY <2>2, <2>3
<1>14. WritesOK(next)
  BY <1>2, <1>8, <1>9, <1>10, <1>12, <1>13, <1>16 DEF WritesOK, Command, Mark
<1>15. /\ Compacted(next).log = Without(kept \cup {e}, Settled(kept \cup {e}))
       /\ Compacted(next).out = {e} /\ Compacted(next).seen = next.seen
       /\ Compacted(next).mail = next.mail
  BY <1>8 DEF Compacted, Engine
<1>17. Compacted(next) \in Engine
  <2>1. Without(next.log, Settled(next.log)) \in SUBSET Event
    BY <1>8 DEF Without, Engine
  <2> QED
    BY <1>8, <2>1 DEF Compacted, Engine
<1> QED
  BY <1>2, <1>8, <1>9, <1>10, <1>12, <1>13, <1>14, <1>15, <1>16, <1>17
  DEF WritesOK, Command, Mark

\* The removal of records.
LEMMA RemoveLemma ==
    ASSUME Inv, NEW engine, StartOK(engine), NEW next \in ProcessRemove(engine)
    PROVE  WritesOK(next) /\ WritesOK(Compacted(next))
<1> USE DEF Inv
<1>1. PICK ids \in SUBSET Queued(engine.log) : next = [engine EXCEPT !.log = Without(@, ids)]
  BY DEF ProcessRemove
<1>2. engine \in Engine /\ engine.log = kept /\ engine.out = {}
  BY DEF StartOK
<1>3. Without(kept, ids) \in SUBSET Event
  BY <1>2 DEF Without, Engine
<1>4. /\ next \in Engine /\ next.out = {} /\ next.log = Without(kept, ids)
      /\ next.seen = engine.seen /\ next.mail = engine.mail
  BY <1>1, <1>2, <1>3 DEF Engine
<1>5. ids \in SUBSET Queued(kept)
  BY <1>1, <1>2
<1>6. Queued(applied \cup next.out) \subseteq engine.seen
  BY <1>4 DEF StartOK
<1>12. Shows(engine.mail, acked \cup {}, applied \cup {})
  <2>1. acked \cup {} = acked /\ applied \cup {} = applied
    OBVIOUS
  <2> QED BY <2>1 DEF StartOK
<1>7. WritesOK(next)
  BY <1>4, <1>5, <1>6, <1>12 DEF WritesOK, Command
<1> DEFINE L == Without(kept, ids)
<1>8. Without(L, Settled(L)) \in SUBSET Event
  BY <1>3 DEF Without
<1>9. /\ Compacted(next) \in Engine /\ Compacted(next).out = {}
      /\ Compacted(next).log = Without(L, Settled(L))
      /\ Compacted(next).seen = engine.seen /\ Compacted(next).mail = engine.mail
  BY <1>4, <1>8 DEF Compacted, Engine
<1>10. Command(kept, applied, Compacted(next))
  BY <1>5, <1>9 DEF Command
<1>11. Queued(applied \cup Compacted(next).out) \subseteq Compacted(next).seen
  BY <1>4, <1>6, <1>9
<1> QED
  BY <1>7, <1>9, <1>10, <1>11, <1>12 DEF WritesOK

------------------------------------------------------------------------------
(* The invariant holds *)

LEMMA InitInv == Init => Inv
<1> SUFFICES ASSUME Init PROVE Inv
  OBVIOUS
<1> USE DEF Init
<1>1. TypeOK
  <2>1. Fresh \in Engine
    BY DEF Fresh, Engine, NoMail, MailStatus
  <2>2. Statuses({}) \in [DispatchId -> {"none", "pending", "notified", "delivered", "failed"}]
    BY DEF Statuses, Status
  <2>3. NoMail \in [MessageId -> MailStatus]
    BY DEF NoMail, MailStatus
  <2> QED
    BY <2>1, <2>2, <2>3, WritesFact, ProcessAssumption DEF TypeOK, File
<1>2. OneAtATime /\ LogOnDisk /\ Writing
  BY DEF OneAtATime, LogOnDisk, Writing
<1>3. History
  BY DEF History, Queued
<1>4. MailOnDisk
  BY DEF MailOnDisk, File
<1> QED
  BY <1>1, <1>2, <1>3, <1>4 DEF Inv

LEMMA BeginInv == ASSUME Inv, NEW p \in Process, Begin(p) PROVE Inv'
<1> USE DEF Inv
<1>1. PICK engine \in {Loaded, Fresh} :
        /\ Starts(engine)
        /\ \E next \in ProcessDispatch(engine) \cup ProcessMail(engine) \cup ProcessRemove(engine) :
            mem' = [mem EXCEPT ![p] = next] \/ mem' = [mem EXCEPT ![p] = Compacted(next)]
  BY DEF Begin
<1>2. StartOK(engine)
  BY <1>1, StartLemma
<1>3. PICK new : WritesOK(new) /\ mem' = [mem EXCEPT ![p] = new]
  BY <1>1, <1>2, DispatchLemma, MailLemma, RemoveLemma
<1>4. /\ pc[p] = 0 /\ lock = NoProcess /\ lock' = p /\ pc' = [pc EXCEPT ![p] = 1]
      /\ UNCHANGED <<state, ledger, events, mailbox, view, cut, kills, kept, applied, acked>>
  BY DEF Begin, files, history
<1>5. mem \in [Process -> Engine] /\ pc \in [Process -> 0..8] /\ new \in Engine
  BY <1>3, WritesFact DEF TypeOK, WritesOK
<1>6. \A q \in Process : pc[q] = 0
  BY <1>4, ProcessAssumption DEF OneAtATime
<1>7. TypeOK'
  BY <1>3, <1>4, <1>5, WritesFact DEF TypeOK
<1>8. OneAtATime'
  BY <1>4, <1>5, <1>6 DEF OneAtATime
<1>9. LogOnDisk' /\ History' /\ MailOnDisk'
  BY <1>4 DEF LogOnDisk, History, MailOnDisk
<1>10. Writing'
  <2>1. ASSUME NEW q \in Process, pc'[q] # 0
        PROVE  q = p /\ pc'[q] = 1 /\ mem'[q] = new
    BY <1>3, <1>4, <1>5, <1>6, <2>1
  <2>2. Mail' = Mail
    BY <1>4 DEF Mail
  <2>3. /\ kept' = kept /\ applied' = applied /\ acked' = acked
        /\ \A q \in Process : pc'[q] # 0 => pc'[q] = 1 /\ mem'[q] = new
    BY <1>4, <2>1
  <2>4. /\ Command(kept', applied', new) /\ Queued(applied' \cup new.out) \subseteq new.seen
        /\ \A e \in new.out : e.kind \in MailKind => MailAccepts(Mail', e)
        /\ Shows(new.mail, acked' \cup new.out, applied' \cup new.out)
        /\ \A e, f \in new.out : e = f
    BY <1>3, <2>2, <2>3 DEF WritesOK
  <2> QED
    BY <2>3, <2>4 DEF Writing
<1> QED
  BY <1>7, <1>8, <1>9, <1>10

LEMMA TruncateInv == ASSUME Inv, NEW p \in Process, Truncate(p) PROVE Inv'
<1> USE DEF Inv
<1>1. /\ pc[p] \in 1..7 /\ ~cut[p] /\ Writes[pc[p]] # "ledger"
      /\ state' = [state EXCEPT ![Writes[pc[p]]] = "torn"]
      /\ cut' = [cut EXCEPT ![p] = TRUE]
      /\ UNCHANGED <<ledger, events, mailbox, view, lock, pc, mem, kills, kept, applied, acked>>
  BY WritesFact DEF Truncate, history
<1>2. /\ state \in [File -> {"absent", "torn", "whole"}]
      /\ cut \in [Process -> BOOLEAN] /\ Writes[pc[p]] \in File
  BY <1>1, WritesFact DEF TypeOK
<1>3. TypeOK'
  BY <1>1, <1>2 DEF TypeOK, File
<1>4. OneAtATime'
  BY <1>1, <1>2 DEF OneAtATime
<1>5. \A f \in File : state'[f] = state[f] \/ (f = Writes[pc[p]] /\ state'[f] = "torn")
  BY <1>1, <1>2
<1>6. LogOnDisk' /\ History' /\ MailOnDisk'
  BY <1>1, <1>5 DEF LogOnDisk, History, MailOnDisk, File
<1>7. Writing'
  <2>1. SUFFICES ASSUME NEW q \in Process, pc[q] # 0
                 PROVE  /\ pc[q] \in 1..3 => state'["mailbox"] = state["mailbox"]
                        /\ pc[q] >= 4 => state'["events"] = "whole"
                        /\ pc[q] >= 7 => state'["dispatch"] = "whole"
                        /\ pc[q] = 8 => state'["mailbox"] = "whole"
    BY <1>1 DEF Writing, Statuses, Mail
  <2>2. q = p
    BY <1>1, <2>1 DEF OneAtATime
  <2>3. /\ pc[q] >= 4 => state["events"] = "whole" /\ Writes[pc[p]] # "events"
        /\ pc[q] >= 7 => state["dispatch"] = "whole" /\ Writes[pc[p]] # "dispatch"
        /\ pc[q] # 8
        /\ pc[q] \in 1..3 => Writes[pc[p]] # "mailbox"
    <3>1. pc[p] \in {1, 2, 3, 4, 5, 6, 7}
      BY <1>1
    <3>2. /\ pc[p] >= 4 => Writes[pc[p]] # "events"
          /\ pc[p] >= 7 => Writes[pc[p]] # "dispatch"
          /\ pc[p] \in 1..3 => Writes[pc[p]] # "mailbox"
      BY <3>1, WritesFact
    <3>3. /\ pc[p] >= 4 => state["events"] = "whole"
          /\ pc[p] >= 7 => state["dispatch"] = "whole"
      BY <2>1, <2>2 DEF Writing
    <3> QED
      BY <1>1, <2>2, <3>2, <3>3
  <2> QED
    BY <1>5, <2>3 DEF File
<1> QED
  BY <1>3, <1>4, <1>6, <1>7

LEMMA ReplyInv == ASSUME Inv, NEW p \in Process, Reply(p) PROVE Inv'
<1> USE DEF Inv
<1>1. /\ pc[p] = 8 /\ acked' = acked \cup mem[p].out /\ lock' = NoProcess
      /\ pc' = [pc EXCEPT ![p] = 0] /\ mem' = [mem EXCEPT ![p] = Fresh]
      /\ UNCHANGED <<state, ledger, events, mailbox, view, cut, kills, kept, applied>>
  BY WritesFact DEF Reply, files
<1>2. /\ mem \in [Process -> Engine] /\ pc \in [Process -> 0..8]
      /\ cut \in [Process -> BOOLEAN] /\ Fresh \in Engine
  BY WritesFact DEF TypeOK, Fresh, Engine, NoMail, MailStatus
<1>3. /\ mem[p].out \subseteq applied
      /\ state["mailbox"] = "whole" /\ mailbox = mem[p].mail
      /\ Shows(mem[p].mail, acked \cup mem[p].out, applied \cup mem[p].out)
  <2>1. pc[p] # 0 /\ pc[p] >= 4 /\ pc[p] = 8
    BY <1>1
  <2> QED
    BY <2>1 DEF Writing
<1>4. TypeOK'
  BY <1>1, <1>2, <1>3, WritesFact DEF TypeOK
<1>5. \A q \in Process : pc'[q] = 0
  BY <1>1, <1>2 DEF OneAtATime
<1>6. OneAtATime' /\ Writing'
  BY <1>1, <1>2, <1>5 DEF OneAtATime, Writing
<1>7. LogOnDisk' /\ History'
  BY <1>1 DEF LogOnDisk, History
<1>8. MailOnDisk'
  <2>1. applied \cup mem[p].out = applied
    BY <1>3
  <2> QED
    BY <1>1, <1>3, <2>1 DEF MailOnDisk
<1> QED
  BY <1>4, <1>6, <1>7, <1>8

LEMMA KillInv == ASSUME Inv, NEW p \in Process, Kill(p) PROVE Inv'
<1> USE DEF Inv
<1>1. /\ pc[p] # 0 /\ lock' = NoProcess /\ kills < MaxKills /\ kills' = kills + 1
      /\ pc' = [pc EXCEPT ![p] = 0] /\ mem' = [mem EXCEPT ![p] = Fresh]
      /\ cut' = [cut EXCEPT ![p] = FALSE]
      /\ UNCHANGED <<state, ledger, events, mailbox, view, kept, applied, acked>>
  BY DEF Kill, files, history
<1>2. /\ mem \in [Process -> Engine] /\ pc \in [Process -> 0..8]
      /\ cut \in [Process -> BOOLEAN] /\ Fresh \in Engine /\ kills' \in 0..MaxKills
  BY <1>1, WritesFact, ProcessAssumption DEF TypeOK, Fresh, Engine, NoMail, MailStatus
<1>3. TypeOK'
  BY <1>1, <1>2, WritesFact DEF TypeOK
<1>4. \A q \in Process : pc'[q] = 0
  BY <1>1, <1>2 DEF OneAtATime
<1>5. OneAtATime' /\ Writing'
  BY <1>1, <1>2, <1>4 DEF OneAtATime, Writing
<1>6. LogOnDisk' /\ History' /\ MailOnDisk'
  BY <1>1 DEF LogOnDisk, History, MailOnDisk
<1> QED
  BY <1>3, <1>5, <1>6

\* What a write does, file by file.
LEMMA WriteEffect ==
    ASSUME Inv, NEW p \in Process, Write(p)
    PROVE  /\ pc[p] \in {1, 2, 3, 4, 5, 6, 7} /\ lock = p
           /\ pc' = [pc EXCEPT ![p] = pc[p] + 1] /\ cut' = [cut EXCEPT ![p] = FALSE]
           /\ state' = [state EXCEPT ![Writes[pc[p]]] = "whole"] /\ Writes[pc[p]] \in File
           /\ ledger' = IF pc[p] = 2 THEN mem[p].seen ELSE ledger
           /\ events' = IF pc[p] = 3 THEN mem[p].log ELSE events
           /\ kept' = IF pc[p] = 3 THEN mem[p].log ELSE kept
           /\ applied' = IF pc[p] = 3 THEN applied \cup mem[p].out ELSE applied
           /\ mailbox' = IF pc[p] \in {4, 7} THEN mem[p].mail ELSE mailbox
           /\ view' = IF pc[p] \in {5, 6} THEN Statuses(mem[p].log) ELSE view
           /\ UNCHANGED <<lock, mem, kills, acked>>
<1>1. pc[p] \in {1, 2, 3, 4, 5, 6, 7}
  BY WritesFact DEF Write
<1>2. lock = p
  BY <1>1 DEF Inv, OneAtATime
<1>3. /\ Writes[pc[p]] \in File
      /\ Writes[pc[p]] = "ledger" <=> pc[p] = 2
      /\ Writes[pc[p]] = "events" <=> pc[p] = 3
      /\ Writes[pc[p]] = "mailbox" <=> pc[p] \in {4, 7}
      /\ Writes[pc[p]] = "dispatch" <=> pc[p] \in {5, 6}
  BY <1>1, WritesFact
<1> QED
  BY <1>1, <1>2, <1>3 DEF Write

LEMMA WriteInv == ASSUME Inv, NEW p \in Process, Write(p) PROVE Inv'
<1> USE DEF Inv
<1>1. /\ pc[p] \in {1, 2, 3, 4, 5, 6, 7} /\ lock = p
      /\ pc' = [pc EXCEPT ![p] = pc[p] + 1] /\ cut' = [cut EXCEPT ![p] = FALSE]
      /\ state' = [state EXCEPT ![Writes[pc[p]]] = "whole"] /\ Writes[pc[p]] \in File
      /\ ledger' = IF pc[p] = 2 THEN mem[p].seen ELSE ledger
      /\ events' = IF pc[p] = 3 THEN mem[p].log ELSE events
      /\ kept' = IF pc[p] = 3 THEN mem[p].log ELSE kept
      /\ applied' = IF pc[p] = 3 THEN applied \cup mem[p].out ELSE applied
      /\ mailbox' = IF pc[p] \in {4, 7} THEN mem[p].mail ELSE mailbox
      /\ view' = IF pc[p] \in {5, 6} THEN Statuses(mem[p].log) ELSE view
      /\ UNCHANGED <<lock, mem, kills, acked>>
  BY WriteEffect
<1>2. /\ mem \in [Process -> Engine] /\ pc \in [Process -> 0..8]
      /\ cut \in [Process -> BOOLEAN] /\ state \in [File -> {"absent", "torn", "whole"}]
      /\ kept \in SUBSET Event /\ applied \in SUBSET Event
  BY WritesFact DEF TypeOK
<1>3. /\ mem[p].log \in SUBSET Event /\ mem[p].seen \in SUBSET DispatchId
      /\ mem[p].mail \in [MessageId -> MailStatus] /\ mem[p].out \in SUBSET Event
  BY <1>2 DEF Engine
<1>4. \A q \in Process : q # p => pc[q] = 0 /\ pc'[q] = 0
  BY <1>1, <1>2 DEF OneAtATime
<1>5. pc'[p] = pc[p] + 1 /\ pc'[p] \in {2, 3, 4, 5, 6, 7, 8} /\ pc' \in [Process -> 0..8]
  BY <1>1, <1>2
<1>6. \A f \in File : state'[f] = IF f = Writes[pc[p]] THEN "whole" ELSE state[f]
  BY <1>1, <1>2
<1>7. /\ pc[p] # 0
      /\ pc[p] \in 1..3 => Command(kept, applied, mem[p])
      /\ Queued(applied \cup mem[p].out) \subseteq mem[p].seen
      /\ pc[p] >= 3 => ledger = mem[p].seen
      /\ pc[p] >= 4 => /\ state["events"] = "whole"
                       /\ kept = mem[p].log /\ mem[p].out \subseteq applied
      /\ pc[p] >= 7 => state["dispatch"] = "whole" /\ view = Statuses(mem[p].log)
      /\ Shows(mem[p].mail, acked \cup mem[p].out, applied \cup mem[p].out)
      /\ pc[p] \in 1..3 => \A e \in mem[p].out : e.kind \in MailKind => MailAccepts(Mail, e)
      /\ \A e, f \in mem[p].out : e = f
  <2>1. pc[p] # 0
    BY <1>1
  <2> QED
    BY <2>1 DEF Writing
<1>8. TypeOK'
  <2>1. Statuses(mem[p].log) \in [DispatchId -> {"none", "pending", "notified", "delivered", "failed"}]
    BY DEF Statuses, Status
  <2>2. state' \in [File -> {"absent", "torn", "whole"}] /\ state'["ledger"] # "torn"
    BY <1>1, <1>2, <1>6 DEF TypeOK, File
  <2>3. /\ ledger' \subseteq DispatchId /\ events' \subseteq Event
        /\ mailbox' \in [MessageId -> MailStatus]
        /\ kept' \subseteq Event /\ applied' \subseteq Event /\ acked' \subseteq applied'
    BY <1>1, <1>3 DEF TypeOK
  <2>4. view' \in [DispatchId -> {"none", "pending", "notified", "delivered", "failed"}]
    BY <1>1, <2>1 DEF TypeOK
  <2>5. /\ lock' \in Process \cup {NoProcess} /\ pc' \in [Process -> 0..Done]
        /\ cut' \in [Process -> BOOLEAN] /\ mem' \in [Process -> Engine] /\ kills' \in 0..MaxKills
    BY <1>1, <1>2, <1>5, WritesFact DEF TypeOK
  <2> QED
    BY <2>2, <2>3, <2>4, <2>5 DEF TypeOK
<1>9. OneAtATime'
  BY <1>1, <1>2, <1>4 DEF OneAtATime
<1>10. LogOnDisk'
  <2>1. CASE pc[p] = 3
    <3>1. state'["events"] = "whole"
      BY <1>6, <2>1, WritesFact DEF File
    <3> QED
      BY <1>1, <2>1, <3>1 DEF LogOnDisk
  <2>2. CASE pc[p] # 3
    <3>1. Writes[pc[p]] # "events"
      BY <1>1, <2>2, WritesFact
    <3>2. state'["events"] = state["events"]
      BY <1>6, <3>1 DEF File
    <3> QED
      BY <1>1, <2>2, <3>2 DEF LogOnDisk
  <2> QED
    BY <2>1, <2>2
<1>11. History'
  <2>1. CASE pc[p] = 3
    <3>1. Command(kept, applied, mem[p]) /\ ledger' = mem[p].seen
      BY <1>1, <1>7, <2>1
    <3>2. /\ mem[p].log \subseteq applied \cup mem[p].out
          /\ \A e \in applied \cup mem[p].out : e.kind \in DispatchKind =>
                /\ e.id \in Queued(applied \cup mem[p].out)
                /\ (e.id \in Queued(mem[p].log) => e \in mem[p].log)
          /\ \A e \in applied \cup mem[p].out : e.kind \in MailKind => e \in mem[p].log
          /\ \A m \in MessageId, k \in Mark : E(k, m) \in applied \cup mem[p].out
                => E("created", m) \in applied \cup mem[p].out
      BY <1>2, <3>1, CommandHistory DEF History
    <3> QED
      BY <1>1, <1>7, <2>1, <3>1, <3>2 DEF History
  <2>2. CASE pc[p] # 3
    <3>1. Queued(applied) \subseteq ledger'
      <4>1. Queued(applied) \subseteq Queued(applied \cup mem[p].out)
        BY DEF Queued
      <4> QED
        BY <1>1, <1>7, <4>1 DEF History
    <3> QED
      BY <1>1, <2>2, <3>1 DEF History
  <2> QED
    BY <2>1, <2>2
<1>12. MailOnDisk'
  <2>1. CASE pc[p] \in {4, 7}
    <3>1. mem[p].out \subseteq applied /\ applied' = applied /\ mailbox' = mem[p].mail
      BY <1>1, <1>7, <2>1
    <3> QED
      BY <1>1, <1>7, <3>1, ShowsWeaker DEF MailOnDisk
  <2>2. CASE pc[p] \notin {4, 7}
    <3>1. Writes[pc[p]] # "mailbox"
      BY <1>1, <2>2, WritesFact
    <3>2. state'["mailbox"] = state["mailbox"]
      BY <1>6, <3>1 DEF File
    <3>3. applied \subseteq applied' /\ mailbox' = mailbox /\ acked' = acked
      BY <1>1, <2>2
    <3> QED
      BY <3>2, <3>3, ShowsWeaker DEF MailOnDisk
  <2> QED
    BY <2>1, <2>2
<1>13. Writing'
  <2>1. SUFFICES
            /\ pc'[p] \in 1..3 => Command(kept', applied', mem[p])
            /\ Queued(applied' \cup mem[p].out) \subseteq mem[p].seen
            /\ pc'[p] >= 3 => ledger' = mem[p].seen
            /\ pc'[p] >= 4 => /\ state'["events"] = "whole"
                              /\ kept' = mem[p].log /\ mem[p].out \subseteq applied'
            /\ pc'[p] >= 7 => state'["dispatch"] = "whole" /\ view' = Statuses(mem[p].log)
            /\ pc'[p] = 8 => state'["mailbox"] = "whole" /\ mailbox' = mem[p].mail
            /\ Shows(mem[p].mail, acked' \cup mem[p].out, applied' \cup mem[p].out)
            /\ pc'[p] \in 1..3 =>
                  \A e \in mem[p].out : e.kind \in MailKind => MailAccepts(Mail', e)
    BY <1>1, <1>4, <1>7 DEF Writing, Statuses
  <2>2. pc'[p] \in 1..3 => Command(kept', applied', mem[p])
    BY <1>1, <1>5, <1>7
  <2>3. Queued(applied' \cup mem[p].out) \subseteq mem[p].seen
    <3>1. applied' \cup mem[p].out = applied \cup mem[p].out
      BY <1>1
    <3> QED
      BY <1>7, <3>1
  <2>4. pc'[p] >= 3 => ledger' = mem[p].seen
    BY <1>1, <1>5, <1>7
  <2>5. pc'[p] >= 4 => /\ state'["events"] = "whole"
                       /\ kept' = mem[p].log /\ mem[p].out \subseteq applied'
    <3>1. CASE pc[p] = 3
      BY <1>1, <1>6, <3>1, WritesFact DEF File
    <3>2. CASE pc[p] >= 4
      BY <1>1, <1>6, <1>7, <3>2 DEF File
    <3> QED
      BY <1>1, <1>5, <3>1, <3>2
  <2>6. pc'[p] >= 7 => state'["dispatch"] = "whole" /\ view' = Statuses(mem[p].log)
    <3>1. CASE pc[p] = 6
      BY <1>1, <1>6, <3>1, WritesFact DEF File
    <3>2. CASE pc[p] = 7
      BY <1>1, <1>6, <1>7, <3>2 DEF File
    <3> QED
      BY <1>1, <1>5, <3>1, <3>2
  <2>7. pc'[p] = 8 => state'["mailbox"] = "whole" /\ mailbox' = mem[p].mail
    <3>1. CASE pc[p] = 7
      BY <1>1, <1>6, <3>1, WritesFact DEF File
    <3> QED
      BY <1>1, <1>5, <3>1
  <2>8. Shows(mem[p].mail, acked' \cup mem[p].out, applied' \cup mem[p].out)
    <3>1. applied' \cup mem[p].out = applied \cup mem[p].out /\ acked' = acked
      BY <1>1
    <3> QED
      BY <1>7, <3>1
  <2>9. ASSUME pc'[p] \in 1..3
        PROVE  \A e \in mem[p].out : e.kind \in MailKind => MailAccepts(Mail', e)
    <3>1. pc[p] \in {1, 2} /\ pc[p] \in 1..3
      BY <1>1, <1>5, <2>9
    <3>2. Writes[pc[p]] # "mailbox" /\ kept' = kept /\ mailbox' = mailbox
      BY <1>1, <3>1, WritesFact
    <3>3. state'["mailbox"] = state["mailbox"]
      BY <1>6, <3>2 DEF File
    <3>4. Mail' = Mail
      BY <3>2, <3>3 DEF Mail
    <3> QED
      BY <1>7, <3>1, <3>4
  <2> QED
    BY <2>2, <2>3, <2>4, <2>5, <2>6, <2>7, <2>8, <2>9
<1> QED
  BY <1>8, <1>9, <1>10, <1>11, <1>12, <1>13

LEMMA StutterInv == ASSUME Inv, UNCHANGED vars PROVE Inv'
<1>1. /\ UNCHANGED <<state, ledger, events, mailbox, view>>
      /\ UNCHANGED <<lock, pc, cut, mem, kills, kept, applied, acked>>
  BY DEF vars, files, history
<1>2. Mail' = Mail
  BY <1>1 DEF Mail
<1>3. TypeOK' /\ OneAtATime' /\ LogOnDisk' /\ History' /\ MailOnDisk'
  BY <1>1 DEF Inv, TypeOK, OneAtATime, LogOnDisk, History, MailOnDisk
<1>4. Writing'
  BY <1>1, <1>2 DEF Inv, Writing, Statuses
<1> QED
  BY <1>3, <1>4 DEF Inv

\* The inductive invariant of the engine, for any number of processes and ids.
THEOREM Invariance == Spec => []Inv
<1>1. Init => Inv
  BY InitInv
<1>2. Inv /\ [Next]_vars => Inv'
  BY BeginInv, TruncateInv, WriteInv, ReplyInv, KillInv, StutterInv DEF Next
<1> QED
  BY <1>1, <1>2, PTL DEF Spec

\* Every variable keeps its type; the ledger is never cut short.
THEOREM TypeCorrect == Spec => []TypeOK
<1>1. Inv => TypeOK
  BY DEF Inv
<1> QED
  BY <1>1, Invariance, PTL

\* A command that was acknowledged survives every kill.
THEOREM AcknowledgedSafe == Spec => []AcknowledgedKept
<1>1. ASSUME Inv PROVE AcknowledgedKept
  <2>1. SUFFICES ASSUME Loadable PROVE
            /\ \A e \in acked : e.kind \in DispatchKind /\ e.id \in Queued(events) => e \in events
            /\ \A m \in MessageId :
                /\ E("created", m) \in acked => Loaded.mail[m] # "none"
                /\ E("mail_delivered", m) \in acked => Loaded.mail[m] = "delivered"
    BY DEF AcknowledgedKept, Loaded
  <2>2. Starts(Loaded)
    BY <2>1 DEF Starts
  <2>3. StartOK(Loaded)
    BY <1>1, <2>2, StartLemma
  <2>4. events = kept /\ acked \subseteq applied
    BY <1>1, <2>1 DEF Inv, LogOnDisk, Loadable, TypeOK
  <2> QED
    BY <1>1, <2>3, <2>4 DEF StartOK, Shows, Inv, History
<1> QED
  BY <1>1, Invariance, PTL

\* When a caller is told, dispatch.json shows what the log replays to, and mailbox.json
\* all that was told, this command's message or mark among it.
THEOREM VisibleWhenTold == Spec => ReplyIsVisible
<1> DEFINE Told(p) == /\ state["dispatch"] = "whole" /\ view = Statuses(events)
                      /\ state["mailbox"] = "whole" /\ Shows(mailbox, acked', applied)
<1>1. ASSUME Inv, [Next]_vars, NEW p \in Process, pc[p] = Done, pc'[p] = 0, acked' # acked
      PROVE  Told(p)
  <2>1. pc[p] = 8 /\ pc[p] # 0 /\ pc[p] >= 4 /\ pc[p] >= 7
    BY <1>1, WritesFact
  <2>2. acked' = acked \cup mem[p].out
    <3>1. PICK q \in Process : Reply(q)
      BY <1>1 DEF Next, vars, history, Begin, Truncate, Write, Kill
    <3>2. q = p
      <4>1. pc[q] # 0
        BY <3>1, WritesFact DEF Reply
      <4> QED
        BY <1>1, <2>1, <4>1 DEF Inv, OneAtATime
    <3> QED
      BY <3>1, <3>2 DEF Reply
  <2>3. /\ state["events"] = "whole" /\ kept = mem[p].log /\ mem[p].out \subseteq applied
        /\ state["dispatch"] = "whole" /\ view = Statuses(mem[p].log)
        /\ state["mailbox"] = "whole" /\ mailbox = mem[p].mail
        /\ Shows(mem[p].mail, acked \cup mem[p].out, applied \cup mem[p].out)
    BY <1>1, <2>1 DEF Inv, Writing
  <2>4. events = mem[p].log /\ applied \cup mem[p].out = applied
    BY <1>1, <2>3 DEF Inv, LogOnDisk
  <2> QED
    BY <2>2, <2>3, <2>4
<1>2. Inv /\ [Next]_vars => [\A p \in Process :
        pc[p] = Done /\ pc'[p] = 0 /\ acked' # acked => Told(p)]_vars
  BY <1>1
<1> QED
  BY <1>2, Invariance, PTL DEF Spec, ReplyIsVisible

------------------------------------------------------------------------------
(* The engine implements AtomicRuntime *)

LEMMA AtomicInit == Init => Atomic!Init
<1> SUFFICES ASSUME Init PROVE Atomic!Init
  OBVIOUS
<1>1. Mail = [m \in MessageId |-> "none"]
  BY DEF Init, Mail, MailOf, NoMail, File
<1> QED
  BY <1>1 DEF Init, Atomic!Init

\* Both modules take their operators from DispatchLog.
LEMMA SameOperators ==
    /\ Atomic!DispatchKind = DispatchKind /\ Atomic!MailKind = MailKind /\ Atomic!Event = Event
    /\ \A L : Atomic!Queued(L) = Queued(L) /\ Atomic!Settled(L) = Settled(L)
    /\ \A L, S : Atomic!Without(L, S) = Without(L, S)
    /\ \A L, e : Atomic!Accepts(L, e) = Accepts(L, e)
    /\ \A M, e : Atomic!MailAccepts(M, e) = MailAccepts(M, e)
    /\ \A M, t, d : Atomic!Shows(M, t, d) = Shows(M, t, d)
    /\ Atomic!MailStatus = MailStatus
<1>1. /\ Atomic!DispatchKind = DispatchKind /\ Atomic!MailKind = MailKind
      /\ Atomic!Event = Event
  BY DEF Atomic!DispatchKind, DispatchKind, Atomic!MailKind, MailKind, Atomic!Event, Event
<1>2. \A L : Atomic!Queued(L) = Queued(L)
  BY DEF Atomic!Queued, Queued, Atomic!E, E
<1>3. \A L, id : Atomic!Status(L, id) = Status(L, id)
  BY <1>2 DEF Atomic!Status, Status, Atomic!E, E
<1>4. \A L : Atomic!Settled(L) = Settled(L)
  BY <1>3 DEF Atomic!Settled, Settled
<1>5. \A L, S : Atomic!Without(L, S) = Without(L, S)
  BY <1>1 DEF Atomic!Without, Without
<1>6. \A L, e : Atomic!Accepts(L, e) = Accepts(L, e)
  BY <1>3 DEF Atomic!Accepts, Accepts
<1>7. \A M, e : Atomic!MailAccepts(M, e) = MailAccepts(M, e)
  BY DEF Atomic!MailAccepts, MailAccepts
<1>8. \A M, t, d : Atomic!Shows(M, t, d) = Shows(M, t, d)
  BY DEF Atomic!Shows, Shows, Atomic!E, E
<1>9. Atomic!MailStatus = MailStatus
  BY DEF Atomic!MailStatus, MailStatus
<1> QED
  BY <1>1, <1>2, <1>4, <1>5, <1>6, <1>7, <1>8, <1>9

\* The write of events.json is where a command takes effect.
LEMMA AtomicWrite ==
    ASSUME Inv, Inv', NEW p \in Process, Write(p), pc[p] = 3
    PROVE  Atomic!Next
<1>1. /\ kept' = mem[p].log /\ applied' = applied \cup mem[p].out /\ acked' = acked
      /\ mailbox' = mailbox /\ state'["mailbox"] = state["mailbox"]
  <2>1. /\ kept' = mem[p].log /\ applied' = applied \cup mem[p].out /\ acked' = acked
        /\ mailbox' = mailbox /\ state' = [state EXCEPT !["events"] = "whole"]
    BY WriteEffect, WritesFact
  <2>2. state \in [File -> {"absent", "torn", "whole"}]
    BY DEF Inv, TypeOK
  <2> QED
    BY <2>1, <2>2 DEF File
<1>2. /\ Command(kept, applied, mem[p])
      /\ \A e \in mem[p].out : e.kind \in MailKind => MailAccepts(Mail, e)
  <2>1. pc[p] # 0 /\ pc[p] \in 1..3
    OBVIOUS
  <2> QED
    BY <2>1 DEF Inv, Writing
<1>5. Shows(Mail', acked', applied') /\ Mail' \in [MessageId -> MailStatus]
  BY MailShowsNext DEF MailShown
<1>6. (\A e \in mem[p].out : e.kind \notin MailKind) => Mail' = Mail
  <2>1. kept \in SUBSET Event /\ applied \in SUBSET Event /\ kept \subseteq applied
    BY DEF Inv, TypeOK, History
  <2>2. /\ kept' \subseteq kept \cup mem[p].out
        /\ \A e \in kept \cup mem[p].out : e.kind \in MailKind => e \in kept'
    BY <1>1, <1>2, <2>1, CommandLog
  <2>3. \A m, k : E(k, m).kind = k
    BY DEF E
  <2>4. ASSUME \A e \in mem[p].out : e.kind \notin MailKind
        PROVE  \A m, k : k \in MailKind => (E(k, m) \in kept' <=> E(k, m) \in kept)
    BY <2>2, <2>3, <2>4
  <2>5. (\A e \in mem[p].out : e.kind \notin MailKind) => MailOf(kept') = MailOf(kept)
    BY <2>4 DEF MailOf, MailKind
  <2> QED
    BY <1>1, <2>5 DEF Mail
<1>3. CASE mem[p].out = {}
  <2>1. \E ids \in SUBSET Queued(kept) :
            \/ kept' = Without(kept, ids)
            \/ kept' = Without(Without(kept, ids), Settled(Without(kept, ids)))
    BY <1>1, <1>2, <1>3 DEF Command
  <2>2. UNCHANGED <<Mail, applied, acked>>
    BY <1>1, <1>3, <1>6
  <2> QED
    BY <2>1, <2>2, SameOperators DEF Atomic!Next, Atomic!Remove
<1>4. CASE mem[p].out # {}
  <2>1. PICK e \in Event :
        /\ mem[p].out = {e}
        /\ e.kind \in DispatchKind => e \notin applied /\ Accepts(kept, e)
        /\ \/ mem[p].log = kept \cup {e}
           \/ mem[p].log = Without(kept \cup {e}, Settled(kept \cup {e}))
    BY <1>2, <1>4 DEF Command
  <2>2. e.kind \in DispatchKind \/ e.kind \in MailKind
    BY EventForm
  <2>3. Atomic!Recorded(e)
    BY <1>1, <2>1, SameOperators DEF Atomic!Recorded
  <2>4. CASE e.kind \in DispatchKind
    <3>1. Mail' = Mail
      BY <1>6, <2>1, <2>4, EventForm
    <3> QED
      BY <2>1, <2>3, <2>4, <3>1, SameOperators DEF Atomic!Next, Atomic!Dispatch
  <2>5. CASE e.kind \in MailKind
    <3>1. MailAccepts(Mail, e)
      BY <1>2, <2>1, <2>5
    <3> QED
      BY <1>5, <2>1, <2>3, <2>5, <3>1, SameOperators DEF Atomic!Next, Atomic!Mail
  <2> QED
    BY <2>2, <2>4, <2>5
<1> QED
  BY <1>3, <1>4

LEMMA AtomicReply ==
    ASSUME Inv, Inv', NEW p \in Process, Reply(p)
    PROVE  [Atomic!Next]_Atomic!vars
<1>1. /\ pc[p] # 0 /\ pc[p] >= 4
      /\ acked' = acked \cup mem[p].out /\ UNCHANGED <<kept, applied, state, mailbox>>
  BY WritesFact DEF Reply, files
<1>5. Mail' = Mail
  BY <1>1 DEF Mail
<1>6. Shows(Mail', acked', applied')
  BY MailShowsNext DEF MailShown
<1>2. mem[p].out \subseteq applied /\ (\A e, f \in mem[p].out : e = f)
  BY <1>1 DEF Inv, Writing
<1>3. CASE mem[p].out = {}
  BY <1>1, <1>3, <1>5 DEF Atomic!vars
<1>4. CASE mem[p].out # {}
  <2>1. PICK e \in applied : mem[p].out = {e}
    BY <1>2, <1>4
  <2> QED
    BY <1>1, <1>5, <1>6, <2>1, SameOperators DEF Atomic!Next, Atomic!Acknowledge
<1> QED
  BY <1>3, <1>4

\* A step that leaves the log and what was told as they are may change what the next
\* command loads as the mailbox.
LEMMA AtomicShow ==
    ASSUME Inv', UNCHANGED <<kept, applied, acked>>
    PROVE  Atomic!Next
<1>1. Shows(Mail', acked', applied') /\ Mail' \in [MessageId -> MailStatus]
  BY MailShowsNext DEF MailShown
<1> QED
  BY <1>1, SameOperators DEF Atomic!Next, Atomic!Show

\* A killed command on a request has happened completely or not at all, no id is accepted
\* twice, and the mailbox that is loaded shows all that was told and nothing undone.
THEOREM Refinement == Spec => RefinesAtomic
<1>1. Init => Atomic!Init
  BY AtomicInit
<1>2. ASSUME Inv, Inv', [Next]_vars PROVE [Atomic!Next]_Atomic!vars
  <2>1. ASSUME NEW p \in Process, Begin(p) \/ Truncate(p) \/ Kill(p) PROVE Atomic!Next
    <3>1. UNCHANGED <<kept, applied, acked>>
      BY <2>1 DEF Begin, Truncate, Kill, history
    <3> QED
      BY <1>2, <3>1, AtomicShow
  <2>2. ASSUME NEW p \in Process, Write(p) PROVE Atomic!Next
    <3>1. CASE pc[p] = 3
      BY <1>2, <2>2, <3>1, AtomicWrite
    <3>2. CASE pc[p] # 3
      <4>1. UNCHANGED <<kept, applied, acked>>
        BY <1>2, <2>2, <3>2, WriteEffect
      <4> QED
        BY <1>2, <4>1, AtomicShow
    <3> QED
      BY <3>1, <3>2
  <2>3. ASSUME NEW p \in Process, Reply(p) PROVE [Atomic!Next]_Atomic!vars
    BY <1>2, <2>3, AtomicReply
  <2>4. CASE UNCHANGED vars
    BY <2>4 DEF vars, files, history, Mail, Atomic!vars
  <2> QED
    BY <1>2, <2>1, <2>2, <2>3, <2>4 DEF Next
<1> QED
  BY <1>1, <1>2, Invariance, PTL DEF Spec, RefinesAtomic, Atomic!Spec
------------------------------------------------------------------------------
(* A consequence of AtomicRuntime, and so of the engine *)

\* What AtomicRuntime keeps: nothing is on record that was not applied, a request
\* was queued before anything else, and a record that exists is complete.
Books ==
    /\ kept \subseteq applied /\ applied \subseteq Event
    /\ \A e \in applied : e.kind \in DispatchKind =>
        e.id \in Queued(applied) /\ (e.id \in Queued(kept) => e \in kept)
    /\ OneOutcome

\* Records that are taken out are taken out whole.
LEMMA WithoutBooks ==
    ASSUME NEW log \in SUBSET Event, NEW ids \in SUBSET DispatchId, NEW past \in SUBSET Event,
           \A e \in past : e.kind \in DispatchKind /\ e.id \in Queued(log) => e \in log
    PROVE  /\ Without(log, ids) \subseteq log
           /\ \A e \in past : e.kind \in DispatchKind /\ e.id \in Queued(Without(log, ids))
                => e \in Without(log, ids)
<1>1. Without(log, ids) \subseteq log /\ Queued(Without(log, ids)) \subseteq Queued(log)
  BY WithoutFact
<1>2. ASSUME NEW e \in past, e.kind \in DispatchKind, e.id \in Queued(Without(log, ids))
      PROVE  e \in Without(log, ids)
  <2>1. e \in log
    BY <1>1, <1>2
  <2> QED BY <1>2, <2>1, WithoutFact
<1> QED BY <1>1, <1>2

\* A request is accepted only if nothing was ever applied to its id, and it ends
\* only if its record, which is complete, shows no end.
LEMMA DispatchBooks ==
    ASSUME Books, NEW e \in Event, Atomic!Dispatch(e)
    PROVE  Books'
<1>1. /\ e.kind \in DispatchKind /\ e \notin applied /\ Accepts(kept, e)
      /\ applied' = applied \cup {e}
      /\ \/ kept' = kept \cup {e}
         \/ kept' = Without(kept \cup {e}, Settled(kept \cup {e}))
  BY SameOperators DEF Atomic!Dispatch, Atomic!Recorded
<1>2. e = E(e.kind, e.id) /\ e.id \in DispatchId
  BY <1>1, EventForm
<1>3. e.kind # "queued" => e.id \in Queued(kept)
  BY <1>1, AcceptedIsNew DEF Books
<1>4. kept \cup {e} \subseteq applied' /\ applied' \subseteq Event
  BY <1>1 DEF Books
<1>5. \A f \in applied' : f.kind \in DispatchKind => f.id \in Queued(applied')
  BY <1>1, <1>2, <1>3 DEF Books, Queued
<1>6. ASSUME NEW f \in applied', f.kind \in DispatchKind, f.id \in Queued(kept \cup {e})
      PROVE  f \in kept \cup {e}
  <2>1. CASE f = e
    BY <2>1
  <2>2. CASE f \in applied /\ f.id \in Queued(kept)
    BY <1>6, <2>2 DEF Books
  <2>3. CASE f \in applied /\ f.id \notin Queued(kept)
    <3>1. e = E("queued", f.id)
      BY <1>6, <2>3 DEF Queued
    <3>2. E("queued", f.id) \in applied
      BY <1>6, <2>3 DEF Books, Queued
    <3> QED BY <1>1, <3>1, <3>2
  <2> QED BY <1>1, <2>1, <2>2, <2>3
<1>7. /\ kept' \subseteq applied'
      /\ \A f \in applied' : f.kind \in DispatchKind /\ f.id \in Queued(kept') => f \in kept'
  <2>1. CASE kept' = kept \cup {e}
    BY <1>4, <1>6, <2>1
  <2>2. CASE kept' = Without(kept \cup {e}, Settled(kept \cup {e}))
    <3>1. kept \cup {e} \in SUBSET Event /\ Settled(kept \cup {e}) \in SUBSET DispatchId
      BY <1>4, SettledFact
    <3> QED BY <1>4, <1>6, <2>2, <3>1, WithoutBooks
  <2> QED BY <1>1, <2>1, <2>2
<1>8. OneOutcome'
  <2> SUFFICES ASSUME NEW id \in DispatchId,
                      E("delivered", id) \in applied', E("failed", id) \in applied'
               PROVE  FALSE
    BY DEF OneOutcome
  <2>1. CASE e = E("delivered", id)
    <3>1. E("failed", id) \in applied /\ id \in Queued(kept)
      BY <1>1, <1>3, <2>1 DEF E
    <3>2. E("failed", id) \in kept
      BY <3>1 DEF Books, E, DispatchKind
    <3> QED BY <1>1, <2>1, <3>2 DEF Accepts, Status, E
  <2>2. CASE e = E("failed", id)
    <3>1. E("delivered", id) \in applied /\ id \in Queued(kept)
      BY <1>1, <1>3, <2>2 DEF E
    <3>2. E("delivered", id) \in kept
      BY <3>1 DEF Books, E, DispatchKind
    <3> QED BY <1>1, <2>2, <3>2 DEF Accepts, Status, E
  <2>3. CASE e # E("delivered", id) /\ e # E("failed", id)
    BY <1>1, <2>3 DEF Books, OneOutcome
  <2> QED BY <2>1, <2>2, <2>3
<1> QED BY <1>4, <1>5, <1>7, <1>8 DEF Books

\* Marks on messages and removals say nothing new about requests.
LEMMA MailBooks ==
    ASSUME Books, NEW e \in Event, Atomic!Mail(e)
    PROVE  Books'
<1>1. /\ e.kind \in MailKind
      /\ applied' = applied \cup {e}
      /\ \/ kept' = kept \cup {e}
         \/ kept' = Without(kept \cup {e}, Settled(kept \cup {e}))
  BY SameOperators DEF Atomic!Mail, Atomic!Recorded
<1>2. e.kind \notin DispatchKind /\ Queued(kept \cup {e}) = Queued(kept)
      /\ Queued(applied') = Queued(applied)
  BY <1>1, EventForm DEF Queued, E, MailKind, DispatchKind
<1>3. kept \cup {e} \subseteq applied' /\ applied' \subseteq Event
      /\ kept \cup {e} \in SUBSET Event /\ Settled(kept \cup {e}) \in SUBSET DispatchId
  BY <1>1, SettledFact DEF Books
<1>4. \A f \in applied' : f.kind \in DispatchKind /\ f.id \in Queued(kept \cup {e})
        => f \in kept \cup {e}
  BY <1>1, <1>2 DEF Books
<1>5. /\ kept' \subseteq applied'
      /\ \A f \in applied' : f.kind \in DispatchKind /\ f.id \in Queued(kept') => f \in kept'
  BY <1>1, <1>3, <1>4, WithoutBooks
<1>6. OneOutcome'
  <2>1. \A id \in DispatchId : e # E("delivered", id) /\ e # E("failed", id)
    BY <1>2 DEF E, DispatchKind
  <2> QED BY <1>1, <2>1 DEF Books, OneOutcome
<1> QED BY <1>1, <1>2, <1>3, <1>5, <1>6 DEF Books

LEMMA RemoveBooks ==
    ASSUME Books, Atomic!Remove
    PROVE  Books'
<1>1. applied' = applied
  BY DEF Atomic!Remove
<1>2. PICK ids \in SUBSET Queued(kept) :
        \/ kept' = Without(kept, ids)
        \/ kept' = Without(Without(kept, ids), Settled(Without(kept, ids)))
  BY SameOperators DEF Atomic!Remove
<1>3. kept \in SUBSET Event /\ applied \in SUBSET Event /\ ids \in SUBSET DispatchId
  BY DEF Books, Queued
<1>4. /\ Without(kept, ids) \subseteq kept
      /\ \A e \in applied : e.kind \in DispatchKind /\ e.id \in Queued(Without(kept, ids))
            => e \in Without(kept, ids)
  BY <1>3, WithoutBooks DEF Books
<1>5. /\ kept' \subseteq kept
      /\ \A e \in applied : e.kind \in DispatchKind /\ e.id \in Queued(kept') => e \in kept'
  <2>1. Without(kept, ids) \in SUBSET Event
        /\ Settled(Without(kept, ids)) \in SUBSET DispatchId
    BY <1>3, <1>4, SettledFact
  <2>2. CASE kept' = Without(kept, ids)
    BY <1>4, <2>2
  <2>3. CASE kept' = Without(Without(kept, ids), Settled(Without(kept, ids)))
    BY <1>3, <1>4, <2>1, <2>3, WithoutBooks
  <2> QED BY <1>2, <2>2, <2>3
<1> QED BY <1>1, <1>5 DEF Books, OneOutcome

\* AtomicRuntime alone gives every request one end at most; whatever implements it
\* inherits that.
THEOREM AtomicOneOutcome == Atomic!Spec => []OneOutcome
<1>1. Atomic!Init => Books
  BY DEF Atomic!Init, Books, OneOutcome
<1>2. ASSUME Books, [Atomic!Next]_Atomic!vars PROVE Books'
  <2>1. ASSUME NEW e \in Atomic!Event, Atomic!Dispatch(e) \/ Atomic!Mail(e) PROVE Books'
    BY <1>2, <2>1, SameOperators, DispatchBooks, MailBooks
  <2>2. CASE Atomic!Remove
    BY <1>2, <2>2, RemoveBooks
  <2>3. CASE Atomic!Show \/ Atomic!Acknowledge \/ UNCHANGED Atomic!vars
    <3>1. UNCHANGED <<kept, applied>>
      BY <2>3 DEF Atomic!Show, Atomic!Acknowledge, Atomic!vars
    <3> QED BY <1>2, <3>1 DEF Books, OneOutcome, Queued
  <2> QED BY <1>2, <2>1, <2>2, <2>3 DEF Atomic!Next
<1>3. Books => OneOutcome
  BY DEF Books
<1> QED BY <1>1, <1>2, <1>3, PTL DEF Atomic!Spec

\* No request is both delivered and failed, whatever is killed, removed or compacted.
THEOREM OneOutcomeSafe == Spec => []OneOutcome
<1>1. Spec => Atomic!Spec
  BY Refinement DEF RefinesAtomic
<1> QED BY <1>1, AtomicOneOutcome, PTL
==============================================================================
