--------------------------- MODULE MailboxWakeProofs ---------------------------
(* MailboxWake keeps its types, settles a wake only when its message is          *)
(* acknowledged, overlooks none that was typed and marks a message only when the *)
(* worker was told of it, for any number of messages, wakes, sends and failures. *)
EXTENDS MailboxWake, TLAPS

------------------------------------------------------------------------------
(* The inductive invariant *)

\* Whoever is busy with a message found it in the mailbox.
MailSound ==
    \A a \in Actor, m \in Message : pc[a][m] # "idle" => mail[m] # "none"

\* What the worker is about to settle was queued; when it has seen that nothing is
\* undelivered, all of it is for messages that are delivered.
ActiveSound ==
    \A w \in active :
        /\ wake[w] # "none"
        /\ worker = "settle" => mail[of[w]] = "delivered"

Inv == TypeOK /\ MailSound /\ ActiveSound /\ SettledMeansDelivered

------------------------------------------------------------------------------
(* Lemmas *)

Mails == {"none", "new", "notified", "delivered"}
Places == {"idle", "enqueue", "wait", "fallback", "refused", "typed", "retyped", "refail"}

\* The numbers of wakes, messages and failures.
LEMMA NumberFact ==
    /\ \A w : w \in Wake <=> w \in 0..MaxWakes /\ w # 0
    /\ \A m : m \in Message <=> m \in 0..MaxMessages /\ m # 0
    /\ 0 \in 0..MaxWakes /\ 0 \in 0..MaxMessages /\ 0 \in 0..MaxFails
    /\ \A n \in 0..MaxFails : n < MaxFails => n + 1 \in 0..MaxFails
BY BoundAssumption DEF Wake, Message

\* The view is sound: what failed without the engine's knowledge is shown as failed.
ViewTyped ==
    /\ wake \in [Wake -> WakeStatus] /\ hidden \in [Wake -> {"none", "pending", "notified"}]
    /\ \A w \in Wake : hidden[w] # "none" => wake[w] = "failed"
    /\ back \subseteq Wake

LEMMA TypedFact == ASSUME Inv PROVE ViewTyped
BY DEF Inv, TypeOK, ViewTyped

LEMMA InitInv == Init => Inv
<1> SUFFICES ASSUME Init PROVE Inv
  OBVIOUS
<1>1. TypeOK
  BY NumberFact DEF Init, TypeOK, WakeStatus, Nowhere
<1>2. MailSound /\ ActiveSound /\ SettledMeansDelivered
  BY DEF Init, MailSound, ActiveSound, SettledMeansDelivered, Nowhere
<1> QED
  BY <1>1, <1>2 DEF Inv

\* The engine and the view agree on what is queued and on what is settled.
LEMMA EngineFact ==
    ASSUME ViewTyped
    PROVE  /\ Engine \in [Wake -> WakeStatus]
           /\ \A w \in Wake : /\ Engine[w] = "none" <=> wake[w] = "none"
                              /\ Engine[w] = "delivered" <=> wake[w] = "delivered"
                              /\ hidden[w] = "none" => Engine[w] = wake[w]
                              /\ hidden[w] # "none" => Engine[w] = hidden[w]
BY DEF ViewTyped, Engine, WakeStatus

\* A command shows the wakes as the engine has them.
LEMMA CommandFact ==
    ASSUME ViewTyped, NEW f \in [Wake -> WakeStatus], Command(f)
    PROVE  /\ ViewTyped' /\ wake' = f /\ Engine' = f
           /\ back' = back \cup {w \in Wake : hidden[w] # "none"}
BY DEF ViewTyped, Command, Nowhere, Engine

\* The step queues no wake and settles none.
ViewKept ==
    /\ ViewTyped'
    /\ \A w \in Wake : /\ wake'[w] = "none" <=> wake[w] = "none"
                       /\ wake'[w] = "delivered" <=> wake[w] = "delivered"

LEMMA CommandKept == ASSUME ViewTyped, Command(Engine) PROVE ViewKept
<1>1. ViewTyped' /\ wake' = Engine
  BY EngineFact, CommandFact
<1> QED
  BY <1>1, EngineFact DEF ViewKept

\* A wake in use names a stored message.
LEMMA OfFact ==
    ASSUME Inv
    PROVE  \A w \in Wake :
               /\ wake[w] = "none" => of[w] = 0
               /\ wake[w] # "none" => of[w] # 0 /\ of[w] \in Message /\ mail[of[w]] # "none"
BY NumberFact DEF Inv, TypeOK

LEMMA RefuseKept == ASSUME ViewTyped, NEW r, Refuse(r), UNCHANGED back PROVE ViewKept
<1>1. CASE r \in Live
  <2>1. r \in Wake /\ wake[r] \in {"pending", "notified"} /\ wake' = [wake EXCEPT ![r] = "failed"]
    BY <1>1 DEF Live, Refuse
  <2>2. hidden' = hidden \/ hidden' = [hidden EXCEPT ![r] = wake[r]]
    BY <1>1 DEF Refuse
  <2> QED
    BY <2>1, <2>2 DEF ViewTyped, ViewKept, WakeStatus
<1>2. CASE r \notin Live
  BY <1>2 DEF Refuse, ViewTyped, ViewKept
<1> QED
  BY <1>1, <1>2

LEMMA StillKept == ASSUME ViewTyped, UNCHANGED view PROVE ViewKept
BY DEF ViewTyped, ViewKept, view

\* The step only marks messages: none is stored, none is acknowledged.
MarksOnly ==
    /\ mail' \in [Message -> Mails]
    /\ \A n \in Message : /\ mail[n] = "none" <=> mail'[n] = "none"
                          /\ mail[n] = "delivered" <=> mail'[n] = "delivered"

LEMMA NotifiedFact == ASSUME Inv, NEW m, mail' = Notified(m) PROVE MarksOnly
BY DEF Inv, TypeOK, Notified, MarksOnly, Mails

LEMMA StillMail == ASSUME Inv, UNCHANGED mail PROVE MarksOnly
BY DEF Inv, TypeOK, MarksOnly, Mails

\* The variables that are typed by themselves.
ActorsTyped == pc' \in [Actor -> [Message -> Places]] /\ req' \in [Actor -> [Message -> 0..MaxWakes]]
RestTyped == hook' \in 0..MaxWakes /\ typed' \in BOOLEAN /\ fails' \in 0..MaxFails

LEMMA StillTyped ==
    ASSUME Inv
    PROVE  /\ UNCHANGED <<pc, req>> => ActorsTyped
           /\ UNCHANGED <<hook, typed, fails>> => RestTyped
BY DEF Inv, TypeOK, ActorsTyped, RestTyped, Places

\* What a step may do to the mail and the wakes without harm.
LEMMA KeptInv ==
    ASSUME Inv, MarksOnly, ViewKept, UNCHANGED <<of, worker, active>>, ActorsTyped, RestTyped,
           \A a \in Actor, m \in Message : pc'[a][m] # "idle" => pc[a][m] # "idle" \/ mail'[m] # "none"
    PROVE  Inv'
<1>0. \A w \in Wake : IF wake'[w] = "none" THEN of'[w] = 0 ELSE of'[w] # 0 /\ mail'[of'[w]] # "none"
  BY OfFact DEF MarksOnly, ViewKept
<1>1. TypeOK'
  BY <1>0 DEF Inv, TypeOK, MarksOnly, Mails, ViewKept, ViewTyped, ActorsTyped, RestTyped, Places
<1>2. MailSound'
  BY DEF Inv, MailSound, MarksOnly
<1>3. ActiveSound'
  <2> SUFFICES ASSUME NEW w \in active PROVE wake'[w] # "none" /\ (worker = "settle" => mail'[of[w]] = "delivered")
    BY DEF ActiveSound
  <2>1. w \in Wake /\ wake[w] # "none" /\ (worker = "settle" => mail[of[w]] = "delivered")
    BY DEF Inv, TypeOK, ActiveSound
  <2> QED
    BY <2>1, OfFact DEF MarksOnly, ViewKept
<1>4. SettledMeansDelivered'
  BY OfFact DEF Inv, SettledMeansDelivered, MarksOnly, ViewKept
<1> QED
  BY <1>1, <1>2, <1>3, <1>4 DEF Inv

LEMMA SendInv == ASSUME Inv, NEW m \in Message, Send(m) PROVE Inv'
<1>1. ViewKept
  BY TypedFact, CommandKept, StillKept DEF Send
<1>2. ActorsTyped
  BY DEF Inv, TypeOK, Send, Goto, ActorsTyped, Places
<1>3. mail'[m] = "new" /\ UNCHANGED <<of, worker, active, hook, typed, fails>>
  BY DEF Inv, TypeOK, Send, recipient
<1>4. pc' = [pc EXCEPT !["sender"][m] = "enqueue"]
  BY DEF Send, Goto
<1>5. mail' \in [Message -> Mails] /\ \A n \in Message : mail'[n] = mail[n] \/ (mail[n] = "none" /\ mail'[n] = "new")
  BY DEF Inv, TypeOK, Send, Mails
<1>9. \A w \in Wake : IF wake'[w] = "none" THEN of'[w] = 0 ELSE of'[w] # 0 /\ mail'[of'[w]] # "none"
  BY <1>1, <1>3, <1>5, OfFact DEF ViewKept
<1>6. TypeOK'
  BY <1>1, <1>2, <1>3, <1>5, <1>9 DEF Inv, TypeOK, ViewKept, ViewTyped, ActorsTyped, Places, Mails
<1>7. MailSound'
  BY <1>3, <1>4, <1>5 DEF Inv, TypeOK, MailSound
<1>8. ActiveSound' /\ SettledMeansDelivered'
  <2>1. \A w \in Wake : wake[w] # "none" /\ mail[of[w]] = "delivered" => mail'[of[w]] = "delivered"
    BY <1>5, OfFact
  <2>2. ActiveSound'
    BY <1>1, <1>3, <2>1 DEF Inv, TypeOK, ActiveSound, ViewKept
  <2>3. SettledMeansDelivered'
    BY <1>1, <1>3, <2>1 DEF Inv, SettledMeansDelivered, ViewKept
  <2> QED
    BY <2>2, <2>3
<1> QED
  BY <1>6, <1>7, <1>8 DEF Inv

LEMMA NoticeInv == ASSUME Inv, Notice PROVE Inv'
<1>1. ViewKept /\ MarksOnly
  BY TypedFact, StillKept, StillMail DEF Notice
<1>2. UNCHANGED <<mail, of, worker, active, hook, typed, fails>>
  BY DEF Notice, recipient
<1>3. ActorsTyped
  BY DEF Inv, TypeOK, Notice, ActorsTyped, Places
<1>4. \A a \in Actor, m \in Message : pc'[a][m] # "idle" => pc[a][m] # "idle" \/ mail'[m] # "none"
  BY <1>2 DEF Inv, TypeOK, Notice
<1> QED
  BY <1>1, <1>2, <1>3, <1>4, StillTyped, KeptInv

LEMMA EnqueueInv == ASSUME Inv, NEW a \in Actor, NEW m \in Message, Enqueue(a, m) PROVE Inv'
<1>1. UNCHANGED <<mail, hook, typed, worker, active, fails>> /\ MarksOnly /\ RestTyped
  BY StillMail, StillTyped DEF Enqueue, recipient
<1>2. pc[a][m] = "enqueue" /\ pc' = [pc EXCEPT ![a][m] = "wait"]
  BY DEF Enqueue, Goto
<1>3. \A b \in Actor, n \in Message : pc'[b][n] # "idle" => pc[b][n] # "idle" \/ mail'[n] # "none"
  BY <1>2 DEF Inv, TypeOK
<1>4. CASE Equivalent # {}
  <2>1. PICK w \in Equivalent : req' = [req EXCEPT ![a][m] = w]
    BY <1>4 DEF Enqueue
  <2>2. w \in 0..MaxWakes /\ UNCHANGED <<view, of>>
    BY <1>4, NumberFact DEF Equivalent, Enqueue
  <2>3. ActorsTyped
    BY <1>2, <2>1, <2>2 DEF Inv, TypeOK, ActorsTyped, Places
  <2> QED
    BY <1>1, <1>3, <2>2, <2>3, TypedFact, StillKept, KeptInv
<1>5. CASE Equivalent = {}
  <2>1. PICK w \in Unused : /\ Command([Engine EXCEPT ![w] = "pending"])
                            /\ of' = [of EXCEPT ![w] = m]
                            /\ req' = [req EXCEPT ![a][m] = w]
    BY <1>5 DEF Enqueue
  <2>2. w \in Wake /\ wake[w] = "none" /\ mail[m] # "none" /\ w \in 0..MaxWakes
    BY <1>2, NumberFact DEF Unused, Inv, MailSound
  <2>3. [Engine EXCEPT ![w] = "pending"] \in [Wake -> WakeStatus]
    BY TypedFact, EngineFact DEF WakeStatus
  <2>4. ViewTyped' /\ wake' = [Engine EXCEPT ![w] = "pending"]
    BY <2>1, <2>3, TypedFact, CommandFact
  <2>5. /\ wake'[w] = "pending"
        /\ \A v \in Wake \ {w} : /\ wake'[v] = "none" <=> wake[v] = "none"
                                 /\ wake'[v] = "delivered" <=> wake[v] = "delivered"
                                 /\ of'[v] = of[v]
    <3>1. wake'[w] = "pending" /\ \A v \in Wake \ {w} : wake'[v] = Engine[v] /\ of'[v] = of[v]
      BY <2>1, <2>2, <2>4, TypedFact, EngineFact DEF Inv, TypeOK
    <3> QED
      BY <3>1, TypedFact, EngineFact
  <2>6. ActorsTyped
    BY <1>2, <2>1, <2>2 DEF Inv, TypeOK, ActorsTyped, Places
  <2>7. of' \in [Wake -> 0..MaxMessages] /\ of'[w] = m /\ m # 0
    BY <2>1, <2>2, NumberFact DEF Inv, TypeOK
  <2>8. \A v \in Wake : IF wake'[v] = "none" THEN of'[v] = 0 ELSE of'[v] # 0 /\ mail'[of'[v]] # "none"
    BY <1>1, <2>2, <2>5, <2>7, OfFact
  <2>9. TypeOK'
    BY <1>1, <2>4, <2>6, <2>7, <2>8 DEF Inv, TypeOK, ViewTyped, ActorsTyped, RestTyped, Places
  <2>10. MailSound'
    BY <1>1, <1>3, <1>2 DEF Inv, MailSound, MarksOnly
  <2>11. ActiveSound'
    BY <1>1, <2>2, <2>5 DEF Inv, TypeOK, ActiveSound
  <2>12. SettledMeansDelivered'
    BY <1>1, <2>2, <2>5 DEF Inv, TypeOK, SettledMeansDelivered
  <2> QED
    BY <2>9, <2>10, <2>11, <2>12 DEF Inv
<1> QED
  BY <1>4, <1>5

\* An actor that waits or has typed goes on or returns.
LEMMA ActInv ==
    ASSUME Inv, NEW a \in Actor, NEW m \in Message,
           \/ Receipt(a, m) \/ GiveUp(a, m) \/ FallbackTypes(a, m) \/ FallbackMarks(a, m)
           \/ RefusedMarks(a, m) \/ RefusedFails(a, m) \/ FallbackFails(a, m)
    PROVE  Inv'
<1>1. MarksOnly
  BY NotifiedFact, StillMail
     DEF Receipt, GiveUp, FallbackTypes, FallbackMarks, RefusedMarks, RefusedFails, FallbackFails
<1>2. ViewKept
  <2>1. CASE Receipt(a, m) \/ RefusedMarks(a, m)
    BY <2>1, TypedFact, CommandKept DEF Receipt, RefusedMarks
  <2>2. CASE GiveUp(a, m) \/ FallbackTypes(a, m)
    BY <2>2, TypedFact, StillKept DEF GiveUp, FallbackTypes
  <2>3. CASE FallbackMarks(a, m)
    <3>1. CASE Engine[req[a][m]] = "pending"
      <4>1. Command([Engine EXCEPT ![req[a][m]] = "notified"])
        BY <2>3, <3>1 DEF FallbackMarks
      <4>2. [Engine EXCEPT ![req[a][m]] = "notified"] \in [Wake -> WakeStatus]
        BY TypedFact, EngineFact DEF WakeStatus
      <4>3. ViewTyped' /\ wake' = [Engine EXCEPT ![req[a][m]] = "notified"]
        BY <4>1, <4>2, TypedFact, CommandFact
      <4>4. \A w \in Wake : wake'[w] = Engine[w] \/ (Engine[w] = "pending" /\ wake'[w] = "notified")
        BY <3>1, <4>3, TypedFact, EngineFact
      <4> QED
        BY <4>3, <4>4, TypedFact, EngineFact DEF ViewKept
    <3>2. CASE Engine[req[a][m]] # "pending"
      BY <2>3, <3>2, TypedFact, CommandKept DEF FallbackMarks
    <3> QED
      BY <3>1, <3>2
  <2>4. CASE RefusedFails(a, m) \/ FallbackFails(a, m)
    <3>1. UNCHANGED back /\ (Refuse(req[a][m]) \/ UNCHANGED <<wake, hidden>>)
      BY <2>4 DEF RefusedFails, FallbackFails
    <3>2. CASE UNCHANGED <<wake, hidden>>
      BY <3>1, <3>2, TypedFact, StillKept DEF view
    <3> QED
      BY <3>1, <3>2, TypedFact, RefuseKept
  <2> QED
    BY <2>1, <2>2, <2>3, <2>4
<1>3. UNCHANGED <<of, worker, active, hook>>
  BY DEF Receipt, GiveUp, FallbackTypes, FallbackMarks, RefusedMarks, RefusedFails, FallbackFails, recipient
<1>4. typed' \in BOOLEAN /\ fails' \in 0..MaxFails
  BY NumberFact DEF Inv, TypeOK, Receipt, GiveUp, FallbackTypes, FallbackMarks, RefusedMarks,
                    RefusedFails, FallbackFails
<1>5. RestTyped
  BY <1>3, <1>4 DEF Inv, TypeOK, RestTyped
<1>6. /\ pc[a][m] # "idle"
      /\ \E p \in Places : pc' = [pc EXCEPT ![a][m] = p]
      /\ req' = req \/ req' = [req EXCEPT ![a][m] = 0]
  BY DEF Receipt, GiveUp, FallbackTypes, FallbackMarks, RefusedMarks, RefusedFails, FallbackFails,
         Return, Goto, Places
<1>7. ActorsTyped
  <2>1. pc' \in [Actor -> [Message -> Places]]
    BY <1>6 DEF Inv, TypeOK, Places
  <2>2. req' \in [Actor -> [Message -> 0..MaxWakes]]
    <3>1. req \in [Actor -> [Message -> 0..MaxWakes]] /\ 0 \in 0..MaxWakes
      BY NumberFact DEF Inv, TypeOK
    <3>2. CASE req' = [req EXCEPT ![a][m] = 0]
      BY <3>1, <3>2
    <3> QED
      BY <1>6, <3>1, <3>2
  <2> QED
    BY <2>1, <2>2 DEF ActorsTyped
<1>8. \A b \in Actor, n \in Message : pc'[b][n] # "idle" => pc[b][n] # "idle" \/ mail'[n] # "none"
  BY <1>6 DEF Inv, TypeOK
<1> QED
  BY <1>1, <1>2, <1>3, <1>5, <1>7, <1>8, KeptInv

LEMMA HookInv == ASSUME Inv, HookTypes \/ HookFails \/ HookMarks PROVE Inv'
<1>1. UNCHANGED <<pc, req, of, worker, active>>
  BY DEF HookTypes, HookFails, HookMarks, actors, recipient
<1>2. MarksOnly
  BY NotifiedFact, StillMail DEF HookTypes, HookFails, HookMarks
<1>3. RestTyped
  <2>1. hook' \in 0..MaxWakes /\ fails' \in 0..MaxFails
    BY NumberFact DEF Inv, TypeOK, HookTypes, HookFails, HookMarks
  <2>2. typed' \in BOOLEAN
    BY DEF Inv, TypeOK, HookTypes, HookFails, HookMarks
  <2> QED
    BY <2>1, <2>2 DEF RestTyped
<1>4. ViewKept
  <2>1. CASE HookTypes
    BY <2>1, TypedFact, StillKept DEF HookTypes
  <2>2. CASE HookFails
    BY <2>2, TypedFact DEF HookFails, ViewTyped, ViewKept, WakeStatus
  <2>3. CASE HookMarks
    <3>1. \/ wake[hook] = "pending" /\ wake' = [wake EXCEPT ![hook] = "notified"]
          \/ UNCHANGED wake
      BY <2>3 DEF HookMarks
    <3>2. UNCHANGED <<hidden, back>> /\ hook \in Wake
      BY <2>3, NumberFact DEF HookMarks, Inv, TypeOK
    <3> QED
      BY <3>1, <3>2, TypedFact DEF ViewTyped, ViewKept, WakeStatus
  <2> QED
    BY <2>1, <2>2, <2>3
<1> QED
  BY <1>1, <1>2, <1>3, <1>4, StillTyped, KeptInv

LEMMA OtherInv == ASSUME Inv, OtherCommand PROVE Inv'
<1>1. UNCHANGED <<mail, of, pc, req, hook, typed, worker, active, fails>> /\ Command(Engine)
  BY DEF OtherCommand, actors, recipient
<1>2. ViewKept /\ MarksOnly /\ ActorsTyped /\ RestTyped
  BY <1>1, TypedFact, CommandKept, StillMail, StillTyped
<1> QED
  BY <1>1, <1>2, KeptInv

LEMMA ReadInv == ASSUME Inv, Read PROVE Inv'
<1>1. UNCHANGED <<pc, req, of, hook, fails>> /\ ActorsTyped /\ RestTyped
  <2>1. UNCHANGED <<pc, req, of, hook, fails>> /\ typed' \in BOOLEAN
    BY DEF Inv, TypeOK, Read, Look, Nothing, MarkDelivered, ListActive, CheckMailbox, Settle, actors
  <2> QED
    BY <2>1, StillTyped DEF Inv, TypeOK, RestTyped
<1>2. CASE Look \/ Nothing \/ ListActive \/ CheckMailbox
  <2>1. UNCHANGED <<mail, wake, hidden, back>>
    BY <1>2 DEF Look, Nothing, ListActive, CheckMailbox, view
  <2>2. /\ worker' \in {"idle", "list", "check", "settle"} /\ active' \subseteq Wake
        /\ \A w \in active' : wake[w] # "none"
        /\ worker' = "settle" => \A w \in active' : mail[of[w]] = "delivered"
    <3>1. CASE Look \/ Nothing \/ ListActive
      BY <3>1 DEF Inv, TypeOK, ActiveSound, Look, Nothing, ListActive, Live
    <3>2. CASE CheckMailbox
      BY <3>2, NumberFact DEF Inv, TypeOK, ActiveSound, CheckMailbox, Undelivered
    <3> QED
      BY <1>2, <3>1, <3>2
  <2> QED
    BY <1>1, <2>1, <2>2
       DEF Inv, TypeOK, MailSound, ActiveSound, SettledMeansDelivered, ActorsTyped, RestTyped, Places
<1>3. CASE \E m \in Message : MarkDelivered(m)
  <2>1. PICK m \in Message : MarkDelivered(m)
    BY <1>3
  <2>2. /\ ViewKept /\ worker' = "active" /\ active' = active
        /\ mail[m] # "none" /\ mail' = [mail EXCEPT ![m] = "delivered"]
    BY <2>1, TypedFact, CommandKept DEF MarkDelivered, Undelivered
  <2>3. \A n \in Message : /\ mail[n] # "none" => mail'[n] # "none"
                           /\ mail[n] = "delivered" => mail'[n] = "delivered"
    BY <2>2 DEF Inv, TypeOK
  <2>4. \A w \in Wake : IF wake'[w] = "none" THEN of'[w] = 0 ELSE of'[w] # 0 /\ mail'[of'[w]] # "none"
    BY <1>1, <2>2, <2>3, OfFact DEF ViewKept
  <2>5. TypeOK'
    BY <1>1, <2>2, <2>4 DEF Inv, TypeOK, ViewKept, ViewTyped, ActorsTyped, RestTyped, Places
  <2>6. MailSound'
    BY <1>1, <2>3 DEF Inv, MailSound
  <2>7. ActiveSound' /\ SettledMeansDelivered'
    BY <1>1, <2>2, <2>3, OfFact DEF Inv, TypeOK, ActiveSound, SettledMeansDelivered, ViewKept
  <2> QED
    BY <2>5, <2>6, <2>7 DEF Inv
<1>4. CASE Settle
  <2>1. PICK w \in active :
            /\ IF w \in Live THEN Command([Engine EXCEPT ![w] = "delivered"]) ELSE UNCHANGED view
            /\ active' = active \ {w}
    BY <1>4 DEF Settle
  <2>2. /\ UNCHANGED mail /\ worker = "settle" /\ worker' \in {"list", "settle"}
        /\ w \in Wake /\ wake[w] # "none" /\ mail[of[w]] = "delivered"
    BY <1>4 DEF Settle, Inv, TypeOK, ActiveSound
  <2>3. /\ ViewTyped'
        /\ \A v \in Wake : /\ wake'[v] = "none" <=> wake[v] = "none"
                           /\ wake'[v] = "delivered" => wake[v] = "delivered" \/ v = w
    <3>1. CASE w \in Live
      <4>1. [Engine EXCEPT ![w] = "delivered"] \in [Wake -> WakeStatus]
        BY TypedFact, EngineFact DEF WakeStatus
      <4>2. ViewTyped' /\ wake' = [Engine EXCEPT ![w] = "delivered"]
        BY <2>1, <3>1, <4>1, TypedFact, CommandFact
      <4>3. \A v \in Wake : v # w => wake'[v] = Engine[v]
        BY <4>2, TypedFact, EngineFact
      <4>4. wake'[w] = "delivered"
        BY <2>2, <4>2, TypedFact, EngineFact
      <4> QED
        BY <2>2, <4>2, <4>3, <4>4, TypedFact, EngineFact
    <3>2. CASE w \notin Live
      BY <2>1, <3>2, TypedFact, StillKept DEF ViewKept
    <3> QED
      BY <3>1, <3>2
  <2>5. \A v \in Wake : IF wake'[v] = "none" THEN of'[v] = 0 ELSE of'[v] # 0 /\ mail'[of'[v]] # "none"
    BY <1>1, <2>2, <2>3, OfFact
  <2>4. TypeOK'
    BY <1>1, <2>1, <2>2, <2>3, <2>5 DEF Inv, TypeOK, ViewTyped, ActorsTyped, RestTyped, Places
  <2> QED
    BY <1>1, <2>1, <2>2, <2>3, <2>4 DEF Inv, TypeOK, MailSound, ActiveSound, SettledMeansDelivered
<1> QED
  BY <1>2, <1>3, <1>4 DEF Read

LEMMA StutterInv == ASSUME Inv, UNCHANGED vars PROVE Inv'
BY DEF Inv, TypeOK, MailSound, ActiveSound, SettledMeansDelivered, vars, view, actors, recipient

------------------------------------------------------------------------------
(* What is typed is not overlooked *)

\* The worker has acknowledged m, or it has still to go back to its work.
Told(m) == mail[m] = "delivered" \/ Awake

\* Wakes are taken in order: those before a used one are settled, or failed without the
\* engine's knowledge and came back.
InOrder == \A v, w \in Wake :
    v < w /\ wake[w] # "none" =>
        wake[v] # "none" /\ (wake[v] \in {"delivered", "failed"} \/ v \in back)

\* What the hook types and what the actors wait for was queued.
Waiting(p) == p \notin {"idle", "enqueue"}
InUse ==
    /\ hook # 0 => wake[hook] # "none"
    /\ \A a \in Actor, m \in Message :
        Waiting(pc[a][m]) => req[a][m] \in Wake /\ wake[req[a][m]] # "none"

\* Whoever typed wake v: the worker is told of the message of v and of all before. The
\* engine has a wake as notified only if it was typed, whatever the view shows.
ToldUpTo(v) == \A w \in Wake : w <= v /\ wake[w] # "none" => Told(of[w])
TypedTold == \A v \in Wake : Engine[v] = "notified" \/ hook = v => ToldUpTo(v)
FallbackTold ==
    \A a \in Actor, m \in Message :
        pc[a][m] \in {"typed", "retyped"} => Told(m) /\ ToldUpTo(req[a][m])

\* While a wake is settled the worker is awake, and whoever waits for it has its message stored.
SettledTold ==
    \A a \in Actor, m \in Message :
        pc[a][m] = "wait" /\ wake[req[a][m]] = "delivered" => Told(m)

ToldInv == Inv /\ InOrder /\ InUse /\ TypedTold /\ FallbackTold /\ SettledTold

\* What a step does to the wakes: none is dropped, only one that failed without the
\* engine's knowledge comes back, a new one is the next, and only what the hook or a
\* fallback typed becomes notified.
WakeStep ==
    /\ back \subseteq back'
    /\ \A w \in Wake :
        /\ wake[w] # "none" => wake'[w] # "none" /\ of'[w] = of[w]
        /\ wake[w] \in {"delivered", "failed"} => wake'[w] = wake[w] \/ w \in back'
        /\ wake[w] = "none" /\ wake'[w] # "none" =>
            \A v \in Wake : wake[v] \notin {"pending", "notified"} /\ (wake[v] = "none" => w <= v)
        /\ Engine[w] # "notified" /\ Engine'[w] = "notified" =>
            hook = w \/ \E a \in Actor, m \in Message : pc[a][m] = "typed" /\ req[a][m] = w
        /\ wake[w] # "delivered" /\ wake'[w] = "delivered" => Awake'

\* Nobody un-tells the worker of a stored message.
TellStep == \A m \in Message : mail[m] # "none" => mail'[m] # "none" /\ (Told(m) => Told(m)')

\* The hook types a pending wake or keeps what it has.
HookStep == hook' \in {0, hook} \/ (hook' \in Wake /\ wake[hook'] = "pending" /\ typed')

\* An actor that waits got a live wake; it goes on with the same one.
ActorStep ==
    \A a \in Actor, m \in Message :
        Waiting(pc'[a][m]) =>
            \/ /\ Waiting(pc[a][m]) /\ req'[a][m] = req[a][m]
               /\ \/ pc'[a][m] \in {pc[a][m], "fallback", "refused", "refail"}
                  \/ pc'[a][m] \in {"typed", "retyped"} /\ typed'
            \/ /\ pc'[a][m] = "wait" /\ req'[a][m] \in Wake
               /\ wake'[req'[a][m]] \in {"pending", "notified"}

LEMMA StillActor == ASSUME UNCHANGED <<pc, req>> PROVE ActorStep
BY DEF ActorStep

LEMMA StillWake == ASSUME UNCHANGED <<view, of>> PROVE WakeStep
<1>1. UNCHANGED <<wake, hidden, back, of>> /\ Engine' = Engine
  BY DEF view, Engine
<1> QED
  BY <1>1 DEF WakeStep

LEMMA CommandStep == ASSUME Inv, Command(Engine), UNCHANGED of PROVE WakeStep
<1>1. ViewTyped
  BY TypedFact
<1>2. /\ wake' = Engine /\ Engine' = Engine
      /\ back' = back \cup {w \in Wake : hidden[w] # "none"}
  BY <1>1, EngineFact, CommandFact
<1>3. \A w \in Wake : wake'[w] = wake[w] \/ w \in back'
  BY <1>1, <1>2, EngineFact
<1> QED
  BY <1>1, <1>2, <1>3, EngineFact DEF WakeStep

LEMMA RefuseStep == ASSUME Inv, NEW r, Refuse(r), UNCHANGED <<of, back>> PROVE WakeStep
<1>1. CASE r \in Live
  <2>1. r \in Wake /\ wake[r] \in {"pending", "notified"} /\ wake' = [wake EXCEPT ![r] = "failed"]
    BY <1>1 DEF Live, Refuse
  <2>2. hidden' = hidden \/ hidden' = [hidden EXCEPT ![r] = wake[r]]
    BY <1>1 DEF Refuse
  <2>3. ViewTyped
    BY TypedFact
  <2>4. \A w \in Wake : wake'[w] = wake[w] \/ (w = r /\ wake'[w] = "failed")
    BY <2>1, <2>3 DEF ViewTyped
  <2>5. \A w \in Wake : Engine'[w] = "notified" => Engine[w] = "notified"
    BY <2>1, <2>2, <2>3 DEF ViewTyped, Engine
  <2> QED
    BY <2>1, <2>4, <2>5 DEF WakeStep
<1>2. CASE r \notin Live
  BY <1>2, StillWake DEF Refuse, view
<1> QED
  BY <1>1, <1>2

\* As long as the worker stays where it is, what it is told stays.
LEMMA StillTold == ASSUME MarksOnly, Awake => Awake' PROVE TellStep
BY DEF TellStep, MarksOnly, Told

Steps == WakeStep /\ TellStep /\ HookStep /\ ActorStep

LEMMA SendStep == ASSUME Inv, NEW m \in Message, Send(m) PROVE Steps
<1>1. UNCHANGED <<of, req, hook, typed, worker>> /\ (Command(Engine) \/ UNCHANGED view)
  BY DEF Send, recipient
<1>2. TellStep
  BY <1>1 DEF Inv, TypeOK, Send, TellStep, Told, Awake
<1>3. ActorStep
  BY <1>1 DEF Inv, TypeOK, Send, Goto, ActorStep, Waiting
<1> QED
  BY <1>1, <1>2, <1>3, StillWake, CommandStep DEF Steps, HookStep

LEMMA NoticeStep == ASSUME Inv, Notice PROVE Steps
<1>1. UNCHANGED <<mail, view, of, req, hook, typed, worker>>
  BY DEF Notice, recipient
<1>2. ActorStep
  BY <1>1 DEF Inv, TypeOK, Notice, ActorStep, Waiting
<1> QED
  BY <1>1, <1>2, StillWake DEF Steps, HookStep, TellStep, Told, Awake

LEMMA EnqueueStep ==
    ASSUME Inv, NEW a \in Actor, NEW m \in Message, Enqueue(a, m) PROVE Steps
<1>1. UNCHANGED <<mail, hook, typed, worker>>
  BY DEF Enqueue, recipient
<1>2. TellStep /\ HookStep
  BY <1>1 DEF HookStep, TellStep, Told, Awake
<1>3. pc' = [pc EXCEPT ![a][m] = "wait"]
  BY DEF Enqueue, Goto
<1>4. CASE Equivalent # {}
  <2>1. UNCHANGED <<view, of>>
    BY <1>4 DEF Enqueue
  <2>2. PICK w \in Equivalent : req' = [req EXCEPT ![a][m] = w]
    BY <1>4 DEF Enqueue
  <2>3. ActorStep
    BY <1>3, <2>1, <2>2 DEF Inv, TypeOK, ActorStep, Waiting, Equivalent, view
  <2> QED
    BY <1>2, <2>1, <2>3, StillWake DEF Steps
<1>5. CASE Equivalent = {}
  <2>1. PICK w \in Unused : /\ \A v \in Unused : w <= v
                            /\ Command([Engine EXCEPT ![w] = "pending"])
                            /\ of' = [of EXCEPT ![w] = m]
                            /\ req' = [req EXCEPT ![a][m] = w]
    BY <1>5 DEF Enqueue
  <2>2. w \in Wake /\ wake[w] = "none" /\ ViewTyped
    BY TypedFact DEF Unused
  <2>3. [Engine EXCEPT ![w] = "pending"] \in [Wake -> WakeStatus]
    BY <2>2, EngineFact DEF WakeStatus
  <2>4. /\ wake' = [Engine EXCEPT ![w] = "pending"] /\ Engine' = wake'
        /\ back' = back \cup {v \in Wake : hidden[v] # "none"}
    BY <2>1, <2>2, <2>3, CommandFact
  <2>5. /\ wake'[w] = "pending"
        /\ \A v \in Wake \ {w} : wake'[v] = Engine[v] /\ of'[v] = of[v]
    BY <2>1, <2>2, <2>4, EngineFact DEF Inv, TypeOK
  <2>6. ActorStep
    BY <1>3, <2>1, <2>2, <2>5 DEF Inv, TypeOK, ActorStep, Waiting
  <2>7. \A v \in Wake : wake[v] \notin {"pending", "notified"} /\ (wake[v] = "none" => w <= v)
    BY <1>5, <2>1 DEF Equivalent, Unused
  <2>8. WakeStep
    BY <2>2, <2>4, <2>5, <2>7, EngineFact DEF WakeStep
  <2> QED
    BY <1>2, <2>6, <2>8 DEF Steps
<1> QED
  BY <1>4, <1>5

LEMMA ActStep ==
    ASSUME Inv, NEW a \in Actor, NEW m \in Message,
           \/ Receipt(a, m) \/ GiveUp(a, m) \/ FallbackTypes(a, m) \/ FallbackMarks(a, m)
           \/ RefusedMarks(a, m) \/ RefusedFails(a, m) \/ FallbackFails(a, m)
    PROVE  Steps
<1>1. UNCHANGED <<of, hook, worker>> /\ typed' \in {typed, TRUE} /\ MarksOnly
  BY NotifiedFact, StillMail
     DEF Receipt, GiveUp, FallbackTypes, FallbackMarks, RefusedMarks, RefusedFails, FallbackFails,
         recipient
<1>2. TellStep /\ HookStep
  <2>1. Awake => Awake'
    BY <1>1, Zenon DEF Awake
  <2> QED
    BY <1>1, <2>1, StillTold DEF HookStep
<1>3. ActorStep
  <2>1. CASE Receipt(a, m) \/ FallbackMarks(a, m) \/ RefusedFails(a, m) \/ FallbackFails(a, m)
    <3>1. pc' = [pc EXCEPT ![a][m] = "idle"] /\ req' = [req EXCEPT ![a][m] = 0]
      BY <2>1 DEF Receipt, FallbackMarks, RefusedFails, FallbackFails, Return, Goto
    <3> QED
      BY <3>1 DEF Inv, TypeOK, ActorStep, Waiting
  <2>2. CASE GiveUp(a, m) \/ FallbackTypes(a, m) \/ RefusedMarks(a, m)
    BY <2>2 DEF Inv, TypeOK, ActorStep, Waiting, GiveUp, FallbackTypes, RefusedMarks, Goto
  <2> QED
    BY <2>1, <2>2
<1>4. WakeStep
  <2>1. CASE Receipt(a, m) \/ RefusedMarks(a, m)
    BY <1>1, <2>1, CommandStep DEF Receipt, RefusedMarks
  <2>2. CASE GiveUp(a, m) \/ FallbackTypes(a, m)
    BY <1>1, <2>2, StillWake DEF GiveUp, FallbackTypes
  <2>3. CASE RefusedFails(a, m) \/ FallbackFails(a, m)
    <3>1. UNCHANGED back /\ (Refuse(req[a][m]) \/ UNCHANGED <<wake, hidden>>)
      BY <2>3 DEF RefusedFails, FallbackFails
    <3> QED
      BY <1>1, <3>1, RefuseStep, StillWake DEF view
  <2>4. CASE FallbackMarks(a, m)
    <3>1. CASE Engine[req[a][m]] = "pending"
      <4> DEFINE f == [Engine EXCEPT ![req[a][m]] = "notified"]
      <4>1. Command(f) /\ pc[a][m] = "typed"
        BY <2>4, <3>1 DEF FallbackMarks, Return, Goto
      <4>2. ViewTyped /\ f \in [Wake -> WakeStatus]
        BY TypedFact, EngineFact DEF WakeStatus
      <4>3. /\ wake' = f /\ Engine' = f
            /\ back' = back \cup {w \in Wake : hidden[w] # "none"}
        BY <4>1, <4>2, CommandFact
      <4>4. \A w \in Wake : IF w = req[a][m] THEN f[w] = "notified" /\ Engine[w] = "pending"
                                             ELSE f[w] = Engine[w]
        BY <3>1, <4>2, EngineFact
      <4>5. \A w \in Wake : wake[w] \in {"delivered", "failed"} => wake'[w] = wake[w] \/ w \in back'
        BY <4>2, <4>3, <4>4, EngineFact
      <4>6. \A w \in Wake : wake[w] # "none" => wake'[w] # "none"
        BY <4>2, <4>3, <4>4, EngineFact
      <4>7. \A w \in Wake : /\ wake[w] = "none" => wake'[w] = "none"
                            /\ wake[w] # "delivered" => wake'[w] # "delivered"
        BY <4>2, <4>3, <4>4, EngineFact
      <4>8. \A w \in Wake : Engine[w] # "notified" /\ Engine'[w] = "notified" => w = req[a][m]
        BY <4>3, <4>4
      <4> QED
        BY <1>1, <4>1, <4>3, <4>5, <4>6, <4>7, <4>8 DEF WakeStep
    <3>2. CASE Engine[req[a][m]] # "pending"
      BY <1>1, <2>4, <3>2, CommandStep DEF FallbackMarks
    <3> QED
      BY <3>1, <3>2
  <2> QED
    BY <2>1, <2>2, <2>3, <2>4
<1> QED
  BY <1>2, <1>3, <1>4 DEF Steps

LEMMA HookSteps == ASSUME Inv, HookTypes \/ HookFails \/ HookMarks PROVE Steps
<1>1. UNCHANGED <<pc, req, of, worker>> /\ ViewTyped
  BY TypedFact DEF HookTypes, HookFails, HookMarks, actors, recipient
<1>2. CASE HookTypes
  <2>1. UNCHANGED <<mail, view>> /\ typed'
    BY <1>2 DEF HookTypes
  <2>2. HookStep
    BY <1>2 DEF HookTypes, HookStep
  <2>3. TellStep
    BY <2>1 DEF TellStep, Told, Awake
  <2> QED
    BY <1>1, <2>1, <2>2, <2>3, StillWake, StillActor DEF Steps
<1>3. CASE HookFails
  <2>1. UNCHANGED <<mail, hook, typed, hidden, back>>
    BY <1>3 DEF HookFails
  <2>2. PICK w \in Wake : wake[w] = "pending" /\ wake' = [wake EXCEPT ![w] = "failed"]
    BY <1>3 DEF HookFails
  <2>3. \A v \in Wake : wake'[v] = wake[v] \/ (v = w /\ wake'[v] = "failed")
    BY <1>1, <2>2 DEF ViewTyped
  <2>4. \A v \in Wake : Engine'[v] = "notified" => Engine[v] = "notified"
    BY <1>1, <2>1, <2>3 DEF ViewTyped, Engine
  <2>5. WakeStep
    BY <1>1, <2>1, <2>2, <2>3, <2>4 DEF WakeStep
  <2> QED
    BY <1>1, <2>1, <2>5, StillActor DEF Steps, HookStep, TellStep, Told, Awake
<1>4. CASE HookMarks
  <2>1. UNCHANGED <<typed, hidden, back>> /\ hook' = 0 /\ MarksOnly
    BY <1>4, NotifiedFact, StillMail DEF HookMarks
  <2>2. \A v \in Wake : wake'[v] = wake[v] \/ (v = hook /\ wake[v] = "pending" /\ wake'[v] = "notified")
    BY <1>1, <1>4 DEF ViewTyped, HookMarks
  <2>3. \A v \in Wake : Engine[v] # "notified" /\ Engine'[v] = "notified" => hook = v
    BY <1>1, <2>1, <2>2 DEF ViewTyped, Engine
  <2>4. WakeStep
    BY <1>1, <2>1, <2>2, <2>3 DEF WakeStep
  <2> QED
    BY <1>1, <2>1, <2>4, StillActor, StillTold DEF Steps, HookStep, Awake
<1> QED
  BY <1>2, <1>3, <1>4

LEMMA OtherStep == ASSUME Inv, OtherCommand PROVE Steps
<1>1. UNCHANGED <<mail, of, pc, req, hook, typed, worker>> /\ Command(Engine)
  BY DEF OtherCommand, actors, recipient
<1> QED
  BY <1>1, CommandStep, StillActor DEF Steps, HookStep, TellStep, Told, Awake

\* The worker goes back to its work only when nothing is undelivered.
LEMMA ReadStep == ASSUME Inv, Read PROVE Steps
<1>1. UNCHANGED <<pc, req, of, hook>>
  BY DEF Read, Look, Nothing, MarkDelivered, ListActive, CheckMailbox, Settle, actors
<1>2. HookStep /\ ActorStep
  BY <1>1, StillActor DEF HookStep
<1>3. CASE Nothing
  <2>1. UNCHANGED <<mail, view>> /\ Undelivered = {}
    BY <1>3 DEF Nothing
  <2>2. TellStep
    BY <2>1 DEF Inv, TypeOK, TellStep, Told, Undelivered
  <2> QED
    BY <1>1, <1>2, <2>1, <2>2, StillWake DEF Steps
<1>4. CASE Look \/ ListActive \/ CheckMailbox
  <2>1. UNCHANGED <<mail, view>> /\ Awake'
    BY <1>4 DEF Look, ListActive, CheckMailbox, Awake
  <2>2. TellStep
    BY <2>1 DEF TellStep, Told
  <2> QED
    BY <1>1, <1>2, <2>1, <2>2, StillWake DEF Steps
<1>5. CASE \E m \in Message : MarkDelivered(m)
  <2>1. Command(Engine) /\ Awake'
    BY <1>5 DEF MarkDelivered, Awake
  <2>2. TellStep
    BY <1>5, <2>1 DEF Inv, TypeOK, MarkDelivered, TellStep, Told
  <2> QED
    BY <1>1, <1>2, <2>1, <2>2, CommandStep DEF Steps
<1>6. CASE Settle
  <2>1. UNCHANGED mail /\ Awake'
    BY <1>6 DEF Settle, Awake
  <2>2. PICK r \in active :
            IF r \in Live THEN Command([Engine EXCEPT ![r] = "delivered"]) ELSE UNCHANGED view
    BY <1>6 DEF Settle
  <2>3. CASE r \in Live
    <3>1. ViewTyped /\ [Engine EXCEPT ![r] = "delivered"] \in [Wake -> WakeStatus]
      BY TypedFact, EngineFact DEF WakeStatus
    <3>2. /\ wake' = [Engine EXCEPT ![r] = "delivered"] /\ Engine' = wake'
          /\ back' = back \cup {w \in Wake : hidden[w] # "none"}
      BY <2>2, <2>3, <3>1, CommandFact
    <3>3. \A w \in Wake : wake'[w] = Engine[w] \/ (w = r /\ wake'[w] = "delivered")
      BY <3>1, <3>2, EngineFact
    <3>4. r \in Wake /\ wake[r] \in {"pending", "notified"}
      BY <2>3 DEF Live
    <3>5. \A w \in Wake : /\ wake[w] # "none" => wake'[w] # "none"
                          /\ wake[w] = "none" => wake'[w] = "none"
                          /\ Engine[w] # "notified" => Engine'[w] # "notified"
      BY <3>1, <3>2, <3>3, <3>4, EngineFact
    <3>6. \A w \in Wake : wake[w] \in {"delivered", "failed"} => wake'[w] = wake[w] \/ w \in back'
      BY <3>1, <3>2, <3>3, <3>4, EngineFact
    <3>7. WakeStep
      BY <1>1, <2>1, <3>2, <3>5, <3>6 DEF WakeStep
    <3> QED
      BY <1>2, <2>1, <3>7 DEF Steps, TellStep, Told
  <2>4. CASE r \notin Live
    BY <1>1, <1>2, <2>1, <2>2, <2>4, StillWake DEF Steps, TellStep, Told
  <2> QED
    BY <2>3, <2>4
<1> QED
  BY <1>3, <1>4, <1>5, <1>6 DEF Read

LEMMA StepFact == ASSUME Inv, [Next]_vars PROVE Steps
<1>1. CASE UNCHANGED vars
  BY <1>1, StillWake, StillActor DEF Steps, vars, actors, recipient, HookStep, TellStep, Told, Awake
<1> QED
  BY <1>1, SendStep, NoticeStep, OtherStep, EnqueueStep, ActStep, HookSteps, ReadStep DEF Next, Act

LEMMA InitTold == Init => ToldInv
<1> SUFFICES ASSUME Init PROVE ToldInv
  OBVIOUS
<1>1. InOrder /\ InUse /\ TypedTold /\ FallbackTold /\ SettledTold
  BY NumberFact DEF Init, InOrder, InUse, TypedTold, FallbackTold, SettledTold, Waiting, Nowhere, Engine
<1> QED
  BY <1>1, InitInv DEF ToldInv

\* A step keeps what the worker is told of, up to a used wake.
LEMMA UpToStays ==
    ASSUME Inv, InOrder, WakeStep, TellStep, NEW v \in Wake, wake[v] # "none", ToldUpTo(v)
    PROVE  ToldUpTo(v)'
<1> SUFFICES ASSUME NEW w \in Wake, w <= v, wake'[w] # "none" PROVE Told(of[w])' /\ of'[w] = of[w]
  BY DEF ToldUpTo, Told
<1>1. w \in Nat /\ v \in Nat
  BY DEF Wake
<1>2. wake[w] # "none"
  BY <1>1 DEF InOrder
<1>3. of'[w] = of[w] /\ of[w] \in Message /\ mail[of[w]] # "none"
  BY <1>2, OfFact DEF WakeStep
<1>4. Told(of[w])
  BY <1>2 DEF ToldUpTo
<1> QED
  BY <1>3, <1>4 DEF TellStep

LEMMA ToldStep == ASSUME ToldInv, [Next]_vars, Inv' PROVE ToldInv'
<1>0. Inv /\ WakeStep /\ TellStep /\ HookStep /\ ActorStep
  BY StepFact DEF ToldInv, Steps
<1>1. InOrder'
  <2> SUFFICES ASSUME NEW v \in Wake, NEW w \in Wake, v < w, wake'[w] # "none"
      PROVE  wake'[v] # "none" /\ (wake'[v] \in {"delivered", "failed"} \/ v \in back')
    BY DEF InOrder
  <2>1. v \in Nat /\ w \in Nat
    BY DEF Wake
  <2>2. wake[v] \in {"none", "pending", "notified", "delivered", "failed"}
    BY <1>0 DEF Inv, TypeOK, WakeStatus
  <2>3. wake[v] # "none" /\ (wake[v] \in {"delivered", "failed"} \/ v \in back)
    <3>1. CASE wake[w] # "none"
      BY <3>1 DEF ToldInv, InOrder
    <3>2. CASE wake[w] = "none"
      BY <1>0, <2>1, <2>2, <3>2 DEF WakeStep
    <3> QED
      BY <3>1, <3>2
  <2> QED
    BY <1>0, <2>3 DEF WakeStep
<1>2. InUse'
  <2>1. hook' # 0 => wake'[hook'] # "none"
    BY <1>0, NumberFact DEF ToldInv, InUse, Inv, TypeOK, HookStep, WakeStep
  <2>2. ASSUME NEW a \in Actor, NEW m \in Message, Waiting(pc'[a][m])
        PROVE  req'[a][m] \in Wake /\ wake'[req'[a][m]] # "none"
    BY <1>0, <2>2 DEF ToldInv, InUse, ActorStep, WakeStep
  <2> QED
    BY <2>1, <2>2 DEF InUse, Waiting
<1>3. TypedTold'
  <2> SUFFICES ASSUME NEW v \in Wake, Engine'[v] = "notified" \/ hook' = v PROVE ToldUpTo(v)'
    BY DEF TypedTold
  <2>1. CASE wake[v] # "none" /\ ToldUpTo(v)
    BY <1>0, <2>1, UpToStays DEF ToldInv
  <2>2. CASE Awake'
    BY <2>2 DEF ToldUpTo, Told
  <2>3. Engine[v] = "notified" \/ hook = v => wake[v] # "none" /\ ToldUpTo(v)
    BY <1>0, NumberFact, TypedFact, EngineFact DEF ToldInv, InUse, TypedTold
  <2>4. CASE Engine'[v] = "notified" /\ Engine[v] # "notified"
    <3>1. CASE hook = v
      BY <2>1, <2>3, <3>1
    <3>2. CASE \E a \in Actor, m \in Message : pc[a][m] = "typed" /\ req[a][m] = v
      BY <2>1, <3>2 DEF ToldInv, InUse, FallbackTold, Waiting
    <3> QED
      BY <1>0, <2>4, <3>1, <3>2 DEF WakeStep
  <2>5. CASE hook' = v /\ hook # v
    BY <1>0, <2>2, <2>5, NumberFact DEF HookStep, Awake
  <2> QED
    BY <2>1, <2>3, <2>4, <2>5
<1>4. FallbackTold'
  <2> SUFFICES ASSUME NEW a \in Actor, NEW m \in Message, pc'[a][m] \in {"typed", "retyped"},
                      NEW v, v = req[a][m]
      PROVE  Told(m)' /\ ToldUpTo(v)' /\ req'[a][m] = v
    BY DEF FallbackTold, ToldUpTo, Told
  <2>1. req'[a][m] = v /\ (pc[a][m] \in {"typed", "retyped"} \/ typed')
    BY <1>0 DEF ActorStep, Waiting
  <2>2. CASE typed'
    BY <2>1, <2>2 DEF Told, ToldUpTo, Awake
  <2>3. CASE pc[a][m] \in {"typed", "retyped"}
    <3>1. mail[m] # "none" /\ v \in Wake /\ wake[v] # "none"
      BY <1>0, <2>3 DEF Inv, MailSound, ToldInv, InUse, Waiting
    <3>2. Told(m) /\ ToldUpTo(v)
      BY <2>3 DEF ToldInv, FallbackTold
    <3>3. Told(m)'
      BY <1>0, <3>1, <3>2 DEF TellStep
    <3>4. ToldUpTo(v)'
      BY <1>0, <3>1, <3>2, UpToStays DEF ToldInv
    <3> QED
      BY <2>1, <3>3, <3>4
  <2> QED
    BY <2>1, <2>2, <2>3
<1>5. SettledTold'
  <2> SUFFICES ASSUME NEW a \in Actor, NEW m \in Message,
                      pc'[a][m] = "wait", wake'[req'[a][m]] = "delivered"
      PROVE  Told(m)'
    BY DEF SettledTold
  <2>1. pc[a][m] = "wait" /\ req'[a][m] = req[a][m]
    BY <1>0 DEF ActorStep, Waiting
  <2>2. mail[m] # "none" /\ req[a][m] \in Wake
    BY <1>0, <2>1 DEF Inv, MailSound, ToldInv, InUse, Waiting
  <2>3. CASE wake[req[a][m]] = "delivered"
    BY <1>0, <2>1, <2>2, <2>3 DEF ToldInv, SettledTold, TellStep
  <2>4. CASE wake[req[a][m]] # "delivered"
    BY <1>0, <2>1, <2>2, <2>4 DEF WakeStep, Told
  <2> QED
    BY <2>3, <2>4
<1> QED
  BY <1>1, <1>2, <1>3, <1>4, <1>5 DEF ToldInv

------------------------------------------------------------------------------
(* Theorems *)

\* MailboxWake keeps the inductive invariant.
THEOREM Invariance == Spec => []Inv
<1>1. Inv /\ [Next]_vars => Inv'
  BY SendInv, NoticeInv, OtherInv, EnqueueInv, ActInv, HookInv, ReadInv, StutterInv DEF Next, Act
<1> QED
  BY <1>1, InitInv, PTL DEF Spec

\* Every variable keeps its type, and every wake names a message of the mailbox.
THEOREM TypeCorrect == Spec => []TypeOK
<1>1. Inv => TypeOK
  BY DEF Inv
<1> QED
  BY <1>1, Invariance, PTL

\* A wake is settled only after the worker acknowledged the message it was queued for.
THEOREM SettledSafe == Spec => []SettledMeansDelivered
<1>1. Inv => SettledMeansDelivered
  BY DEF Inv
<1> QED
  BY <1>1, Invariance, PTL

\* MailboxWake also keeps what says whom the worker is told of.
THEOREM ToldInvariance == Spec => []ToldInv
<1>1. ToldInv /\ Inv /\ Inv' /\ [Next]_vars => ToldInv'
  BY ToldStep
<1> QED
  BY <1>1, InitTold, Invariance, PTL DEF Spec

\* A wake that was typed, by the hook or by an actor, is never overlooked: a worker that is
\* back at its work has acknowledged the message that it was queued for.
THEOREM NotOverlooked == Spec => []TypedMeansSeen
<1>1. ASSUME ToldInv PROVE TypedMeansSeen
  <2> SUFFICES ASSUME NEW w \in Wake, wake[w] = "notified" \/ hook = w PROVE Told(of[w])
    BY DEF TypedMeansSeen, Told
  <2>1. wake[w] # "none" /\ w <= w
    BY <1>1, NumberFact DEF ToldInv, InUse, Wake
  <2>2. wake[w] = "notified" => Engine[w] = "notified"
    BY <1>1 DEF ToldInv, Inv, TypeOK, Engine
  <2> QED
    BY <1>1, <2>1, <2>2 DEF ToldInv, TypedTold, ToldUpTo
<1> QED
  BY <1>1, ToldInvariance, PTL

\* A message with a wake of its own is marked as notified only when the worker was told
\* of it, or by one that waits for a wake that failed without the engine's knowledge and
\* came back.
THEOREM MarkedOnlyIfTold == Spec => MarkedMeansTold
<1> DEFINE Step == \A m \in Message :
        mail[m] = "new" /\ mail'[m] = "notified" /\ (\E w \in Wake : of[w] = m) =>
            Awake \/ \E a \in Actor : req[a][m] \in back
<1>1. ASSUME ToldInv, [Next]_vars PROVE Step
  <2> SUFFICES ASSUME NEW m \in Message, NEW w \in Wake,
                      mail[m] = "new", mail'[m] = "notified", of[w] = m,
                      \A a \in Actor : req[a][m] \notin back
      PROVE  Told(m)
    BY DEF Told
  <2>1. wake[w] # "none" /\ w \in Nat /\ of[w] # 0
    BY <1>1, NumberFact DEF ToldInv, Inv, TypeOK, Wake
  <2>2. ASSUME NEW n, mail' = Notified(n) PROVE n = m
    BY <1>1, <2>2 DEF ToldInv, Inv, TypeOK, Notified
  <2>3. CASE \E a \in Actor : Receipt(a, m)
    <3>1. PICK a \in Actor : Receipt(a, m)
      BY <2>3
    <3>2. pc[a][m] = "wait" /\ wake[req[a][m]] \in {"notified", "delivered"}
      BY <3>1 DEF Receipt, Return, Goto
    <3>3. CASE wake[req[a][m]] = "delivered"
      BY <1>1, <3>2, <3>3 DEF ToldInv, SettledTold
    <3>4. CASE wake[req[a][m]] = "notified"
      <4>1. req[a][m] \in Wake /\ req[a][m] \in Nat
        BY <1>1, <3>2 DEF ToldInv, InUse, Waiting, Wake
      <4>3. Engine[req[a][m]] = "notified"
        BY <1>1, <3>4, <4>1 DEF ToldInv, Inv, TypeOK, Engine
      <4>2. w <= req[a][m]
        BY <1>1, <2>1, <3>4, <4>1 DEF ToldInv, InOrder
      <4> QED
        BY <1>1, <2>1, <4>1, <4>2, <4>3 DEF ToldInv, TypedTold, ToldUpTo
    <3> QED
      BY <3>2, <3>3, <3>4
  <2>4. CASE \E a \in Actor : FallbackMarks(a, m) \/ RefusedMarks(a, m)
    BY <1>1, <2>4 DEF FallbackMarks, RefusedMarks, Return, Goto, ToldInv, FallbackTold
  <2>5. CASE HookMarks
    <3>1. hook \in Wake /\ mail' = Notified(of[hook])
      BY <1>1, <2>5, NumberFact DEF HookMarks, ToldInv, Inv, TypeOK
    <3>2. of[hook] = m /\ wake[hook] # "none" /\ hook <= hook
      BY <1>1, <2>2, <3>1, NumberFact DEF ToldInv, InUse, Wake
    <3> QED
      BY <1>1, <3>1, <3>2 DEF ToldInv, TypedTold, ToldUpTo
  <2>6. \A a \in Actor, n \in Message :
            Receipt(a, n) \/ FallbackMarks(a, n) \/ RefusedMarks(a, n) => mail' = Notified(n)
    BY DEF Receipt, FallbackMarks, RefusedMarks
  <2>7. CASE \E n \in Message : MarkDelivered(n) \/ Send(n)
    BY <1>1, <2>7 DEF ToldInv, Inv, TypeOK, MarkDelivered, Send
  <2>8. mail' # mail
    OBVIOUS
  <2> QED
    BY <1>1, <2>2, <2>3, <2>4, <2>5, <2>6, <2>7, <2>8
       DEF Next, vars, Act, Notice, OtherCommand, Enqueue, GiveUp, FallbackTypes, FallbackFails,
           RefusedFails, HookTypes, HookFails, Read, Look, Nothing, ListActive, CheckMailbox, Settle
<1>2. ToldInv /\ [Next]_vars => [Step]_vars
  BY <1>1
<1> QED
  BY <1>2, ToldInvariance, PTL DEF Spec, MarkedMeansTold
==============================================================================
