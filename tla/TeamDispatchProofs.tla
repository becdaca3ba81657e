------------------------- MODULE TeamDispatchProofs -------------------------
(* TeamDispatch keeps its types and lets one process type a request at a time; *)
(* without the bridge it never takes a status back and bounds the attempts;    *)
(* for any number of processes, requests, attempts and losses.                 *)
EXTENDS TeamDispatch, FiniteSetTheorems, WellFoundedInduction, TLAPS

------------------------------------------------------------------------------
(* The inductive invariant *)

Place == Locked \cup {"idle", "inject", "finalize", "release", "remove", "next"}

\* A process has claims until it is done with them; it takes the lock without any only
\* to write down what it passed over, with the bridge.
Busy ==
    \A h \in Hook :
        /\ pc[h] = "idle" => claims[h] = {}
        /\ claims[h] = {} => pc[h] = "idle" \/ (pc[h] = "claim" /\ bridge)
        /\ pc[h] = "command" => bridge

\* Without the bridge the copy of the process that has the lock is the list.
FreshCopy ==
    ~bridge => \A h \in Hook :
        /\ pc[h] \in Locked => copy[h] = list
        /\ pc[h] = "write" => Current(h) \in Pending(copy[h])

\* Without the bridge what was not queued is not in the list.
Queued == ~bridge => \A r \in Request : r > queued => list[r].status = "none"

\* Who is at a request has its lease, or lost it to somebody.
Kept == \A r \in Request : \A h \in Owners(r) : lease[r] = h \/ r \in late[h]

\* Who is at a request without its lease is counted as lost.
Rivals(r) == Owners(r) \ {lease[r]}
RivalsLost == \A r \in Request : Cardinality(Rivals(r)) <= lost[r]

Inv == TypeOK /\ Busy /\ FreshCopy /\ Queued /\ Kept /\ RivalsLost

------------------------------------------------------------------------------
(* Lemmas *)

\* The first of some requests is one of them.
LEMMA FirstFact ==
    ASSUME NEW S \in SUBSET Request, S # {}
    PROVE  First(S) \in S
<1>1. S \subseteq Nat
  BY BoundAssumption DEF Request
<1>2. PICK r \in S : \A q \in S : ~(<<q, r>> \in OpToRel(<, Nat))
  BY <1>1, WFMin, NatLessThanWellFounded
<1>3. ASSUME NEW q \in S PROVE r <= q
  <2>1. q \in Nat /\ r \in Nat /\ <<q, r>> \in Nat \X Nat
    BY <1>1
  <2>2. ~(q < r)
    BY <1>2, <2>1 DEF OpToRel
  <2> QED
    BY <2>1, <2>2
<1> QED
  BY <1>3 DEF First

\* A process that has claims is at one of them.
LEMMA CurrentFact ==
    ASSUME Inv, NEW h \in Hook, pc[h] \notin {"idle", "claim"}
    PROVE  Current(h) \in claims[h] /\ Current(h) \in Request
<1>1. claims[h] \in SUBSET Request /\ claims[h] # {}
  BY DEF Inv, TypeOK, Busy
<1> QED
  BY <1>1, FirstFact DEF Current

\* What the owners and the counts are made of.
LEMMA NumberFact ==
    /\ \A n \in 0..MaxLost : n \in Nat /\ (n < MaxLost => n + 1 \in 0..MaxLost)
    /\ \A n \in 0..MaxTyped : n # MaxTyped => n + 1 \in 0..MaxTyped
    /\ 0 \in 0..MaxLost /\ 0 \in 0..MaxTyped
BY BoundAssumption

LEMMA AtFact ==
    ASSUME NEW status \in Status, NEW n \in Nat
    PROVE  At(status, n) \in Entry /\ At(status, n).status = status
BY DEF At, Entry

LEMMA OwnersFinite ==
    ASSUME NEW r
    PROVE  /\ IsFiniteSet(Owners(r)) /\ IsFiniteSet(Rivals(r))
           /\ Cardinality(Owners(r)) \in Nat /\ Cardinality(Rivals(r)) \in Nat
<1>1. Owners(r) \in SUBSET Hook /\ Rivals(r) \in SUBSET Hook
  BY DEF Owners, Rivals
<1> QED
  BY <1>1, HookAssumption, FS_Subset, FS_CardinalityType

LEMMA OwnersFiniteNext ==
    ASSUME NEW r
    PROVE  /\ IsFiniteSet(Owners(r)') /\ IsFiniteSet(Rivals(r)')
           /\ Cardinality(Owners(r)') \in Nat /\ Cardinality(Rivals(r)') \in Nat
<1>1. Owners(r)' \in SUBSET Hook /\ Rivals(r)' \in SUBSET Hook
  BY DEF Owners, Rivals
<1> QED
  BY <1>1, HookAssumption, FS_Subset, FS_CardinalityType

LEMMA RivalsCount ==
    ASSUME NEW r
    PROVE  Cardinality(Owners(r)) <= Cardinality(Rivals(r)) + 1
<1>1. Cardinality(Owners(r) \ {lease[r]}) = IF lease[r] \in Owners(r)
        THEN Cardinality(Owners(r)) - 1 ELSE Cardinality(Owners(r))
  BY OwnersFinite, FS_RemoveElement
<1>2. Cardinality(Owners(r)) \in Nat /\ Rivals(r) = Owners(r) \ {lease[r]}
  BY OwnersFinite DEF Rivals
<1>3. CASE lease[r] \in Owners(r)
  BY <1>1, <1>2, <1>3
<1>4. CASE lease[r] \notin Owners(r)
  BY <1>1, <1>2, <1>4
<1> QED
  BY <1>3, <1>4

\* A step that adds nobody without a lease keeps the bound.
LEMMA RivalsShrink ==
    ASSUME Inv, TypeOK',
           \A r \in Request : Rivals(r)' \subseteq Rivals(r) /\ lost[r] <= lost'[r]
    PROVE  RivalsLost'
<1> SUFFICES ASSUME NEW r \in Request PROVE Cardinality(Rivals(r)') <= lost'[r]
  BY DEF RivalsLost
<1>1. Cardinality(Rivals(r)') <= Cardinality(Rivals(r))
  BY OwnersFinite, FS_Subset
<1>2. Cardinality(Rivals(r)) <= lost[r] /\ lost[r] \in Nat /\ lost'[r] \in Nat
  BY NumberFact DEF Inv, RivalsLost, TypeOK
<1> QED
  BY <1>1, <1>2, OwnersFinite, OwnersFiniteNext

\* A step of one process within its turn, or of nobody, that leaves the leases alone.
LEMMA RivalsSame ==
    ASSUME Inv, TypeOK', UNCHANGED <<claims, lease>>,
           \A h \in Hook : pc[h] = "next" => pc'[h] = "next",
           \A r \in Request : lost[r] <= lost'[r]
    PROVE  RivalsLost'
<1>1. \A r \in Request : Rivals(r)' \subseteq Rivals(r)
  BY DEF Rivals, Owners, Current
<1> QED
  BY <1>1, RivalsShrink

LEMMA LostSame ==
    ASSUME Inv, UNCHANGED lost
    PROVE  \A r \in Request : lost[r] <= lost'[r]
BY NumberFact DEF Inv, TypeOK

LEMMA LostOneMore ==
    ASSUME Inv, Lossy, NEW q \in Request, lost' = [lost EXCEPT ![q] = @ + 1]
    PROVE  /\ lost' \in [Request -> 0..MaxLost]
           /\ \A r \in Request : lost[r] <= lost'[r]
BY NumberFact DEF Inv, TypeOK, Lossy

LEMMA RenderFact ==
    ASSUME NEW log \in [Request -> Status]
    PROVE  Render(log) \in [Request -> Entry]
BY AtFact DEF Render

LEMMA RenderedFact ==
    ASSUME Inv, Rendered, engine' \in [Request -> Status]
    PROVE  list' \in [Request -> Entry] /\ typed' \in [Request -> 0..MaxTyped]
<1>1. list' \in [Request -> Entry]
  BY RenderFact DEF Rendered
<1>2. typed' \in [Request -> 0..MaxTyped]
  BY NumberFact DEF Rendered, Inv, TypeOK
<1> QED
  BY <1>1, <1>2

LEMMA NoCopyFact == NoCopy \in [Request -> Entry]
BY AtFact DEF NoCopy, Status

\* A step that adds no owner and leaves the leases alone keeps them.
LEMMA KeptSame ==
    ASSUME Inv, UNCHANGED lease, \A h \in Hook : late[h] \subseteq late'[h],
           \A r \in Request : Owners(r)' \subseteq Owners(r)
    PROVE  Kept'
<1> SUFFICES ASSUME NEW r \in Request, NEW h \in Owners(r)'
             PROVE  lease[r] = h \/ r \in late'[h]
  BY DEF Kept
<1>1. h \in Owners(r) /\ h \in Hook
  BY DEF Owners
<1> QED
  BY <1>1 DEF Inv, Kept

\* A step of one process within its turn keeps what was queued and the leases.
LEMMA WithinSame ==
    ASSUME Inv, UNCHANGED <<claims, lease, late, bridge, queued>>,
           \A h \in Hook : pc[h] = "next" => pc'[h] = "next",
           ~bridge => \A r \in Request : list[r].status = "none" => list'[r].status = "none"
    PROVE  Queued' /\ Kept'
<1>1. \A r \in Request : Owners(r)' \subseteq Owners(r)
  BY DEF Owners, Current
<1>2. Kept'
  BY <1>1, KeptSame
<1>3. Queued'
  BY DEF Inv, Queued
<1> QED
  BY <1>2, <1>3

LEMMA VerdictFact ==
    ASSUME Inv, NEW h \in Hook, pc[h] \notin {"idle", "claim"}
    PROVE  /\ Verdict(h) \in Entry
           /\ Verdict(h).status \in {"pending", "notified", "failed"}
<1> DEFINE attempts == copy[h][Current(h)].attempts + 1
<1>1. attempts \in Nat
  BY CurrentFact DEF Inv, TypeOK, Entry
<1>2. /\ At("notified", 0) \in Entry /\ At("notified", 0).status = "notified"
      /\ At("failed", 0) \in Entry /\ At("failed", 0).status = "failed"
      /\ At("pending", attempts) \in Entry /\ At("pending", attempts).status = "pending"
  BY <1>1, AtFact DEF Status
<1> QED
  BY <1>2 DEF Verdict

------------------------------------------------------------------------------
(* Every step keeps the invariant *)

LEMMA InitInv == Init => Inv
<1> SUFFICES ASSUME Init PROVE Inv
  OBVIOUS
<1>1. TypeOK
  BY NumberFact, NoCopyFact, BoundAssumption DEF Init, TypeOK, Locked, Status
<1>2. Busy /\ FreshCopy /\ Queued /\ Kept
  BY AtFact DEF Init, Busy, FreshCopy, Queued, Kept, Owners, Locked, NoCopy, Status
<1>3. ASSUME NEW r \in Request PROVE Cardinality(Rivals(r)) <= lost[r]
  <2>1. Rivals(r) = {}
    BY DEF Init, Rivals, Owners
  <2> QED
    BY <2>1, FS_EmptySet DEF Init
<1> QED
  BY <1>1, <1>2, <1>3 DEF Inv, RivalsLost

\* The steps of senders, workers and the engine change only the list: with the
\* bridge, or while nobody has the lock.
LEMMA ListInv ==
    ASSUME Inv, UNCHANGED <<bridge, lock, lease, hooks, lost, late>>, pane' \in BOOLEAN,
           list' \in [Request -> Entry], engine' \in [Request -> Status],
           typed' \in [Request -> 0..MaxTyped], queued' \in 0..MaxRequests,
           bridge \/ lock = Free \/ UNCHANGED list, Queued'
    PROVE  Inv'
<1>1. TypeOK'
  BY DEF Inv, TypeOK, hooks
<1>2. Busy'
  BY DEF Inv, Busy, hooks
<1>3. FreshCopy'
  BY BoundAssumption DEF Inv, TypeOK, FreshCopy, hooks, Current, Pending, Locked
<1>4. RivalsLost'
  BY <1>1, LostSame, RivalsSame DEF hooks
<1>5. Kept'
  BY KeptSame DEF hooks, Owners, Current
<1> QED
  BY <1>1, <1>2, <1>3, <1>4, <1>5 DEF Inv

LEMMA OthersInv ==
    ASSUME Inv,
           \/ \E r \in Request : Enqueue(r)
           \/ \E r \in Request, status \in Status : Marks(r, status) \/ Transition(r, status)
           \/ OtherCommand \/ RecordPane
    PROVE  Inv'
<1> USE DEF Status
<1>1. ASSUME NEW r \in Request, Enqueue(r) PROVE Inv'
  <2>1. engine' \in [Request -> Status]
    BY <1>1 DEF Inv, TypeOK, Enqueue, Command
  <2>2. list' \in [Request -> Entry] /\ typed' \in [Request -> 0..MaxTyped]
    <3>1. At("pending", 0) \in Entry
      BY AtFact
    <3>2. Rendered \/ (list' = [list EXCEPT ![r] = At("pending", 0)] /\ typed' = typed)
      BY <1>1 DEF Enqueue, Command
    <3> QED
      BY <2>1, <3>1, <3>2, RenderedFact DEF Inv, TypeOK
  <2>3. queued' = r /\ r = queued + 1 /\ queued \in Nat /\ queued' \in 0..MaxRequests
    BY <1>1, BoundAssumption DEF Enqueue, Inv, TypeOK, Request
  <2>4. UNCHANGED <<bridge, pane, lock, lease, hooks, lost, late>> /\ lock = Free
    BY <1>1 DEF Enqueue, settings
  <2>5. Queued'
    <3> SUFFICES ASSUME ~bridge, NEW q \in Request, q > r PROVE list'[q].status = "none"
      BY <2>3, <2>4 DEF Queued
    <3>1. q # r /\ q > queued
      BY <2>3 DEF Request
    <3>2. list'[q] = list[q]
      BY <1>1, <3>1 DEF Enqueue, Inv, TypeOK
    <3> QED
      BY <3>1, <3>2 DEF Inv, Queued
  <2> QED
    BY <2>1, <2>2, <2>3, <2>4, <2>5, ListInv DEF Inv, TypeOK
<1>2. ASSUME NEW r \in Request, NEW status \in Status, Marks(r, status) PROVE Inv'
  <2>1. engine' \in [Request -> Status]
    BY <1>2 DEF Inv, TypeOK, Marks, Command
  <2>2. list' \in [Request -> Entry] /\ typed' \in [Request -> 0..MaxTyped]
    BY <1>2, <2>1, RenderedFact DEF Marks, Command
  <2>3. UNCHANGED <<bridge, pane, queued, lock, lease, hooks, lost, late>> /\ bridge
    BY <1>2 DEF Marks, settings
  <2> QED
    BY <2>1, <2>2, <2>3, ListInv DEF Inv, TypeOK, Queued
<1>3. ASSUME NEW r \in Request, NEW status \in Status, Transition(r, status) PROVE Inv'
  <2>1. list' \in [Request -> Entry]
    BY <1>3, AtFact DEF Inv, TypeOK, Transition
  <2>2. /\ UNCHANGED <<bridge, pane, queued, engine, lock, lease, hooks, typed, lost, late>>
        /\ lock = Free
    BY <1>3 DEF Transition, settings
  <2>3. Queued'
    BY <1>3, <2>2 DEF Inv, TypeOK, Transition, Queued, Allowed
  <2> QED
    BY <2>1, <2>2, <2>3, ListInv DEF Inv, TypeOK
<1>4. ASSUME OtherCommand PROVE Inv'
  <2>1. engine' \in [Request -> Status]
    BY <1>4 DEF Inv, TypeOK, OtherCommand
  <2>2. list' \in [Request -> Entry] /\ typed' \in [Request -> 0..MaxTyped]
    BY <1>4, <2>1, RenderedFact DEF OtherCommand
  <2>3. UNCHANGED <<bridge, pane, queued, lock, lease, hooks, lost, late>> /\ bridge
    BY <1>4 DEF OtherCommand, settings
  <2> QED
    BY <2>1, <2>2, <2>3, ListInv DEF Inv, TypeOK, Queued
<1>5. ASSUME RecordPane PROVE Inv'
  <2>1. /\ UNCHANGED <<bridge, queued, list, engine, lock, lease, hooks, typed, lost, late>>
        /\ pane' \in BOOLEAN
    BY <1>5 DEF RecordPane
  <2> QED
    BY <2>1, ListInv DEF Inv, TypeOK, Queued
<1> QED
  BY <1>1, <1>2, <1>3, <1>4, <1>5

\* A claim adds an owner: the only one of a request that was free, another one of a
\* request whose owner is slow, which is counted as a loss.
LEMMA ClaimSets ==
    ASSUME Inv, NEW h \in Hook, Claim(h), NEW r \in Request
    PROVE  /\ h \notin Owners(r)
           /\ \/ Rivals(r)' = Rivals(r) /\ lost'[r] = lost[r]
              \/ Rivals(r)' = Owners(r) /\ lost'[r] = lost[r] + 1
           /\ list[r].status # "pending" => Owners(r)' = Owners(r) /\ lost'[r] = lost[r]
<1>1. PICK slow \in SUBSET Slow :
        /\ claims' = [claims EXCEPT ![h] = slow \cup Claimable]
        /\ lease' = [q \in Request |-> IF q \in slow \cup Claimable THEN h ELSE lease[q]]
        /\ lost' = [q \in Request |-> IF q \in slow THEN lost[q] + 1 ELSE lost[q]]
  BY DEF Claim
<1>2. pc' = [pc EXCEPT ![h] = "claim"] /\ pc[h] = "idle" /\ claims[h] = {}
  BY DEF Claim, Goto, Inv, Busy
<1>3. h \notin Owners(r)
  BY <1>2 DEF Owners
<1>4. Owners(r)' = IF r \in slow \cup Claimable THEN Owners(r) \cup {h} ELSE Owners(r)
  BY <1>1, <1>2 DEF Inv, TypeOK, Owners, Current
<1>5. CASE r \in slow
  <2>1. Rivals(r)' = Owners(r)
    BY <1>1, <1>3, <1>4, <1>5 DEF Rivals
  <2> QED
    BY <1>1, <1>3, <1>5, <2>1 DEF Slow, Pending
<1>6. CASE r \in Claimable /\ r \notin slow
  <2>1. Rivals(r)' = Owners(r)
    BY <1>1, <1>3, <1>4, <1>6 DEF Rivals
  <2>2. Rivals(r) = Owners(r)
    BY <1>6, BoundAssumption DEF Rivals, Owners, Claimable
  <2> QED
    BY <1>1, <1>3, <1>6, <2>1, <2>2 DEF Pending, Claimable
<1>7. CASE r \notin slow \cup Claimable
  BY <1>1, <1>3, <1>4, <1>7 DEF Rivals
<1> QED
  BY <1>5, <1>6, <1>7

LEMMA ClaimInv == ASSUME Inv, NEW h \in Hook, Claim(h) PROVE Inv'
<1>1. PICK slow \in SUBSET Slow :
        /\ slow \cup Claimable # {} \/ bridge
        /\ claims' = [claims EXCEPT ![h] = slow \cup Claimable]
        /\ lease' = [r \in Request |-> IF r \in slow \cup Claimable THEN h ELSE lease[r]]
        /\ lost' = [r \in Request |-> IF r \in slow THEN lost[r] + 1 ELSE lost[r]]
        /\ late' = [k \in Hook |-> late[k] \cup {r \in slow : lease[r] = k}]
  BY DEF Claim
<1>2. /\ slow \cup Claimable \in SUBSET Request
      /\ \A r \in slow : lost[r] < MaxLost
      /\ \A r \in Claimable : lease[r] \in {Free, Dead}
  BY DEF Pending, Claimable, Slow, Lossy
<1>3. /\ pc' = [pc EXCEPT ![h] = "claim"] /\ pc[h] = "idle" /\ claims[h] = {}
      /\ lock = Free /\ lock' = h
  BY DEF Claim, Goto, Inv, Busy
<1>4. /\ copy' = [copy EXCEPT ![h] = list]
      /\ UNCHANGED <<bridge, pane, queued, list, engine, result, leaving, typed>>
  BY DEF Claim, settings
<1>5. lost' \in [Request -> 0..MaxLost] /\ lease' \in [Request -> Hook \cup {Free, Dead}]
  BY <1>1, <1>2, NumberFact DEF Inv, TypeOK
<1>6. \A g \in Hook : lock' = g <=> pc'[g] \in Locked
  BY <1>3, BoundAssumption DEF Inv, TypeOK, Locked
<1>7. pc' \in [Hook -> Place]
  BY <1>3 DEF Inv, TypeOK, Place, Locked
<1>8. TypeOK'
  <2>1. late' \in [Hook -> SUBSET Request]
    BY <1>1, <1>2 DEF Inv, TypeOK
  <2> QED
    BY <1>1, <1>2, <1>3, <1>4, <1>5, <1>6, <1>7, <2>1 DEF Inv, TypeOK, Place
<1>9. Busy'
  BY <1>1, <1>3, <1>4 DEF Inv, TypeOK, Busy
<1>10. FreshCopy'
  <2>1. \A g \in Hook \ {h} : pc'[g] \notin Locked
    BY <1>3, BoundAssumption DEF Inv, TypeOK
  <2> QED
    BY <2>1, <1>3, <1>4 DEF Inv, TypeOK, FreshCopy, Locked
<1>11. ASSUME NEW r \in Request PROVE Cardinality(Rivals(r)') <= lost'[r]
  <2>1. Cardinality(Rivals(r)) <= lost[r] /\ lost[r] \in Nat
    BY NumberFact DEF Inv, RivalsLost, TypeOK
  <2>2. \/ Rivals(r)' = Rivals(r) /\ lost'[r] = lost[r]
        \/ Rivals(r)' = Owners(r) /\ lost'[r] = lost[r] + 1
    BY ClaimSets
  <2> QED
    BY <2>1, <2>2, RivalsCount, OwnersFinite
<1>12. Queued'
  BY <1>4 DEF Inv, Queued
<1>13. ASSUME NEW r \in Request, NEW g \in Owners(r)' PROVE lease'[r] = g \/ r \in late'[g]
  <2>1. CASE r \in slow \cup Claimable /\ g = h
    BY <1>1, <2>1
  <2>2. CASE g # h
    <3>1. g \in Owners(r) /\ g \in Hook
      BY <1>1, <1>3, <2>2 DEF Owners, Current, Inv, TypeOK
    <3>2. lease[r] = g \/ r \in late[g]
      BY <3>1 DEF Inv, Kept
    <3>3. r \in Claimable => lease[r] # g
      BY <1>2, <3>1, BoundAssumption
    <3> QED
      BY <1>1, <3>1, <3>2, <3>3
  <2>3. g = h => r \in slow \cup Claimable
    BY <1>1, <1>3 DEF Owners, Inv, TypeOK
  <2> QED
    BY <2>1, <2>2, <2>3
<1> QED
  BY <1>8, <1>9, <1>10, <1>11, <1>12, <1>13 DEF Inv, RivalsLost, Kept

LEMMA ClaimWriteInv == ASSUME Inv, NEW h \in Hook, ClaimWrite(h) PROVE Inv'
<1>0. pc[h] = "claim" /\ pc' = [pc EXCEPT ![h] = IF claims[h] = {} THEN "idle" ELSE "inject"]
  BY DEF ClaimWrite, Goto
<1>a. pc' \in [Hook -> Place] /\ \A g \in Hook \ {h} : pc'[g] = pc[g]
  BY <1>0 DEF Inv, TypeOK, Place, Locked
<1>b. /\ UNCHANGED <<bridge, pane, queued, engine, lease, claims, result, leaving, typed, lost, late>>
      /\ list' = copy[h] /\ lock' = Free /\ copy' = [copy EXCEPT ![h] = NoCopy]
  BY DEF ClaimWrite, settings
<1>1. TypeOK'
  BY <1>0, <1>a, <1>b, BoundAssumption, NoCopyFact DEF Inv, TypeOK, Place, Locked
<1>2. Busy'
  BY <1>0, <1>a, <1>b DEF Inv, TypeOK, Busy
<1>3. FreshCopy'
  BY <1>0, <1>a, <1>b, BoundAssumption DEF Inv, TypeOK, FreshCopy, Current, Pending, Locked
<1>4. RivalsLost'
  BY <1>0, <1>1, <1>a, <1>b, LostSame, RivalsSame
<1>5. Queued' /\ Kept'
  <2>1. ~bridge => list' = list
    BY <1>0, <1>b DEF Inv, FreshCopy, Locked
  <2> QED
    BY <1>0, <1>a, <1>b, <2>1, WithinSame
<1> QED
  BY <1>1, <1>2, <1>3, <1>4, <1>5 DEF Inv

LEMMA InjectInv == ASSUME Inv, NEW h \in Hook, Inject(h) PROVE Inv'
<1>0. pc[h] # "idle" /\ Current(h) \in claims[h] /\ Current(h) \in Request
  BY CurrentFact DEF Inject, Goto
<1>a. pc' \in [Hook -> Place] /\ \A g \in Hook \ {h} : pc'[g] = pc[g]
  BY DEF Inv, TypeOK, settings, Inject, Goto, Place, Locked
<1>b. lost' \in [Request -> 0..MaxLost] /\ \A r \in Request : lost[r] <= lost'[r]
  BY LostSame DEF Inject, Inv, TypeOK
<1> DEFINE Typed ==
      /\ result' \in [Hook -> {"none", "ok", "unconfirmed", "failed"}]
      /\ typed' \in [Request -> 0..MaxTyped]
      /\ list' \in [Request -> Entry] /\ engine' \in [Request -> Status]
<1>c. Typed
  <2>1. ASSUME NEW outcome \in {"ok", "unconfirmed", "failed"}, NEW keys \in BOOLEAN,
               Ends(h, outcome, keys), UNCHANGED <<list, engine>>
        PROVE  Typed
    <3>1. typed' \in [Request -> 0..MaxTyped]
      BY <1>0, <2>1, NumberFact DEF Inv, TypeOK, Ends
    <3>2. result' = [result EXCEPT ![h] = outcome]
      BY <2>1 DEF Ends
    <3> QED
      BY <2>1, <3>1, <3>2 DEF Inv, TypeOK
  <2>2. ASSUME Command(Current(h), "delivered"), result' = [result EXCEPT ![h] = "ok"]
        PROVE  Typed
    <3>1. engine' \in [Request -> Status]
      BY <1>0, <2>2 DEF Command, Inv, TypeOK, Status
    <3>2. list' \in [Request -> Entry] /\ typed' \in [Request -> 0..MaxTyped]
      BY <2>2, <3>1, RenderedFact DEF Command
    <3> QED
      BY <2>2, <3>1, <3>2 DEF Inv, TypeOK
  <2> QED
    BY <2>1, <2>2 DEF Inject
<1>1. TypeOK'
  BY <1>0, <1>a, <1>b, BoundAssumption, <1>c DEF Inv, TypeOK, settings, Inject, Goto, Place, Locked
<1>2. Busy'
  BY <1>0, <1>a DEF Inv, TypeOK, settings, Busy, Inject, Goto
<1>3. FreshCopy'
  BY <1>0, <1>a, BoundAssumption DEF Inv, TypeOK, settings, Busy, FreshCopy, Inject, Goto, Current, Pending, Locked
<1>4. RivalsLost'
  BY <1>1, <1>a, <1>b, RivalsSame DEF Inject, Goto
<1>5. Queued' /\ Kept'
  <2>1. bridge \/ list' = list
    BY DEF Inject
  <2> QED
    BY <1>a, <2>1, WithinSame DEF Inject, Goto, settings
<1> QED
  BY <1>1, <1>2, <1>3, <1>4, <1>5 DEF Inv

LEMMA RereadInv == ASSUME Inv, NEW h \in Hook, Reread(h) PROVE Inv'
<1>0. pc[h] # "idle" /\ Current(h) \in claims[h] /\ Current(h) \in Request
  BY CurrentFact DEF Reread, Goto
<1>a. pc' \in [Hook -> Place] /\ \A g \in Hook \ {h} : pc'[g] = pc[g]
  BY DEF Inv, TypeOK, settings, Reread, Goto, Place, Locked
<1>b. lost' \in [Request -> 0..MaxLost] /\ \A r \in Request : lost[r] <= lost'[r]
  BY LostSame DEF Reread, Inv, TypeOK
<1>1. TypeOK'
  BY <1>0, <1>a, <1>b, BoundAssumption DEF Inv, TypeOK, settings, Reread, Goto, Place, Locked
<1>2. Busy'
  BY <1>0, <1>a DEF Inv, TypeOK, settings, Busy, Reread, Goto
<1>3. FreshCopy'
  BY <1>0, <1>a, BoundAssumption DEF Inv, TypeOK, settings, Busy, FreshCopy, Reread, Goto, Current, Pending, Locked
<1>4. RivalsLost'
  BY <1>1, <1>a, <1>b, RivalsSame DEF Reread, Goto
<1>5. Queued' /\ Kept'
  BY <1>a, WithinSame DEF Reread, Goto, settings
<1> QED
  BY <1>1, <1>2, <1>3, <1>4, <1>5 DEF Inv

LEMMA TimeoutInv == ASSUME Inv, NEW h \in Hook, Timeout(h) PROVE Inv'
<1>0. pc[h] # "idle" /\ Current(h) \in claims[h] /\ Current(h) \in Request
  BY CurrentFact DEF Timeout, Goto
<1>a. pc' \in [Hook -> Place] /\ \A g \in Hook \ {h} : pc'[g] = pc[g]
  BY DEF Inv, TypeOK, settings, Timeout, Goto, Place, Locked
<1>b. lost' \in [Request -> 0..MaxLost] /\ \A r \in Request : lost[r] <= lost'[r]
  BY <1>0, LostOneMore DEF Timeout
<1>1. TypeOK'
  BY <1>0, <1>a, <1>b, BoundAssumption DEF Inv, TypeOK, settings, Timeout, Goto, Place, Locked
<1>2. Busy'
  BY <1>0, <1>a DEF Inv, TypeOK, settings, Busy, Timeout, Goto
<1>3. FreshCopy'
  BY <1>0, <1>a, BoundAssumption DEF Inv, TypeOK, settings, Busy, FreshCopy, Timeout, Goto, Current, Pending, Locked
<1>4. RivalsLost'
  BY <1>1, <1>a, <1>b, RivalsSame DEF Timeout, Goto
<1>5. Queued' /\ Kept'
  BY <1>a, WithinSame DEF Timeout, Goto, settings
<1> QED
  BY <1>1, <1>2, <1>3, <1>4, <1>5 DEF Inv

LEMMA RunInv == ASSUME Inv, NEW h \in Hook, Run(h) PROVE Inv'
<1>0. pc[h] # "idle" /\ Current(h) \in claims[h] /\ Current(h) \in Request
  BY CurrentFact DEF Run, Goto
<1>a. pc' \in [Hook -> Place] /\ \A g \in Hook \ {h} : pc'[g] = pc[g]
  BY DEF Inv, TypeOK, settings, Run, Goto, Place, Locked
<1>b. lost' \in [Request -> 0..MaxLost] /\ \A r \in Request : lost[r] <= lost'[r]
  BY LostSame DEF Run, Inv, TypeOK
<1>c. /\ engine' \in [Request -> Status] /\ list' \in [Request -> Entry]
      /\ typed' \in [Request -> 0..MaxTyped]
  <2>1. Verdict(h).status \in Status
    BY <1>0, VerdictFact DEF Status, Run, Goto
  <2>2. engine' \in [Request -> Status]
    BY <1>0, <2>1 DEF Run, Command, Inv, TypeOK
  <2>3. Rendered \/ UNCHANGED <<list, typed>>
    BY DEF Run, Command
  <2> QED
    BY <2>2, <2>3, RenderedFact DEF Inv, TypeOK
<1>1. TypeOK'
  BY <1>0, <1>a, <1>b, BoundAssumption, <1>c DEF Inv, TypeOK, settings, Run, Goto, Place, Locked
<1>2. Busy'
  BY <1>0, <1>a DEF Inv, TypeOK, settings, Busy, Run, Goto
<1>3. FreshCopy'
  BY <1>0, <1>a, BoundAssumption DEF Inv, TypeOK, settings, Busy, FreshCopy, Run, Goto, Current, Pending, Locked
<1>4. RivalsLost'
  BY <1>1, <1>a, <1>b, RivalsSame DEF Run, Goto
<1>5. Queued' /\ Kept'
  <2>1. bridge
    BY DEF Inv, Busy, Run, Goto
  <2> QED
    BY <1>a, <2>1, WithinSame DEF Run, Goto, settings
<1> QED
  BY <1>1, <1>2, <1>3, <1>4, <1>5 DEF Inv

LEMMA FinalWriteInv == ASSUME Inv, NEW h \in Hook, FinalWrite(h) PROVE Inv'
<1>0. pc[h] # "idle" /\ Current(h) \in claims[h] /\ Current(h) \in Request
  BY CurrentFact DEF FinalWrite, Goto
<1>a. pc' \in [Hook -> Place] /\ \A g \in Hook \ {h} : pc'[g] = pc[g]
  BY DEF Inv, TypeOK, settings, FinalWrite, Goto, Place, Locked
<1>b. lost' \in [Request -> 0..MaxLost] /\ \A r \in Request : lost[r] <= lost'[r]
  BY LostSame DEF FinalWrite, Inv, TypeOK
<1>c. list' \in [Request -> Entry]
  BY <1>0, VerdictFact DEF FinalWrite, Goto, Inv, TypeOK
<1>1. TypeOK'
  BY <1>0, <1>a, <1>b, BoundAssumption, NoCopyFact, <1>c DEF Inv, TypeOK, settings, FinalWrite, Goto, Place, Locked
<1>2. Busy'
  BY <1>0, <1>a DEF Inv, TypeOK, settings, Busy, FinalWrite, Goto
<1>3. FreshCopy'
  BY <1>0, <1>a, BoundAssumption DEF Inv, TypeOK, settings, Busy, FreshCopy, FinalWrite, Goto, Current, Pending, Locked
<1>4. RivalsLost'
  BY <1>1, <1>a, <1>b, RivalsSame DEF FinalWrite, Goto
<1>5. Queued' /\ Kept'
  <2>1. ~bridge => \A r \in Request : list[r].status = "none" => list'[r].status = "none"
    BY <1>0 DEF Inv, TypeOK, FreshCopy, FinalWrite, Goto, Locked, Pending
  <2> QED
    BY <1>a, <2>1, WithinSame DEF FinalWrite, Goto, settings
<1> QED
  BY <1>1, <1>2, <1>3, <1>4, <1>5 DEF Inv

LEMMA ReleaseReadInv == ASSUME Inv, NEW h \in Hook, ReleaseRead(h) PROVE Inv'
<1>0. pc[h] # "idle" /\ Current(h) \in claims[h] /\ Current(h) \in Request
  BY CurrentFact DEF ReleaseRead
<1>1. TypeOK'
  BY BoundAssumption DEF Inv, TypeOK, settings, ReleaseRead, Goto, Locked
<1>2. Busy'
  BY DEF Inv, TypeOK, settings, Busy, ReleaseRead, Goto
<1>3. FreshCopy'
  BY BoundAssumption DEF Inv, TypeOK, settings, FreshCopy, ReleaseRead, Goto, Current, Locked
<1>4. RivalsLost'
  <2>1. \A r \in Request : Rivals(r)' \subseteq Rivals(r)
    BY DEF Inv, TypeOK, settings, ReleaseRead, Goto, Rivals, Owners, Current
  <2> QED
    BY <1>1, <2>1, LostSame, RivalsShrink DEF ReleaseRead
<1>5. Queued' /\ Kept'
  BY WithinSame DEF ReleaseRead, Goto, settings, Inv, TypeOK
<1> QED
  BY <1>1, <1>2, <1>3, <1>4, <1>5 DEF Inv

LEMMA ReleaseRemoveInv == ASSUME Inv, NEW h \in Hook, ReleaseRemove(h) PROVE Inv'
<1>0. pc[h] # "idle" /\ Current(h) \in claims[h] /\ Current(h) \in Request
  BY CurrentFact DEF ReleaseRemove, Goto
<1>1. TypeOK'
  <2>1. late' \in [Hook -> SUBSET Request]
    BY <1>0 DEF Inv, TypeOK, ReleaseRemove
  <2>2. lease' \in [Request -> Hook \cup {Free, Dead}]
    BY <1>0 DEF Inv, TypeOK, ReleaseRemove
  <2>3. /\ pc[h] = "remove" /\ pc' = [pc EXCEPT ![h] = "next"]
        /\ UNCHANGED <<bridge, pane, queued, list, engine, lock, claims, copy, result, leaving,
                       typed, lost>>
    BY DEF ReleaseRemove, Goto, settings
  <2> QED
    BY <2>1, <2>2, <2>3 DEF Inv, TypeOK, Locked
<1>2. Busy'
  BY DEF Inv, TypeOK, settings, Busy, ReleaseRemove, Goto
<1>3. FreshCopy'
  BY BoundAssumption DEF Inv, TypeOK, settings, FreshCopy, ReleaseRemove, Goto, Current, Locked
<1>4. ASSUME NEW r \in Request PROVE Cardinality(Rivals(r)') <= lost'[r]
  <2>1. /\ Cardinality(Rivals(r)) <= lost[r] /\ lost[r] \in Nat /\ lost'[r] = lost[r]
    BY NumberFact DEF Inv, RivalsLost, TypeOK, ReleaseRemove
  <2>2. CASE r = Current(h)
    <3>1. h \in Owners(r) /\ Owners(r)' = Owners(r) \ {h}
      BY <1>0, <2>2 DEF Inv, TypeOK, settings, ReleaseRemove, Goto, Owners, Current
    <3>2. lease'[r] = Free /\ Free \notin Hook
      BY <2>2, BoundAssumption DEF Inv, TypeOK, settings, ReleaseRemove
    <3>3. Rivals(r)' = Owners(r) \ {h}
      BY <3>1, <3>2 DEF Rivals, Owners
    <3>4. Cardinality(Owners(r) \ {h}) = Cardinality(Owners(r)) - 1
      BY <3>1, OwnersFinite, FS_RemoveElement
    <3>5. Cardinality(Owners(r)) - 1 <= Cardinality(Rivals(r))
      BY OwnersFinite, RivalsCount
    <3> QED
      BY <2>1, <3>3, <3>4, <3>5, OwnersFinite
  <2>3. CASE r # Current(h)
    <3>1. Rivals(r)' = Rivals(r)
      BY <2>3 DEF Inv, TypeOK, settings, ReleaseRemove, Goto, Rivals, Owners, Current
    <3> QED
      BY <2>1, <3>1
  <2> QED
    BY <2>2, <2>3
<1>5. Queued'
  BY DEF ReleaseRemove, settings, Inv, Queued
<1>6. ASSUME NEW r \in Request, NEW k \in Owners(r)' PROVE lease'[r] = k \/ r \in late'[k]
  <2>1. k \in Owners(r) /\ k \in Hook /\ (r = Current(h) => k # h)
    BY <1>0 DEF Inv, TypeOK, ReleaseRemove, Goto, Owners, Current
  <2>2. lease[r] = k \/ r \in late[k]
    BY <2>1 DEF Inv, Kept
  <2>3. /\ lease' = [lease EXCEPT ![Current(h)] = Free]
        /\ late'[k] = IF k # h /\ lease[Current(h)] = k THEN late[k] \cup {Current(h)} ELSE late[k]
    BY <2>1 DEF ReleaseRemove
  <2>4. CASE r = Current(h)
    BY <1>0, <2>1, <2>2, <2>3, <2>4
  <2>5. CASE r # Current(h)
    BY <1>0, <2>2, <2>3, <2>5 DEF Inv, TypeOK
  <2> QED
    BY <2>4, <2>5
<1> QED
  BY <1>1, <1>2, <1>3, <1>4, <1>5, <1>6 DEF Inv, RivalsLost, Kept

LEMMA NextClaimInv == ASSUME Inv, NEW h \in Hook, NextClaim(h) PROVE Inv'
<1>0. /\ pc[h] = "next" /\ Current(h) \in claims[h] /\ Current(h) \in Request
      /\ claims' = [claims EXCEPT ![h] = claims[h] \ {Current(h)}]
      /\ UNCHANGED <<bridge, pane, queued, list, engine, lock, lease, copy, typed, lost>>
      /\ late' = [late EXCEPT ![h] = late[h] \ {Current(h)}]
  BY CurrentFact DEF NextClaim, settings
<1>a. /\ pc' \in [Hook -> Place] /\ pc'[h] \in {"idle", "release", "inject"}
      /\ \A g \in Hook \ {h} : pc'[g] = pc[g]
      /\ pc'[h] = "idle" <=> claims[h] \ {Current(h)} = {}
  BY DEF NextClaim, Goto, Inv, TypeOK, Place, Locked
<1>b. \A g \in Hook : /\ claims'[g] \subseteq claims[g]
                      /\ g # h => claims'[g] = claims[g]
  BY <1>0 DEF Inv, TypeOK
<1>1. TypeOK'
  <2>1. /\ late' \in [Hook -> SUBSET Request] /\ claims' \in [Hook -> SUBSET Request]
    BY <1>0 DEF Inv, TypeOK
  <2>2. /\ result' \in [Hook -> {"none", "ok", "unconfirmed", "failed"}]
        /\ leaving' \in [Hook -> BOOLEAN]
    BY DEF Inv, TypeOK, NextClaim
  <2>3. \A g \in Hook : lock' = g <=> pc'[g] \in Locked
    BY <1>0, <1>a DEF Inv, TypeOK, Locked
  <2> QED
    BY <1>0, <1>a, <2>1, <2>2, <2>3 DEF Inv, TypeOK, Place
<1>2. Busy'
  BY <1>0, <1>a DEF Inv, TypeOK, Busy
<1>3. FreshCopy'
  BY <1>0, <1>a, <1>b DEF Inv, TypeOK, FreshCopy, Current, Pending, Locked
<1>c. ASSUME NEW r \in Request, NEW g \in Owners(r)'
      PROVE  g \in Owners(r) /\ (g = h => r # Current(h))
  <2>1. CASE g = h
    BY <1>0, <2>1 DEF Owners, Inv, TypeOK
  <2>2. CASE g # h
    BY <1>a, <1>b, <2>2 DEF Owners, Current
  <2> QED
    BY <2>1, <2>2
<1>4. RivalsLost'
  <2>1. \A r \in Request : Rivals(r)' \subseteq Rivals(r)
    BY <1>0, <1>c DEF Rivals
  <2> QED
    BY <1>0, <1>1, <2>1, LostSame, RivalsShrink
<1>5. Queued'
  BY <1>0 DEF Inv, Queued
<1>6. ASSUME NEW r \in Request, NEW g \in Owners(r)' PROVE lease'[r] = g \/ r \in late'[g]
  <2>1. g \in Owners(r) /\ g \in Hook /\ (g = h => r # Current(h))
    BY <1>c DEF Owners
  <2>2. lease[r] = g \/ r \in late[g]
    BY <2>1 DEF Inv, Kept
  <2> QED
    BY <1>0, <2>1, <2>2 DEF Inv, TypeOK
<1> QED
  BY <1>1, <1>2, <1>3, <1>4, <1>5, <1>6 DEF Inv, Kept

LEMMA KillInv == ASSUME Inv, NEW h \in Hook, Kill(h) PROVE Inv'
<1>0. /\ pc' = [pc EXCEPT ![h] = "idle"] /\ claims' = [claims EXCEPT ![h] = {}]
      /\ lock' = IF lock = h THEN Free ELSE lock
      /\ lease' = [r \in Request |-> IF lease[r] = h THEN Dead ELSE lease[r]]
      /\ lost' = [r \in Request |-> IF r \in claims[h] THEN lost[r] + 1 ELSE lost[r]]
      /\ copy' = [copy EXCEPT ![h] = NoCopy]
      /\ late' = [late EXCEPT ![h] = {}]
      /\ UNCHANGED <<bridge, pane, queued, list, engine, typed>>
  BY DEF Kill, settings
<1>a. lost' \in [Request -> 0..MaxLost] /\ \A r \in Request : lost[r] <= lost'[r]
  BY <1>0, NumberFact DEF Kill, Lossy, Inv, TypeOK
<1>b. \A g \in Hook : lock' = g <=> pc'[g] \in Locked
  BY <1>0, BoundAssumption DEF Inv, TypeOK, Locked
<1>1. TypeOK'
  BY <1>0, <1>a, <1>b, NoCopyFact DEF Inv, TypeOK, settings, Kill
<1>2. Busy'
  BY <1>0 DEF Inv, TypeOK, Busy
<1>3. FreshCopy'
  BY <1>0 DEF Inv, TypeOK, FreshCopy, Current, Pending, Locked
<1>4. RivalsLost'
  <2>1. \A r \in Request : Rivals(r)' \subseteq Rivals(r)
    <3> SUFFICES ASSUME NEW r \in Request PROVE Rivals(r)' \subseteq Rivals(r)
      OBVIOUS
    <3>1. Owners(r)' = Owners(r) \ {h}
      BY <1>0 DEF Inv, TypeOK, Owners, Current
    <3>2. lease'[r] = IF lease[r] = h THEN Dead ELSE lease[r]
      BY <1>0
    <3> QED
      BY <3>1, <3>2 DEF Rivals
  <2> QED
    BY <1>1, <1>a, <2>1, RivalsShrink
<1>5. Queued'
  BY <1>0 DEF Inv, Queued
<1>6. ASSUME NEW r \in Request, NEW g \in Owners(r)' PROVE lease'[r] = g \/ r \in late'[g]
  <2>1. g \in Owners(r) /\ g \in Hook /\ g # h
    BY <1>0 DEF Owners, Current, Inv, TypeOK
  <2>2. lease[r] = g \/ r \in late[g]
    BY <2>1 DEF Inv, Kept
  <2> QED
    BY <1>0, <2>1, <2>2
<1> QED
  BY <1>1, <1>2, <1>3, <1>4, <1>5, <1>6 DEF Inv, Kept

LEMMA StutterInv == ASSUME Inv, UNCHANGED vars PROVE Inv'
BY DEF Inv, TypeOK, Busy, FreshCopy, Queued, Kept, RivalsLost, Rivals, Owners, Current, Pending,
   vars, hooks, settings

LEMMA NextInv == Inv /\ [Next]_vars => Inv'
BY OthersInv, ClaimInv, ClaimWriteInv, InjectInv, RereadInv, TimeoutInv, RunInv, FinalWriteInv,
   ReleaseReadInv, ReleaseRemoveInv, NextClaimInv, KillInv, StutterInv DEF Next, Drain

------------------------------------------------------------------------------
(* The accounts of attempts *)

\* Who has typed a request and not recorded it, and who may still type it.
InFlight(r) == {h \in Owners(r) : r = Current(h) /\ pc[h] \in {"finalize", "command", "write"}}
Ahead(r) == {h \in Owners(r) : r # Current(h) \/ pc[h] \in {"claim", "inject"}}

\* Whatever was typed is recorded as an attempt, not yet recorded, or lost; the losses
\* that brought rivals in are not used up. Once the request is settled, who may still
\* type it is within the limit.
Account(r) ==
    /\ list[r].status = "none" => typed[r] = 0 /\ Owners(r) = {}
    /\ list[r].status = "pending" =>
        /\ list[r].attempts < MaxAttempts
        /\ typed[r] + Cardinality(Rivals(r))
              <= list[r].attempts + lost[r] + Cardinality(InFlight(r))
    /\ list[r].status \in {"notified", "delivered", "failed"} =>
        typed[r] + Cardinality(Ahead(r)) <= MaxAttempts + lost[r]

Accounts == ~bridge => \A r \in Request : Account(r)

LEMMA Smaller ==
    ASSUME NEW S, NEW T, IsFiniteSet(T), S \subseteq T
    PROVE  /\ IsFiniteSet(S) /\ Cardinality(S) \in Nat /\ Cardinality(T) \in Nat
           /\ Cardinality(S) <= Cardinality(T)
BY FS_Subset, FS_CardinalityType

LEMMA OneMissing ==
    ASSUME NEW S, NEW T, NEW x, IsFiniteSet(S), T \ {x} \subseteq S
    PROVE  /\ Cardinality(S) \in Nat /\ Cardinality(T) \in Nat
           /\ Cardinality(T) <= Cardinality(S) + 1
<1>1. T \subseteq S \cup {x}
  OBVIOUS
<1>2. IsFiniteSet(S \cup {x}) /\ Cardinality(S \cup {x}) <= Cardinality(S) + 1
  <2>1. /\ IsFiniteSet(S \cup {x}) /\ Cardinality(S) \in Nat
        /\ Cardinality(S \cup {x}) = IF x \in S THEN Cardinality(S) ELSE Cardinality(S) + 1
    BY FS_AddElement, FS_CardinalityType
  <2> QED
    BY <2>1
<1>3. Cardinality(S) \in Nat
  BY FS_CardinalityType
<1> QED
  BY <1>1, <1>2, <1>3, Smaller

\* The numbers of an account, before and after a step.
LEMMA CountFact ==
    ASSUME Inv, NEW r \in Request
    PROVE  /\ IsFiniteSet(InFlight(r)) /\ Cardinality(InFlight(r)) \in Nat
           /\ IsFiniteSet(Ahead(r)) /\ Cardinality(Ahead(r)) \in Nat
           /\ IsFiniteSet(Rivals(r)) /\ Cardinality(Rivals(r)) \in Nat
           /\ typed[r] \in Nat /\ lost[r] \in Nat /\ list[r].attempts \in Nat
           /\ list[r].status \in Status
<1>1. InFlight(r) \subseteq Owners(r) /\ Ahead(r) \subseteq Owners(r)
  BY DEF InFlight, Ahead
<1>2. typed[r] \in Nat /\ lost[r] \in Nat /\ list[r].attempts \in Nat /\ list[r].status \in Status
  BY NumberFact, BoundAssumption DEF Inv, TypeOK, Entry
<1> QED
  BY <1>1, <1>2, OwnersFinite, Smaller

LEMMA CountFactNext ==
    ASSUME Inv', NEW r \in Request
    PROVE  /\ IsFiniteSet(InFlight(r)') /\ Cardinality(InFlight(r)') \in Nat
           /\ IsFiniteSet(Ahead(r)') /\ Cardinality(Ahead(r)') \in Nat
           /\ IsFiniteSet(Rivals(r)') /\ Cardinality(Rivals(r)') \in Nat
           /\ typed'[r] \in Nat /\ lost'[r] \in Nat /\ list'[r].attempts \in Nat
           /\ list'[r].status \in Status
<1>1. InFlight(r)' \subseteq Owners(r)' /\ Ahead(r)' \subseteq Owners(r)'
  BY DEF InFlight, Ahead
<1>2. typed'[r] \in Nat /\ lost'[r] \in Nat /\ list'[r].attempts \in Nat /\ list'[r].status \in Status
  BY NumberFact, BoundAssumption DEF Inv, TypeOK, Entry
<1> QED
  BY <1>1, <1>2, OwnersFiniteNext, Smaller

\* A pending request has been typed less often than it may be, also when all who have it
\* type it once more.
LEMMA PendingFact ==
    ASSUME Inv, NEW r \in Request, Account(r), list[r].status = "pending"
    PROVE  typed[r] + Cardinality(Ahead(r)) <= MaxAttempts + lost[r]
<1>1. Cardinality(Ahead(r)) + Cardinality(InFlight(r)) <= Cardinality(Owners(r))
  <2>1. Ahead(r) \cap InFlight(r) = {} /\ Ahead(r) \cup InFlight(r) \subseteq Owners(r)
    BY DEF Ahead, InFlight
  <2>2. Cardinality(Ahead(r) \cup InFlight(r)) = Cardinality(Ahead(r)) + Cardinality(InFlight(r))
    <3>1. Cardinality(Ahead(r) \cap InFlight(r)) = 0
      BY <2>1, FS_EmptySet
    <3>2. Cardinality(Ahead(r) \cup InFlight(r))
            = Cardinality(Ahead(r)) + Cardinality(InFlight(r)) - Cardinality(Ahead(r) \cap InFlight(r))
      BY CountFact, FS_Union
    <3> QED
      BY <3>1, <3>2, CountFact
  <2>3. Cardinality(Ahead(r) \cup InFlight(r)) <= Cardinality(Owners(r))
    BY <2>1, OwnersFinite, Smaller
  <2> QED
    BY <2>2, <2>3
<1>2. Cardinality(Owners(r)) <= Cardinality(Rivals(r)) + 1
  BY RivalsCount
<1>3. /\ list[r].attempts + 1 <= MaxAttempts
      /\ typed[r] + Cardinality(Rivals(r)) <= list[r].attempts + lost[r] + Cardinality(InFlight(r))
  BY CountFact, BoundAssumption DEF Account
<1>4. Cardinality(Owners(r)) \in Nat /\ MaxAttempts \in Nat
  BY OwnersFinite, BoundAssumption
<1> QED
  BY <1>1, <1>2, <1>3, <1>4, CountFact

\* What a step does not record or type: its owners may leave, nothing else changes.
LEMMA QuietAccount ==
    ASSUME Inv, Inv', NEW r \in Request, Account(r),
           list'[r] = list[r], typed'[r] = typed[r], lost[r] <= lost'[r],
           Owners(r)' \subseteq Owners(r), Rivals(r)' \subseteq Rivals(r),
           Ahead(r)' \subseteq Ahead(r),
           list[r].status = "pending" => InFlight(r) \subseteq InFlight(r)'
    PROVE  Account(r)'
<1>1. CASE list[r].status = "none"
  BY <1>1 DEF Account
<1>2. CASE list[r].status = "pending"
  <2>1. Cardinality(Rivals(r)') <= Cardinality(Rivals(r))
    BY CountFact, Smaller
  <2>2. Cardinality(InFlight(r)) <= Cardinality(InFlight(r)')
    BY <1>2, CountFactNext, Smaller
  <2> QED
    BY <1>2, <2>1, <2>2, CountFact, CountFactNext DEF Account
<1>3. CASE list[r].status \in {"notified", "delivered", "failed"}
  <2>1. Cardinality(Ahead(r)') <= Cardinality(Ahead(r))
    BY CountFact, Smaller
  <2>2. MaxAttempts \in Nat
    BY BoundAssumption
  <2> QED
    BY <1>3, <2>1, <2>2, CountFact, CountFactNext DEF Account
<1> QED
  BY <1>1, <1>2, <1>3, CountFact DEF Status

\* A process is lost with what it typed.
LEMMA LostAccount ==
    ASSUME Inv, Inv', NEW r \in Request, NEW h, Account(r),
           list'[r] = list[r], typed'[r] = typed[r], lost'[r] = lost[r] + 1,
           Owners(r)' \subseteq Owners(r), Rivals(r)' \subseteq Rivals(r),
           Ahead(r)' \subseteq Ahead(r), InFlight(r) \ {h} \subseteq InFlight(r)'
    PROVE  Account(r)'
<1>1. CASE list[r].status = "none"
  BY <1>1 DEF Account
<1>2. CASE list[r].status = "pending"
  <2>1. Cardinality(Rivals(r)') <= Cardinality(Rivals(r))
    BY CountFact, Smaller
  <2>2. Cardinality(InFlight(r)) <= Cardinality(InFlight(r)') + 1
    BY CountFactNext, OneMissing
  <2> QED
    BY <1>2, <2>1, <2>2, CountFact, CountFactNext DEF Account
<1>3. CASE list[r].status \in {"notified", "delivered", "failed"}
  <2>1. Cardinality(Ahead(r)') <= Cardinality(Ahead(r))
    BY CountFact, Smaller
  <2>2. MaxAttempts \in Nat
    BY BoundAssumption
  <2> QED
    BY <1>3, <2>1, <2>2, CountFact, CountFactNext DEF Account
<1> QED
  BY <1>1, <1>2, <1>3, CountFact DEF Status

LEMMA SetsSame ==
    ASSUME UNCHANGED <<hooks, lease>>, NEW r
    PROVE  /\ Owners(r)' = Owners(r) /\ Rivals(r)' = Rivals(r)
           /\ Ahead(r)' = Ahead(r) /\ InFlight(r)' = InFlight(r)
BY DEF hooks, Owners, Rivals, Ahead, InFlight, Current

LEMMA OthersAccount ==
    ASSUME Inv, Inv', ~bridge, Accounts, NEW q \in Request,
           Enqueue(q) \/ (\E status \in Status : Transition(q, status)), NEW r \in Request
    PROVE  Account(r)'
<1>1. UNCHANGED <<hooks, lease, typed, lost>> /\ Account(r)
  BY DEF Enqueue, Transition, Accounts
<1>e. ASSUME Enqueue(q)
      PROVE  list[q].status = "none" /\ list' = [list EXCEPT ![q] = At("pending", 0)]
  <2>1. q = queued + 1 /\ queued \in Nat
    BY <1>e, BoundAssumption DEF Enqueue, Inv, TypeOK
  <2> QED
    BY <1>e, <2>1 DEF Enqueue, Inv, Queued
<1>2. CASE r # q
  <2>1. list'[r] = list[r]
    BY <1>2, <1>e DEF Transition, Inv, TypeOK
  <2> QED
    BY <1>1, <2>1, SetsSame, QuietAccount, CountFact
<1>3. CASE r = q /\ Enqueue(q)
  <2>1. list'[r] = At("pending", 0) /\ list[r].status = "none"
    BY <1>3, <1>e DEF Inv, TypeOK
  <2>2. list'[r].status = "pending" /\ list'[r].attempts = 0
    BY <2>1 DEF At
  <2>3. typed'[r] = 0 /\ Rivals(r)' = {}
    BY <1>1, <2>1, SetsSame DEF Account, Rivals
  <2>4. Cardinality(Rivals(r)') = 0
    BY <2>3, FS_EmptySet
  <2> QED
    BY <2>2, <2>3, <2>4, CountFactNext, BoundAssumption DEF Account
<1>4. ASSUME r = q, NEW status \in Status, Transition(q, status) PROVE Account(r)'
  <2>1. /\ list'[r].status = status /\ status \in {"notified", "delivered", "failed"}
        /\ list[r].status \in {"pending", "notified"}
    BY <1>4, AtFact DEF Transition, Allowed, Inv, TypeOK
  <2>2. typed[r] + Cardinality(Ahead(r)) <= MaxAttempts + lost[r]
    BY <1>1, <2>1, PendingFact DEF Account
  <2> QED
    BY <1>1, <2>1, <2>2, SetsSame DEF Account
<1> QED
  BY <1>2, <1>3, <1>4

LEMMA ClaimAccount ==
    ASSUME Inv, Inv', ~bridge, Accounts, NEW h \in Hook, Claim(h), NEW r \in Request
    PROVE  Account(r)'
<1>1. UNCHANGED <<list, typed>> /\ Account(r)
  BY DEF Claim, Accounts
<1>2. /\ pc' = [pc EXCEPT ![h] = "claim"] /\ pc[h] = "idle"
      /\ \A g \in Hook \ {h} : claims'[g] = claims[g] /\ pc'[g] = pc[g]
  BY DEF Claim, Goto, Inv, TypeOK
<1>3. h \notin Owners(r) /\ h \notin InFlight(r)
  BY ClaimSets DEF InFlight
<1>4. InFlight(r) \subseteq InFlight(r)'
  BY <1>2, <1>3 DEF InFlight, Owners, Current
<1>5. CASE list[r].status # "pending"
  <2>1. Owners(r)' = Owners(r) /\ lost'[r] = lost[r]
    BY <1>5, ClaimSets
  <2>2. Rivals(r)' \subseteq Rivals(r)
    <3>1. ~(Rivals(r)' = Owners(r) /\ lost'[r] = lost[r] + 1)
      BY <2>1, CountFact
    <3> QED
      BY <3>1, ClaimSets
  <2>3. Ahead(r)' \subseteq Ahead(r)
    BY <1>2, <1>3, <2>1 DEF Ahead, Owners, Current
  <2> QED
    BY <1>1, <1>5, <2>1, <2>2, <2>3, CountFact, QuietAccount
<1>6. CASE list[r].status = "pending"
  <2>1. Cardinality(InFlight(r)) <= Cardinality(InFlight(r)')
    BY <1>4, CountFactNext, Smaller
  <2>2. CASE Rivals(r)' = Rivals(r) /\ lost'[r] = lost[r]
    BY <1>1, <1>6, <2>1, <2>2, CountFact, CountFactNext DEF Account
  <2>3. CASE Rivals(r)' = Owners(r) /\ lost'[r] = lost[r] + 1
    <3>1. Cardinality(Rivals(r)') <= Cardinality(Rivals(r)) + 1
      BY <2>3, RivalsCount
    <3> QED
      BY <1>1, <1>6, <2>1, <2>3, <3>1, CountFact, CountFactNext DEF Account
  <2> QED
    BY <2>2, <2>3, ClaimSets
<1> QED
  BY <1>5, <1>6

LEMMA ClaimWriteAccount ==
    ASSUME Inv, Inv', ~bridge, Accounts, NEW h \in Hook, ClaimWrite(h), NEW r \in Request
    PROVE  Account(r)'
<1>1. list' = list
  BY DEF ClaimWrite, Goto, Inv, FreshCopy, Locked
<1>2. UNCHANGED <<typed, lost, lease, claims>> /\ Account(r)
  BY DEF ClaimWrite, Accounts
<1>3. pc' = [pc EXCEPT ![h] = "inject"] /\ pc[h] = "claim"
  BY DEF ClaimWrite, Goto, Inv, Busy
<1>4. /\ Owners(r)' \subseteq Owners(r) /\ Rivals(r)' \subseteq Rivals(r)
      /\ Ahead(r)' \subseteq Ahead(r) /\ InFlight(r) \subseteq InFlight(r)'
  BY <1>2, <1>3 DEF Inv, TypeOK, Owners, Rivals, Ahead, InFlight, Current
<1> QED
  BY <1>1, <1>2, <1>4, CountFact, QuietAccount

LEMMA InjectAccount ==
    ASSUME Inv, Inv', ~bridge, Accounts, NEW h \in Hook, Inject(h), NEW r \in Request
    PROVE  Account(r)'
<1>1. /\ UNCHANGED <<list, lost, lease, claims>> /\ Account(r)
      /\ pc' = [pc EXCEPT ![h] = "finalize"] /\ pc[h] = "inject"
      /\ Current(h) \in claims[h] /\ Current(h) \in Request
  BY CurrentFact DEF Inject, Goto, Accounts
<1>2. Owners(r)' = Owners(r) /\ Rivals(r)' = Rivals(r)
  BY <1>1 DEF Inv, TypeOK, Owners, Rivals, Current
<1>3. typed' = typed \/ typed' = [typed EXCEPT ![Current(h)] = @ + 1]
  BY DEF Inject, Ends
<1>4. CASE r # Current(h)
  <2>1. typed'[r] = typed[r]
    BY <1>3, <1>4 DEF Inv, TypeOK
  <2>2. Ahead(r)' \subseteq Ahead(r) /\ InFlight(r) \subseteq InFlight(r)'
    BY <1>1, <1>4 DEF Inv, TypeOK, Owners, Ahead, InFlight, Current
  <2> QED
    BY <1>1, <1>2, <2>1, <2>2, CountFact, QuietAccount
<1>5. CASE r = Current(h)
  <2>1. typed'[r] = typed[r] \/ typed'[r] = typed[r] + 1
    BY <1>1, <1>3, <1>5 DEF Inv, TypeOK
  <2>2. h \in Owners(r)
    BY <1>1, <1>5 DEF Owners
  <2>3. h \in Ahead(r) /\ Ahead(r)' = Ahead(r) \ {h}
    BY <1>1, <1>5, <2>2 DEF Inv, TypeOK, Owners, Ahead, Current
  <2>4. h \notin InFlight(r) /\ InFlight(r)' = InFlight(r) \cup {h}
    BY <1>1, <1>5, <2>2 DEF Inv, TypeOK, Owners, InFlight, Current
  <2>5. Cardinality(Ahead(r)') = Cardinality(Ahead(r)) - 1
    BY <2>3, CountFact, FS_RemoveElement
  <2>6. Cardinality(InFlight(r)') = Cardinality(InFlight(r)) + 1
    BY <2>4, CountFact, FS_AddElement
  <2>7. MaxAttempts \in Nat
    BY BoundAssumption
  <2> QED
    BY <1>1, <1>2, <2>1, <2>2, <2>5, <2>6, <2>7, CountFact, CountFactNext DEF Account
<1> QED
  BY <1>4, <1>5

LEMMA RereadAccount ==
    ASSUME Inv, Inv', ~bridge, Accounts, NEW h \in Hook, Reread(h), NEW r \in Request
    PROVE  Account(r)'
<1>1. /\ UNCHANGED <<list, typed, lost, lease, claims>> /\ Account(r)
      /\ pc[h] = "finalize" /\ Current(h) \in Request
      /\ \/ pc' = [pc EXCEPT ![h] = "write"]
         \/ pc' = [pc EXCEPT ![h] = "release"] /\ Current(h) \notin Pending(list)
  BY CurrentFact DEF Reread, Goto, Accounts
<1>2. /\ Owners(r)' \subseteq Owners(r) /\ Rivals(r)' \subseteq Rivals(r)
      /\ Ahead(r)' \subseteq Ahead(r)
  BY <1>1 DEF Inv, TypeOK, Owners, Rivals, Ahead, Current
<1>3. list[r].status = "pending" => InFlight(r) \subseteq InFlight(r)'
  BY <1>1 DEF Inv, TypeOK, Owners, InFlight, Current, Pending
<1> QED
  BY <1>1, <1>2, <1>3, CountFact, QuietAccount

LEMMA TimeoutAccount ==
    ASSUME Inv, Inv', ~bridge, Accounts, NEW h \in Hook, Timeout(h), NEW r \in Request
    PROVE  Account(r)'
<1>1. /\ UNCHANGED <<list, typed, lease, claims>> /\ Account(r)
      /\ pc[h] = "finalize" /\ pc' = [pc EXCEPT ![h] = "release"]
      /\ Current(h) \in Request /\ lost' = [lost EXCEPT ![Current(h)] = @ + 1]
  BY CurrentFact DEF Timeout, Goto, Accounts
<1>2. /\ Owners(r)' \subseteq Owners(r) /\ Rivals(r)' \subseteq Rivals(r)
      /\ Ahead(r)' \subseteq Ahead(r) /\ InFlight(r) \ {h} \subseteq InFlight(r)'
  BY <1>1 DEF Inv, TypeOK, Owners, Rivals, Ahead, InFlight, Current
<1>3. CASE r = Current(h)
  <2>1. lost'[r] = lost[r] + 1
    BY <1>1, <1>3 DEF Inv, TypeOK
  <2> QED
    BY <1>1, <1>2, <2>1, LostAccount
<1>4. CASE r # Current(h)
  <2>1. lost'[r] = lost[r] /\ InFlight(r) \subseteq InFlight(r)'
    BY <1>1, <1>2, <1>4 DEF Inv, TypeOK, InFlight
  <2> QED
    BY <1>1, <1>2, <2>1, CountFact, QuietAccount
<1> QED
  BY <1>3, <1>4

LEMMA FinalWriteAccount ==
    ASSUME Inv, Inv', ~bridge, Accounts, NEW h \in Hook, FinalWrite(h), NEW r \in Request
    PROVE  Account(r)'
<1>1. /\ UNCHANGED <<typed, lost, lease, claims>> /\ Account(r)
      /\ pc[h] = "write" /\ pc' = [pc EXCEPT ![h] = "release"]
      /\ Current(h) \in claims[h] /\ Current(h) \in Request
  BY CurrentFact DEF FinalWrite, Goto, Accounts
<1>2. /\ copy[h] = list /\ list[Current(h)].status = "pending"
      /\ list' = [list EXCEPT ![Current(h)] = Verdict(h)]
  BY <1>1 DEF FinalWrite, Inv, FreshCopy, Locked, Pending
<1>3. Owners(r)' = Owners(r) /\ Rivals(r)' = Rivals(r) /\ Ahead(r)' \subseteq Ahead(r)
  BY <1>1 DEF Inv, TypeOK, Owners, Rivals, Ahead, Current
<1>4. CASE r # Current(h)
  <2>1. list'[r] = list[r]
    BY <1>2, <1>4 DEF Inv, TypeOK
  <2>2. InFlight(r) \subseteq InFlight(r)'
    BY <1>1, <1>4 DEF Inv, TypeOK, Owners, InFlight, Current
  <2> QED
    BY <1>1, <1>3, <2>1, <2>2, CountFact, QuietAccount
<1>5. CASE r = Current(h)
  <2> DEFINE attempts == list[r].attempts + 1
  <2>1. list'[r] = Verdict(h) /\ list[r].status = "pending"
    BY <1>1, <1>2, <1>5 DEF Inv, TypeOK
  <2>2. \/ list'[r] = At("pending", attempts) /\ attempts < MaxAttempts
        \/ list'[r] \in {At("notified", 0), At("failed", 0)}
    BY <1>2, <1>5, <2>1 DEF Verdict
  <2>3. CASE list'[r] = At("pending", attempts) /\ attempts < MaxAttempts
    <3>1. list'[r].status = "pending" /\ list'[r].attempts = list[r].attempts + 1
      BY <2>3 DEF At
    <3>2. Cardinality(InFlight(r)) <= Cardinality(InFlight(r)') + 1
      <4>1. InFlight(r) \ {h} \subseteq InFlight(r)'
        BY <1>1 DEF Inv, TypeOK, Owners, InFlight, Current
      <4> QED
        BY <4>1, CountFactNext, OneMissing
    <3> QED
      BY <1>1, <1>3, <2>1, <2>3, <3>1, <3>2, CountFact, CountFactNext DEF Account
  <2>4. CASE list'[r] \in {At("notified", 0), At("failed", 0)}
    <3>1. list'[r].status \in {"notified", "failed"}
      BY <2>4 DEF At
    <3>2. typed[r] + Cardinality(Ahead(r)) <= MaxAttempts + lost[r]
      BY <1>1, <2>1, PendingFact
    <3>3. Cardinality(Ahead(r)') <= Cardinality(Ahead(r)) /\ MaxAttempts \in Nat
      BY <1>3, CountFact, Smaller, BoundAssumption
    <3> QED
      BY <1>1, <3>1, <3>2, <3>3, CountFact, CountFactNext DEF Account
  <2> QED
    BY <2>2, <2>3, <2>4
<1> QED
  BY <1>4, <1>5

LEMMA ReleaseReadAccount ==
    ASSUME Inv, Inv', ~bridge, Accounts, NEW h \in Hook, ReleaseRead(h), NEW r \in Request
    PROVE  Account(r)'
<1>1. /\ UNCHANGED <<list, typed, lost, lease, claims>> /\ Account(r)
      /\ pc[h] = "release"
      /\ pc' = [pc EXCEPT ![h] = "remove"] \/ pc' = [pc EXCEPT ![h] = "next"]
  BY DEF ReleaseRead, Goto, Accounts
<1>2. /\ Owners(r)' \subseteq Owners(r) /\ Rivals(r)' \subseteq Rivals(r)
      /\ Ahead(r)' \subseteq Ahead(r) /\ InFlight(r) \subseteq InFlight(r)'
  BY <1>1 DEF Inv, TypeOK, Owners, Rivals, Ahead, InFlight, Current
<1> QED
  BY <1>1, <1>2, CountFact, QuietAccount

LEMMA ReleaseRemoveAccount ==
    ASSUME Inv, Inv', ~bridge, Accounts, NEW h \in Hook, ReleaseRemove(h), NEW r \in Request
    PROVE  Account(r)'
<1>1. /\ UNCHANGED <<list, typed, lost, claims>> /\ Account(r)
      /\ pc[h] = "remove" /\ pc' = [pc EXCEPT ![h] = "next"]
      /\ Current(h) \in claims[h] /\ Current(h) \in Request
      /\ lease' = [lease EXCEPT ![Current(h)] = Free]
  BY CurrentFact DEF ReleaseRemove, Goto, Accounts
<1>2. /\ Owners(r)' \subseteq Owners(r)
      /\ Ahead(r)' \subseteq Ahead(r) /\ InFlight(r) \subseteq InFlight(r)'
  BY <1>1 DEF Inv, TypeOK, Owners, Ahead, InFlight, Current
<1>3. CASE r # Current(h)
  <2>1. Rivals(r)' \subseteq Rivals(r)
    BY <1>1, <1>2, <1>3 DEF Inv, TypeOK, Rivals
  <2> QED
    BY <1>1, <1>2, <2>1, CountFact, QuietAccount
<1>4. CASE r = Current(h)
  <2>1. Cardinality(Rivals(r)') <= Cardinality(Rivals(r))
    <3>1. h \in Owners(r) /\ Owners(r)' = Owners(r) \ {h}
      BY <1>1, <1>4 DEF Inv, TypeOK, Owners, Current
    <3>2. lease'[r] = Free /\ Free \notin Hook
      BY <1>1, <1>4, BoundAssumption DEF Inv, TypeOK
    <3>3. Rivals(r)' = Owners(r) \ {h}
      BY <3>1, <3>2 DEF Rivals, Owners
    <3>4. Cardinality(Owners(r) \ {h}) = Cardinality(Owners(r)) - 1
      BY <3>1, OwnersFinite, FS_RemoveElement
    <3> QED
      BY <3>3, <3>4, OwnersFinite, RivalsCount
  <2>2. Cardinality(InFlight(r)) <= Cardinality(InFlight(r)')
    BY <1>2, CountFactNext, Smaller
  <2>3. Cardinality(Ahead(r)') <= Cardinality(Ahead(r)) /\ MaxAttempts \in Nat
    BY <1>2, CountFact, Smaller, BoundAssumption
  <2>4. list[r].status # "none"
    BY <1>1, <1>4 DEF Account, Owners
  <2> QED
    BY <1>1, <2>1, <2>2, <2>3, <2>4, CountFact, CountFactNext DEF Account
<1> QED
  BY <1>3, <1>4

LEMMA NextClaimAccount ==
    ASSUME Inv, Inv', ~bridge, Accounts, NEW h \in Hook, NextClaim(h), NEW r \in Request
    PROVE  Account(r)'
<1>1. /\ UNCHANGED <<list, typed, lost, lease>> /\ Account(r)
      /\ pc[h] = "next" /\ pc' \in [Hook -> Place] /\ pc'[h] \in {"idle", "release", "inject"}
      /\ claims'[h] = claims[h] \ {Current(h)}
      /\ \A g \in Hook \ {h} : pc'[g] = pc[g] /\ claims'[g] = claims[g]
  BY DEF NextClaim, Goto, Accounts, Inv, TypeOK, Place, Locked
<1>2. \A g \in Hook \ {h} : /\ g \in Owners(r)' <=> g \in Owners(r)
                            /\ Current(g)' = Current(g)
  BY <1>1 DEF Owners, Current
<1>3. h \notin InFlight(r) /\ (h \in Owners(r)' => h \in Owners(r) /\ r # Current(h))
  BY <1>1 DEF Owners, InFlight
<1>4. Owners(r)' \subseteq Owners(r) /\ Owners(r) \subseteq Hook /\ Owners(r)' \subseteq Hook
  BY <1>2, <1>3 DEF Owners
<1>5. /\ Rivals(r)' \subseteq Rivals(r)
      /\ Ahead(r)' \subseteq Ahead(r) /\ InFlight(r) \subseteq InFlight(r)'
  BY <1>1, <1>2, <1>3, <1>4 DEF Rivals, Ahead, InFlight
<1> QED
  BY <1>1, <1>4, <1>5, CountFact, QuietAccount

LEMMA KillAccount ==
    ASSUME Inv, Inv', ~bridge, Accounts, NEW h \in Hook, Kill(h), NEW r \in Request
    PROVE  Account(r)'
<1>1. /\ UNCHANGED <<list, typed>> /\ Account(r)
      /\ pc' = [pc EXCEPT ![h] = "idle"] /\ claims' = [claims EXCEPT ![h] = {}]
      /\ lease'[r] = IF lease[r] = h THEN Dead ELSE lease[r]
      /\ lost'[r] = IF r \in claims[h] THEN lost[r] + 1 ELSE lost[r]
  BY DEF Kill, Accounts
<1>2. Owners(r)' = Owners(r) \ {h} /\ (h \in Owners(r) => r \in claims[h])
  BY <1>1 DEF Inv, TypeOK, Owners, Current
<1>3. /\ Owners(r)' \subseteq Owners(r) /\ Rivals(r)' \subseteq Rivals(r)
      /\ Ahead(r)' \subseteq Ahead(r) /\ InFlight(r) \ {h} \subseteq InFlight(r)'
  BY <1>1, <1>2 DEF Inv, TypeOK, Owners, Rivals, Ahead, InFlight, Current
<1>4. CASE r \in claims[h]
  BY <1>1, <1>3, <1>4, LostAccount
<1>5. CASE r \notin claims[h]
  <2>1. InFlight(r) \subseteq InFlight(r)'
    BY <1>2, <1>3, <1>5 DEF InFlight
  <2> QED
    BY <1>1, <1>3, <1>5, <2>1, CountFact, QuietAccount
<1> QED
  BY <1>4, <1>5

LEMMA InitAccounts == Init => Accounts
BY DEF Init, Accounts, Account, NoCopy, At, Owners

LEMMA NextAccounts == Inv /\ Inv' /\ Accounts /\ [Next]_vars => Accounts'
<1> SUFFICES ASSUME Inv, Inv', Accounts, [Next]_vars, ~bridge', NEW r \in Request
             PROVE  Account(r)'
  BY DEF Accounts
<1>1. CASE UNCHANGED vars
  <2>1. UNCHANGED <<list, typed, lost, lease, hooks, bridge>> /\ Account(r)
    BY <1>1 DEF vars, settings, Accounts
  <2> QED
    BY <2>1, SetsSame, CountFact, QuietAccount
<1>2. CASE Next
  <2>1. ~bridge
    BY <1>2 DEF Next, Enqueue, Marks, Transition, OtherCommand, RecordPane, Drain, Claim,
       ClaimWrite, Inject, Reread, Run, FinalWrite, ReleaseRead, ReleaseRemove, NextClaim,
       Timeout, Kill, settings
  <2>2. \A h \in Hook : ~Run(h)
    BY <2>1 DEF Run, Goto, Inv, Busy
  <2>3. ~OtherCommand /\ \A q \in Request, status \in Status : ~Marks(q, status)
    BY <2>1 DEF OtherCommand, Marks
  <2>4. CASE RecordPane
    <3>1. UNCHANGED <<list, typed, lost, lease, hooks>> /\ Account(r)
      BY <2>1, <2>4 DEF RecordPane, Accounts
    <3> QED
      BY <3>1, SetsSame, CountFact, QuietAccount
  <2> QED
    BY <1>2, <2>1, <2>2, <2>3, <2>4, OthersAccount, ClaimAccount, ClaimWriteAccount, InjectAccount,
       RereadAccount, TimeoutAccount, FinalWriteAccount, ReleaseReadAccount,
       ReleaseRemoveAccount, NextClaimAccount, KillAccount DEF Next, Drain
<1> QED
  BY <1>1, <1>2

------------------------------------------------------------------------------
(* Theorems *)

\* TeamDispatch keeps the inductive invariant.
THEOREM Invariance == Spec => []Inv
BY InitInv, NextInv, PTL DEF Spec

\* Every variable keeps its type, and the lock is held where the list is read and written.
THEOREM TypeCorrect == Spec => []TypeOK
<1>1. Inv => TypeOK
  BY DEF Inv
<1> QED
  BY <1>1, Invariance, PTL

\* Of two processes at a request one has lost its lease to another, and nobody removes
\* the lease of another unless it has lost its own.
THEOREM OneTyperSafe == Spec => []OneTyper
<1>1. ASSUME Inv, NEW r \in Request, NEW h \in Owners(r), NEW k \in Owners(r)
      PROVE  h = k \/ r \in late[h] \cup late[k]
  BY <1>1 DEF Inv, Kept
<1>2. ASSUME Inv, NEW h \in Hook, pc[h] = "remove"
      PROVE  lease[Current(h)] = h \/ Current(h) \in late[h]
  <2>1. h \in Owners(Current(h)) /\ Current(h) \in Request
    BY <1>2, CurrentFact DEF Owners
  <2> QED
    BY <1>2, <2>1 DEF Inv, Kept
<1>3. Inv => OneTyper
  BY <1>1, <1>2 DEF OneTyper
<1> QED
  BY <1>3, Invariance, PTL

\* Without the bridge no step takes a status back.
LEMMA StatusForward ==
    ASSUME Inv, [Next]_vars, ~bridge
    PROVE  \A r \in Request :
        \/ list'[r].status = list[r].status
        \/ list[r].status = "none" /\ list'[r].status = "pending"
        \/ Allowed(list[r].status, list'[r].status)
<1> DEFINE Fwd == \A r \in Request :
        \/ list'[r].status = list[r].status
        \/ list[r].status = "none" /\ list'[r].status = "pending"
        \/ Allowed(list[r].status, list'[r].status)
<1> SUFFICES Fwd
  OBVIOUS
<1>1. ASSUME NEW r \in Request, Enqueue(r) PROVE Fwd
  <2>1. r = queued + 1 /\ queued \in Nat /\ list' = [list EXCEPT ![r] = At("pending", 0)]
    BY <1>1, BoundAssumption DEF Enqueue, Inv, TypeOK
  <2>2. list[r].status = "none"
    BY <2>1 DEF Inv, Queued
  <2> QED
    BY <2>1, <2>2, AtFact DEF Inv, TypeOK, Status
<1>2. ASSUME NEW r \in Request, NEW status \in Status, Marks(r, status) \/ Transition(r, status)
      PROVE  Fwd
  <2>1. CASE Marks(r, status)
    BY <2>1 DEF Marks
  <2>2. CASE Transition(r, status)
    <3>1. At(status, 0).status = status
      BY AtFact
    <3>2. Allowed(list[r].status, status) /\ list' = [list EXCEPT ![r] = At(status, 0)]
      BY <2>2 DEF Transition
    <3> QED
      BY <3>1, <3>2 DEF Inv, TypeOK
  <2> QED
    BY <1>2, <2>1, <2>2
<1>3. ASSUME NEW h \in Hook, ClaimWrite(h) PROVE Fwd
  BY <1>3 DEF ClaimWrite, Goto, Inv, FreshCopy, Locked
<1>4. ASSUME NEW h \in Hook, FinalWrite(h) PROVE Fwd
  <2>1. /\ Current(h) \in Request /\ list[Current(h)].status = "pending"
        /\ list' = [list EXCEPT ![Current(h)] = Verdict(h)]
    BY <1>4 DEF FinalWrite, Goto, Inv, FreshCopy, Locked, Pending
  <2>2. Verdict(h).status \in {"pending", "notified", "failed"}
    BY <1>4, VerdictFact DEF FinalWrite, Goto
  <2> QED
    BY <2>1, <2>2 DEF Inv, TypeOK, Allowed
<1>5. ASSUME NEW h \in Hook,
             \/ Claim(h) \/ Inject(h) \/ Reread(h) \/ ReleaseRead(h) \/ ReleaseRemove(h)
             \/ NextClaim(h) \/ Timeout(h) \/ Kill(h)
      PROVE  Fwd
  BY <1>5 DEF Claim, Inject, Reread, ReleaseRead, ReleaseRemove, NextClaim, Timeout, Kill
<1>6. ASSUME NEW h \in Hook, Run(h) PROVE Fwd
  BY <1>6 DEF Run, Goto, Inv, Busy
<1>7. CASE OtherCommand \/ RecordPane
  BY <1>7 DEF OtherCommand, RecordPane
<1>8. CASE UNCHANGED vars
  BY <1>8 DEF vars
<1> QED
  BY <1>1, <1>2, <1>3, <1>4, <1>5, <1>6, <1>7, <1>8 DEF Next, Drain

\* Without the bridge a status only goes forward, whoever writes the list.
THEOREM GoesForward == Spec => Forward
<1>1. Inv /\ [Next]_vars => (~bridge => \A r \in Request :
        \/ list'[r].status = list[r].status
        \/ list[r].status = "none" /\ list'[r].status = "pending"
        \/ Allowed(list[r].status, list'[r].status))
  BY StatusForward
<1> QED
  BY <1>1, Invariance, PTL DEF Spec, Forward

\* Without the bridge a request is typed at most as often as attempts are allowed, and
\* once more for every owner that was lost with what it had typed.
THEOREM AttemptsSafe == Spec => [](~bridge => AttemptsBounded)
<1>1. Spec => []Accounts
  BY InitAccounts, NextAccounts, Invariance, PTL DEF Spec
<1>2. ASSUME Inv, Accounts, ~bridge PROVE AttemptsBounded
  <2> SUFFICES ASSUME NEW r \in Request PROVE typed[r] <= MaxAttempts + lost[r]
    BY DEF AttemptsBounded
  <2>1. Account(r) /\ MaxAttempts \in Nat
    BY <1>2, BoundAssumption DEF Accounts
  <2>2. CASE list[r].status = "none"
    BY <1>2, <2>1, <2>2, CountFact DEF Account
  <2>3. CASE list[r].status = "pending"
    BY <1>2, <2>1, <2>3, CountFact, PendingFact
  <2>4. CASE list[r].status \in {"notified", "delivered", "failed"}
    BY <1>2, <2>1, <2>4, CountFact DEF Account
  <2> QED
    BY <1>2, <2>2, <2>3, <2>4, CountFact DEF Status
<1>3. Inv /\ Accounts => (~bridge => AttemptsBounded)
  BY <1>2
<1> QED
  BY <1>1, <1>3, Invariance, PTL

------------------------------------------------------------------------------
(* Failed requests with the engine in use *)

Final == {"failed", "delivered"}

\* The engine is told of every failure, and every command of a sender that queues a
\* request and of a hook that records an outcome is executed.
FailuresTold == bridge => \A r \in Request : ~Transition(r, "failed")
CommandsRun ==
    bridge =>
        /\ \A r \in Request : Enqueue(r) => Command(r, "pending")
        /\ \A h \in Hook : Run(h) /\ Allowed(engine[Current(h)], Verdict(h).status)
                              => Command(Current(h), Verdict(h).status)

\* A hook that has the lock to record an outcome found its request pending.
AtPending == \A h \in Hook : pc[h] \in {"command", "write"} => Current(h) \in Pending(copy[h])

\* The list, and every copy of it, has the requests that the engine knows.
EngineKnows ==
    \A r \in Request :
        /\ r > queued => engine[r] = "none"
        /\ list[r].status = "none" <=> engine[r] = "none"
        /\ \A h \in Hook : pc[h] \in Locked => (copy[h][r].status = "none" <=> engine[r] = "none")

\* The engine knows of a failure, or has the request delivered, before it is written.
FailureDue(h, r) == pc[h] = "write" /\ r = Current(h) /\ Verdict(h).status = "failed"
FailureKnown == \A h \in Hook, r \in Request : FailureDue(h, r) => engine[r] \in Final

\* No copy of the request, and no outcome still to be written, takes it back.
Over(r) ==
    /\ engine[r] \in Final /\ list[r].status \in Final
    /\ \A h \in Hook : pc[h] \in Locked => copy[h][r].status \in Final \/ FailureDue(h, r)

Failed(r) ==
    \/ engine[r] = "failed" \/ list[r].status = "failed"
    \/ \E h \in Hook : pc[h] \in Locked /\ copy[h][r].status = "failed"
FailedIsOver == \A r \in Request : Failed(r) => Over(r)

EngineInv == EngineKnows /\ FailureKnown /\ FailedIsOver

\* With the engine, a step is one of six: it leaves alone the list and whoever has the
\* lock; it renders the list; it marks a request in the list only; it takes the lock and
\* copies the list; it writes a copy back; or it executes the command of a hook.
Same(h) ==
    /\ pc'[h] = pc[h] /\ copy'[h] = copy[h]
    /\ claims'[h] = claims[h] /\ result'[h] = result[h]
Quiet ==
    /\ UNCHANGED <<list, engine, queued>>
    /\ \A h \in Hook : pc'[h] \in Locked => Same(h)
Renders ==
    /\ list' = Render(engine')
    /\ \A h \in Hook : pc'[h] \in Locked => Same(h)
    /\ \/ engine' = engine /\ queued' = queued
       \/ \E r \in Request, status \in Status \ {"failed"} :
            /\ engine' = [engine EXCEPT ![r] = status]
            /\ \/ Allowed(engine[r], status) /\ queued' = queued
               \/ r > queued /\ queued' = r /\ status = "pending" /\ lock = Free
Takes(h) ==
    /\ UNCHANGED <<list, engine, queued>>
    /\ pc[h] \notin Locked /\ copy'[h] = list
    /\ \/ pc'[h] = "claim"
       \/ pc'[h] = "command" /\ UNCHANGED claims /\ Current(h) \in Pending(list)
    /\ \A k \in Hook \ {h} : Same(k)
Writes(h) ==
    /\ pc[h] \in {"claim", "write"} /\ pc'[h] \notin Locked /\ UNCHANGED <<engine, queued>>
    /\ list' = IF pc[h] = "claim" THEN copy[h] ELSE [copy[h] EXCEPT ![Current(h)] = Verdict(h)]
    /\ \A k \in Hook \ {h} : Same(k)

LEMMA StepKinds ==
    ASSUME Inv, bridge, [Next]_vars, CommandsRun
    PROVE  \/ Quiet \/ Renders
           \/ \E r \in Request, status \in Status : Transition(r, status)
           \/ \E h \in Hook : Takes(h) \/ Writes(h) \/ Run(h)
<1> USE DEF Inv, TypeOK
<1>1. ASSUME NEW r \in Request, Enqueue(r) PROVE Renders
  <2>1. r > queued /\ queued' = r
    BY <1>1, BoundAssumption DEF Enqueue
  <2>2. Command(r, "pending")
    BY <1>1 DEF CommandsRun
  <2> QED
    BY <1>1, <2>1, <2>2 DEF Enqueue, Command, Rendered, Renders, Same, hooks, Status
<1>2. ASSUME NEW r \in Request, NEW status \in Status, Marks(r, status) PROVE Renders
  BY <1>2 DEF Marks, Command, Rendered, Renders, Same, hooks
<1>3. CASE OtherCommand
  BY <1>3 DEF OtherCommand, Rendered, Renders, Same, hooks
<1>4. ASSUME NEW h \in Hook, Claim(h) PROVE Takes(h)
  BY <1>4 DEF Claim, Goto, Takes, Same, Locked
<1>5. ASSUME NEW h \in Hook, ClaimWrite(h) \/ FinalWrite(h) PROVE Writes(h)
  BY <1>5 DEF ClaimWrite, FinalWrite, Goto, Writes, Same, Locked
<1>6. ASSUME NEW h \in Hook, Reread(h) PROVE Takes(h) \/ Quiet
  BY <1>6 DEF Reread, Goto, Takes, Quiet, Same, Locked
<1>7. ASSUME NEW h \in Hook,
             ReleaseRead(h) \/ ReleaseRemove(h) \/ NextClaim(h) \/ Timeout(h)
      PROVE  Quiet
  BY <1>7 DEF ReleaseRead, ReleaseRemove, NextClaim, Timeout, Goto, Quiet, Same, Locked
<1>8. ASSUME NEW h \in Hook, Kill(h) PROVE Quiet
  BY <1>8 DEF Kill, Quiet, Same, Locked
<1>9. CASE UNCHANGED vars \/ RecordPane
  BY <1>9 DEF vars, RecordPane, hooks, Quiet, Same
<1>10. ASSUME NEW h \in Hook, Inject(h) PROVE Quiet \/ Renders
  <2>1. /\ UNCHANGED <<queued, claims, copy>> /\ pc' = [pc EXCEPT ![h] = "finalize"]
        /\ \A k \in Hook \ {h} : result'[k] = result[k]
    BY <1>10 DEF Inject, Ends, Goto
  <2>2. \A k \in Hook : pc'[k] \in Locked => Same(k)
    BY <2>1 DEF Same, Locked
  <2>3. CASE UNCHANGED <<list, engine>>
    BY <2>1, <2>2, <2>3 DEF Quiet
  <2>4. CASE Allowed(engine[Current(h)], "delivered") /\ Command(Current(h), "delivered")
    <3>1. Current(h) \in Request
      BY <1>10, CurrentFact DEF Inject, Goto
    <3> QED
      BY <2>1, <2>2, <2>4, <3>1 DEF Renders, Command, Rendered, Status
  <2> QED
    BY <1>10, <2>3, <2>4 DEF Inject
<1> QED
  BY <1>1, <1>2, <1>3, <1>4, <1>5, <1>6, <1>7, <1>8, <1>9, <1>10 DEF Next, Drain

\* What a process that is left alone will write stays what it is.
LEMMA SameFact ==
    ASSUME NEW h \in Hook, Same(h)
    PROVE  /\ Current(h)' = Current(h) /\ Verdict(h)' = Verdict(h)
           /\ \A r \in Request : FailureDue(h, r)' <=> FailureDue(h, r)
BY DEF Same, Current, Verdict, FailureDue

LEMMA RunFact ==
    ASSUME Inv, NEW h \in Hook, Run(h)
    PROVE  /\ Current(h) \in Request
           /\ Current(h)' = Current(h) /\ Verdict(h)' = Verdict(h) /\ copy' = copy
           /\ pc[h] = "command" /\ pc'[h] = "write"
           /\ \A k \in Hook \ {h} : Same(k)
           /\ \A k \in Hook \ {h} : pc[k] \notin Locked
           /\ Verdict(h).status \in {"pending", "notified", "failed"}
<1>1. pc[h] = "command" /\ pc'[h] = "write" /\ UNCHANGED <<claims, copy, result>>
  BY DEF Run, Goto, Inv, TypeOK
<1>2. \A k \in Hook \ {h} : Same(k)
  BY <1>1 DEF Run, Goto, Same, Inv, TypeOK
<1>3. \A k \in Hook \ {h} : pc[k] \notin Locked
  BY <1>1 DEF Locked, Inv, TypeOK
<1> QED
  BY <1>1, <1>2, <1>3, CurrentFact, VerdictFact DEF Current, Verdict

\* Everybody else is outside while a process has the lock.
LEMMA LockFact ==
    ASSUME Inv, NEW h \in Hook, pc[h] \in Locked
    PROVE  \A k \in Hook \ {h} : pc[k] \notin Locked
BY DEF Inv, TypeOK

LEMMA RenderStatus ==
    ASSUME NEW log \in [Request -> Status], NEW r \in Request
    PROVE  Render(log)[r].status = log[r]
BY AtFact DEF Render

LEMMA AtPendingInit == Init => AtPending
BY DEF Init, AtPending

LEMMA AtPendingKeeps ==
    ASSUME Inv, AtPending, [Next]_vars
    PROVE  AtPending'
<1> USE DEF Inv, TypeOK
<1>1. ASSUME NEW h \in Hook, Reread(h) PROVE AtPending'
  <2>1. \A k \in Hook \ {h} : Same(k)
    BY <1>1 DEF Reread, Goto, Same
  <2>2. \A k \in Hook \ {h} : pc'[k] \in {"command", "write"} => Current(k)' \in Pending(copy[k])'
    BY <2>1, SameFact DEF AtPending, Same, Pending
  <2>3. pc'[h] \in {"command", "write"} => Current(h)' \in Pending(copy[h])'
    BY <1>1 DEF Reread, Goto, Current, Pending
  <2> QED
    BY <2>2, <2>3 DEF AtPending
<1>2. ASSUME NEW h \in Hook, Run(h) PROVE AtPending'
  BY <1>2, RunFact, SameFact DEF AtPending, Same, Pending
<1>3. ASSUME \A h \in Hook : pc'[h] \in {"command", "write"} => Same(h)  PROVE AtPending'
  BY <1>3, SameFact DEF AtPending, Same, Pending
<1>4. ASSUME NEW h \in Hook,
             \/ Claim(h) \/ ClaimWrite(h) \/ Inject(h) \/ FinalWrite(h) \/ ReleaseRead(h)
             \/ ReleaseRemove(h) \/ NextClaim(h) \/ Timeout(h) \/ Kill(h)
      PROVE  \A k \in Hook : pc'[k] \in {"command", "write"} => Same(k)
  BY <1>4 DEF Claim, ClaimWrite, Inject, Ends, FinalWrite, ReleaseRead, ReleaseRemove,
     NextClaim, Timeout, Kill, Goto, Same, Locked
<1>5. ASSUME UNCHANGED hooks  PROVE \A h \in Hook : Same(h)
  BY <1>5 DEF hooks, Same
<1>6. (\E r \in Request : Enqueue(r)) \/ OtherCommand \/ RecordPane \/ UNCHANGED vars
        \/ (\E r \in Request, status \in Status : Marks(r, status) \/ Transition(r, status))
        => UNCHANGED hooks
  BY DEF Enqueue, OtherCommand, RecordPane, Marks, Transition, vars
<1> QED
  BY <1>1, <1>2, <1>3, <1>4, <1>5, <1>6 DEF Next, Drain

\* A request that has failed or is delivered is so for the engine for ever.
LEMMA EngineFinal ==
    ASSUME Inv, bridge, EngineKnows, [Next]_vars, CommandsRun,
           NEW r \in Request, engine[r] \in Final
    PROVE  engine'[r] = engine[r]
<1>1. CASE Quiet
  BY <1>1 DEF Quiet
<1>2. CASE Renders
  BY <1>2 DEF Renders, Final, Allowed, EngineKnows, Inv, TypeOK
<1>3. ASSUME NEW q \in Request, NEW status \in Status, Transition(q, status)
      PROVE  engine'[r] = engine[r]
  BY <1>3 DEF Transition
<1>4. ASSUME NEW h \in Hook, Takes(h) \/ Writes(h)  PROVE engine'[r] = engine[r]
  BY <1>4 DEF Takes, Writes
<1>5. ASSUME NEW h \in Hook, Run(h)  PROVE engine'[r] = engine[r]
  BY <1>5 DEF Run, Command, Allowed, Final, Inv, TypeOK
<1> QED
  BY <1>1, <1>2, <1>3, <1>4, <1>5, StepKinds

LEMMA EngineKnowsKeeps ==
    ASSUME Inv, AtPending, bridge, EngineKnows, [Next]_vars, CommandsRun
    PROVE  EngineKnows'
<1> USE DEF EngineKnows
<1>0. engine' \in [Request -> Status] /\ \A h \in Hook : pc[h] \in Locked <=> lock = h
  BY NextInv DEF Inv, TypeOK
<1>1. CASE Quiet
  BY <1>1 DEF Quiet, Same
<1>2. CASE Renders
  <2>1. \A r \in Request : list'[r].status = engine'[r]
    BY <1>0, <1>2, RenderStatus DEF Renders
  <2>2. \A h \in Hook : pc'[h] \in Locked => pc'[h] = pc[h] /\ copy'[h] = copy[h]
    BY <1>2 DEF Renders, Same
  <2>5. \A r \in Request : r > queued' => engine'[r] = "none"
    BY <1>2, BoundAssumption DEF Renders, Allowed, Inv, TypeOK, Request
  <2>3. CASE lock = Free
    BY <1>0, <2>1, <2>2, <2>3, <2>5, BoundAssumption
  <2>4. CASE lock # Free
    <3>1. \A r \in Request : engine'[r] = "none" <=> engine[r] = "none"
      BY <1>2, <2>4 DEF Renders, Allowed, Inv, TypeOK
    <3> QED
      BY <2>1, <2>2, <2>5, <3>1
  <2> QED
    BY <2>3, <2>4
<1>3. ASSUME NEW r \in Request, NEW status \in Status, Transition(r, status)
      PROVE  EngineKnows'
  <2>1. list[r].status # "none" /\ status # "none"
    BY <1>3 DEF Transition, Allowed
  <2>2. At(status, 0).status = status
    BY AtFact
  <2>3. \A q \in Request : list'[q].status = "none" <=> list[q].status = "none"
    BY <1>3, <2>1, <2>2 DEF Transition, Inv, TypeOK
  <2> QED
    BY <1>3, <2>3 DEF Transition, hooks
<1>4. ASSUME NEW h \in Hook, Takes(h)  PROVE EngineKnows'
  BY <1>4 DEF Takes, Same
<1>5. ASSUME NEW h \in Hook, Writes(h)  PROVE EngineKnows'
  <2>1. pc[h] \in Locked /\ \A k \in Hook : pc'[k] \in Locked => pc'[k] = pc[k] /\ copy'[k] = copy[k]
    BY <1>5 DEF Writes, Same, Locked
  <2>2. \A r \in Request : list'[r].status = "none" <=> copy[h][r].status = "none"
    <3>1. CASE pc[h] = "claim"
      BY <1>5, <3>1 DEF Writes
    <3>2. CASE pc[h] = "write"
      <4>1. /\ Current(h) \in Request /\ copy[h][Current(h)].status = "pending"
            /\ Verdict(h).status # "none"
        BY <3>2, CurrentFact, VerdictFact DEF AtPending, Pending
      <4>2. list' = [copy[h] EXCEPT ![Current(h)] = Verdict(h)] /\ copy[h] \in [Request -> Entry]
        BY <1>5, <3>2 DEF Writes, Inv, TypeOK
      <4> QED
        BY <4>1, <4>2
    <3> QED
      BY <1>5, <3>1, <3>2 DEF Writes
  <2> QED
    BY <1>5, <2>1, <2>2 DEF Writes
<1>6. ASSUME NEW h \in Hook, Run(h)  PROVE EngineKnows'
  <2>1. pc[h] \in Locked /\ copy' = copy /\ \A k \in Hook : pc'[k] \in Locked => pc[k] \in Locked
    BY <1>6, RunFact DEF Same, Locked
  <2>2. \A r \in Request : engine'[r] = "none" <=> engine[r] = "none"
    BY <1>6 DEF Run, Command, Allowed, Inv, TypeOK
  <2>4. queued' = queued
    BY <1>6 DEF Run
  <2>3. list' = list \/ list' = Render(engine')
    BY <1>6 DEF Run, Command, Rendered
  <2> QED
    BY <1>0, <2>1, <2>2, <2>3, <2>4, RenderStatus
<1> QED
  BY <1>1, <1>2, <1>3, <1>4, <1>5, <1>6, StepKinds

LEMMA FailureKnownKeeps ==
    ASSUME Inv, AtPending, bridge, EngineKnows, FailureKnown, [Next]_vars, CommandsRun
    PROVE  FailureKnown'
<1>1. ASSUME NEW h \in Hook, NEW r \in Request, FailureDue(h, r)', Same(h)
      PROVE  engine'[r] \in Final
  <2>1. engine[r] \in Final
    BY <1>1, SameFact DEF FailureKnown
  <2> QED
    BY <2>1, EngineFinal
<1>2. ASSUME NEW h \in Hook, Run(h)  PROVE FailureKnown'
  <2>1. ASSUME NEW r \in Request, FailureDue(h, r)'  PROVE engine'[r] \in Final
    <3>1. r = Current(h) /\ Verdict(h).status = "failed" /\ r \in Request
      BY <1>2, <2>1, RunFact DEF FailureDue
    <3>2. CASE Allowed(engine[r], "failed")
      BY <1>2, <3>1, <3>2 DEF Command, CommandsRun, Final, Inv, TypeOK
    <3>3. CASE ~Allowed(engine[r], "failed")
      <4>1. engine[r] # "none"
        BY <1>2, <3>1, RunFact DEF EngineKnows, AtPending, Pending, Locked
      <4>2. engine[r] \in Final
        BY <3>3, <4>1 DEF Allowed, Final, Inv, TypeOK, Status
      <4> QED
        BY <4>2, EngineFinal
    <3> QED
      BY <3>2, <3>3
  <2> QED
    BY <1>1, <1>2, <2>1, RunFact DEF FailureKnown
<1>3. ASSUME \A h \in Hook : pc'[h] = "write" => Same(h)  PROVE FailureKnown'
  BY <1>1, <1>3 DEF FailureKnown, FailureDue
<1>4. ASSUME NEW h \in Hook, Takes(h) \/ Writes(h)
      PROVE  \A k \in Hook : pc'[k] = "write" => Same(k)
  BY <1>4 DEF Takes, Writes, Locked
<1>5. Quiet \/ Renders \/ (\E r \in Request, status \in Status : Transition(r, status))
        => \A h \in Hook : pc'[h] = "write" => Same(h)
  BY DEF Quiet, Renders, Transition, hooks, Same, Locked
<1> QED
  BY <1>2, <1>3, <1>4, <1>5, StepKinds

LEMMA BridgeStays == [Next]_vars => bridge' = bridge
BY DEF Next, Drain, vars, settings, Enqueue, Marks, Transition, OtherCommand, RecordPane, Claim,
   ClaimWrite, Inject, Reread, Run, FinalWrite, ReleaseRead, ReleaseRemove, NextClaim, Timeout,
   Kill

\* Nothing takes back a request that is over.
LEMMA OverStays ==
    ASSUME Inv, AtPending, bridge, EngineKnows, [Next]_vars, CommandsRun,
           NEW r \in Request, Over(r)
    PROVE  Over(r)'
<1>0. engine' \in [Request -> Status] /\ engine'[r] = engine[r] /\ engine[r] \in Final
  BY NextInv, EngineFinal DEF Inv, TypeOK, Over
<1>1. ASSUME NEW h \in Hook, Same(h), pc'[h] \in Locked
      PROVE  copy'[h][r].status \in Final \/ FailureDue(h, r)'
  BY <1>1, SameFact DEF Over, Same
<1>2. CASE Quiet
  BY <1>0, <1>1, <1>2 DEF Quiet, Over
<1>3. CASE Renders
  BY <1>0, <1>1, <1>3, RenderStatus DEF Renders, Over
<1>4. ASSUME NEW q \in Request, NEW status \in Status, Transition(q, status)
      PROVE  Over(r)'
  <2>1. q # r
    BY <1>4 DEF Transition, Allowed, Over, Final
  <2>2. list'[r] = list[r] /\ \A h \in Hook : Same(h)
    BY <1>4, <2>1 DEF Transition, hooks, Same, Inv, TypeOK
  <2> QED
    BY <1>0, <1>1, <2>2 DEF Over
<1>5. ASSUME NEW h \in Hook, Takes(h)  PROVE Over(r)'
  BY <1>0, <1>1, <1>5 DEF Takes, Over
<1>6. ASSUME NEW h \in Hook, Writes(h)  PROVE Over(r)'
  <2>1. pc[h] \in Locked /\ copy[h] \in [Request -> Entry]
    BY <1>6 DEF Writes, Locked, Inv, TypeOK
  <2>2. CASE pc[h] = "claim"
    <3>1. list'[r].status \in Final
      BY <1>6, <2>1, <2>2 DEF Writes, Over, FailureDue
    <3> QED
      BY <1>0, <1>1, <1>6, <3>1 DEF Writes, Over
  <2>3. CASE pc[h] = "write"
    <3>1. Current(h) \in Request /\ copy[h][Current(h)].status = "pending"
      BY <2>3, CurrentFact DEF AtPending, Pending
    <3>2. CASE r = Current(h)
      <4>1. Verdict(h).status = "failed"
        BY <2>1, <3>1, <3>2 DEF Over, FailureDue, Final
      <4> QED
        BY <1>0, <1>1, <1>6, <2>1, <2>3, <3>2, <4>1 DEF Writes, Over, Final
    <3>3. CASE r # Current(h)
      <4>1. copy[h][r].status \in Final
        BY <2>1, <3>3 DEF Over, FailureDue
      <4> QED
        BY <1>0, <1>1, <1>6, <2>1, <2>3, <3>3, <4>1 DEF Writes, Over
    <3> QED
      BY <3>2, <3>3
  <2> QED
    BY <1>6, <2>2, <2>3 DEF Writes
<1>7. ASSUME NEW h \in Hook, Run(h)  PROVE Over(r)'
  <2>1. Current(h) # r
    BY <1>7, RunFact DEF Over, FailureDue, AtPending, Pending, Locked, Final
  <2>2. copy'[h][r].status \in Final
    BY <1>7, RunFact DEF Over, FailureDue, Locked
  <2>3. list' = list \/ list' = Render(engine')
    BY <1>7 DEF Run, Command, Rendered
  <2>4. list'[r].status \in Final
    BY <1>0, <2>3, RenderStatus DEF Over
  <2> QED
    BY <1>0, <1>1, <1>7, <2>2, <2>4, RunFact DEF Over
<1> QED
  BY <1>2, <1>3, <1>4, <1>5, <1>6, <1>7, StepKinds

\* A request fails by the outcome of a hook, and is over then.
LEMMA FailedIsOverKeeps ==
    ASSUME Inv, AtPending, bridge, EngineInv, [Next]_vars, FailuresTold, CommandsRun
    PROVE  FailedIsOver'
<1> USE DEF EngineInv
<1> SUFFICES ASSUME NEW r \in Request, Failed(r)'  PROVE Over(r)'
  BY DEF FailedIsOver
<1> SUFFICES ASSUME ~Failed(r)  PROVE Over(r)'
  BY OverStays DEF FailedIsOver
<1>0. /\ engine[r] # "failed" /\ list[r].status # "failed"
      /\ \A h \in Hook : pc[h] \in Locked => copy[h][r].status # "failed"
      /\ engine' \in [Request -> Status]
  BY NextInv DEF Failed, Inv, TypeOK
<1>1. CASE Quiet
  BY <1>0, <1>1 DEF Quiet, Same, Failed
<1>2. CASE Renders
  <2>1. engine'[r] # "failed"
    BY <1>0, <1>2 DEF Renders, Inv, TypeOK
  <2>2. list'[r].status # "failed"
    BY <1>0, <1>2, <2>1, RenderStatus DEF Renders
  <2> QED
    BY <1>0, <1>2, <2>1, <2>2 DEF Renders, Same, Failed
<1>3. ASSUME NEW q \in Request, NEW status \in Status, Transition(q, status)
      PROVE  FALSE
  <2>1. status # "failed"
    BY <1>3 DEF FailuresTold
  <2>2. At(status, 0).status = status
    BY AtFact
  <2> QED
    BY <1>0, <1>3, <2>1, <2>2 DEF Transition, hooks, Failed, Inv, TypeOK
<1>4. ASSUME NEW h \in Hook, Takes(h)  PROVE FALSE
  BY <1>0, <1>4 DEF Takes, Same, Failed
<1>5. ASSUME NEW h \in Hook, Writes(h)  PROVE Over(r)'
  <2>1. \A k \in Hook : pc'[k] \notin Locked
    BY <1>5, LockFact DEF Writes, Same, Locked
  <2>2. copy[h] \in [Request -> Entry] /\ copy[h][r].status # "failed"
    BY <1>0, <1>5 DEF Writes, Locked, Inv, TypeOK
  <2>3. list'[r].status = "failed"
    BY <1>0, <1>5, <2>1 DEF Writes, Failed
  <2>4. FailureDue(h, r)
    BY <1>5, <2>2, <2>3 DEF Writes, FailureDue
  <2>5. engine'[r] \in Final
    BY <1>5, <2>4 DEF FailureKnown, Writes
  <2> QED
    BY <2>1, <2>3, <2>5 DEF Over, Final
<1>6. ASSUME NEW h \in Hook, Run(h)  PROVE Over(r)'
  <2>1. Current(h) \in Request /\ copy' = copy /\ \A k \in Hook : pc'[k] \in Locked => k = h
    BY <1>6, RunFact DEF Same
  <2>2. copy'[h][r].status # "failed"
    BY <1>0, <1>6, <2>1, RunFact DEF Locked
  <2>3. list' = list \/ list' = Render(engine')
    BY <1>6 DEF Run, Command, Rendered
  <2>4. engine'[r] = "failed" /\ list'[r].status = "failed"
    <3>1. engine'[r] = "failed"
      BY <1>0, <2>1, <2>2, <2>3, RenderStatus DEF Failed
    <3> QED
      BY <1>0, <1>6, <2>3, <3>1, RenderStatus DEF Run, Command, Rendered
  <2>5. r = Current(h) /\ Verdict(h).status = "failed"
    BY <1>0, <1>6, <2>1, <2>4 DEF Run, Command, Inv, TypeOK
  <2>6. FailureDue(h, r)'
    BY <1>6, <2>5, RunFact DEF FailureDue
  <2> QED
    BY <2>1, <2>4, <2>6 DEF Over, Final
<1> QED
  BY <1>1, <1>2, <1>3, <1>4, <1>5, <1>6, StepKinds

LEMMA EngineInit == Init => EngineInv
<1> SUFFICES ASSUME Init  PROVE EngineInv
  OBVIOUS
<1>1. \A r \in Request : engine[r] = "none" /\ list[r].status = "none"
  BY AtFact DEF Init, NoCopy, Status
<1>2. \A h \in Hook : pc[h] = "idle"
  BY DEF Init
<1> QED
  BY <1>1, <1>2 DEF EngineInv, EngineKnows, FailureKnown, FailureDue, FailedIsOver, Failed, Locked

\* "failed -> notified is not allowed": so it is with the bridge too, as long as nobody
\* fails a request without telling the engine and every command of a hook is executed.
THEOREM FailedStaysUnless ==
    Spec /\ [][FailuresTold]_vars /\ [][CommandsRun]_vars => FailedStaysFailed
<1> DEFINE EInv == AtPending /\ (bridge => EngineInv)
           Settled(r) == list[r].status = "failed" \/ (bridge /\ Over(r))
<1>1. Init => EInv
  BY AtPendingInit, EngineInit
<1>2. Inv /\ EInv /\ [Next]_vars /\ [FailuresTold]_vars /\ [CommandsRun]_vars => EInv'
  <2> SUFFICES ASSUME Inv, EInv, [Next]_vars, [FailuresTold]_vars, [CommandsRun]_vars
               PROVE  EInv'
    OBVIOUS
  <2>1. bridge' = bridge
    BY BridgeStays
  <2>2. CASE UNCHANGED vars
    BY <2>2 DEF vars, settings, hooks, AtPending, EngineInv, EngineKnows, FailureKnown, FailureDue,
       FailedIsOver, Failed, Over, Current, Verdict, Pending
  <2>3. CASE FailuresTold /\ CommandsRun
    BY <2>1, <2>3, AtPendingKeeps, EngineKnowsKeeps, FailureKnownKeeps, FailedIsOverKeeps
    DEF EngineInv
  <2> QED
    BY <2>2, <2>3
<1>3. ASSUME NEW r \in Request
      PROVE  Spec /\ [][FailuresTold]_vars /\ [][CommandsRun]_vars
               => [](list[r].status = "failed" => [](list[r].status # "notified"))
  <2>1. Inv /\ EInv /\ [Next]_vars /\ [CommandsRun]_vars => (Settled(r) => Settled(r)')
    <3> SUFFICES ASSUME Inv, EInv, [Next]_vars, [CommandsRun]_vars, Settled(r)
                 PROVE  Settled(r)'
      OBVIOUS
    <3>1. CASE bridge /\ CommandsRun
      BY <3>1, BridgeStays, OverStays DEF EngineInv, FailedIsOver, Failed
    <3>3. CASE UNCHANGED vars
      BY <3>3 DEF vars, settings, hooks, Over, FailureDue, Current, Verdict
    <3>2. CASE ~bridge
      BY <3>2, StatusForward DEF Allowed
    <3> QED
      BY <3>1, <3>2, <3>3
  <2>2. Settled(r) => list[r].status # "notified"
    BY DEF Over, Final
  <2>3. list[r].status = "failed" => Settled(r)
    OBVIOUS
  <2> HIDE DEF EInv, Settled
  <2> QED
    BY <1>1, <1>2, <2>1, <2>2, <2>3, Invariance, PTL DEF Spec
<1> QED
  BY <1>3 DEF FailedStaysFailed
==============================================================================
