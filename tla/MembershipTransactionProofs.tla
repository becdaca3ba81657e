--------------------- MODULE MembershipTransactionProofs ---------------------
(* Proofs about MembershipTransaction for every number of task files and of  *)
(* transactions, whatever writes fail and take effect all the same.         *)
EXTENDS MembershipTransaction, TLAPS

------------------------------------------------------------------------------
(* The inductive invariant *)

Typed ==
    /\ disk \in [File -> 0..MaxTxn]
    /\ journal \in Journal \cup {NoJournal}
    /\ op \in Op \cup {Idle}
    /\ issued \in 0..MaxTxn
    /\ promised \in [File -> 0..MaxTxn]

\* A transaction replaces files as they were promised, or newer ones.
TxnSound(t) ==
    /\ {Config, Manifest} \subseteq t.files
    /\ t.new <= issued
    /\ \A f \in File : promised[f] <= t.old[f] /\ t.old[f] <= t.new

\* Whoever is inside works on the transaction of the journal on disk.
OpSound ==
    op # Idle => /\ TxnSound(op.txn)
                 /\ Orphaned \/ (journal # NoJournal /\ op.txn = journal.txn)

\* Without a journal the files are as promised.
QuietSound == journal = NoJournal => \A f \in File : promised[f] <= disk[f]

\* The journal holds what the files were, and only its files may differ.
JournalSound ==
    journal # NoJournal =>
        /\ TxnSound(journal.txn)
        /\ \A f \in File \ journal.txn.files : disk[f] = journal.txn.old[f]

\* The files an operation is done with hold what it writes.
ProgressSound ==
    op # Idle =>
        /\ op.todo \subseteq op.txn.files
        /\ op.stage = "apply" =>
              /\ op.kind # "recovery"
              /\ \A f \in op.txn.files \ op.todo : disk[f] = op.txn.new
        /\ op.stage \in {"unlink", "verify", "finalize"} =>
              /\ op.kind # "recovery" /\ journal.phase = "committed"
              /\ \A f \in op.txn.files : disk[f] = op.txn.new
        /\ op.stage = "undo" =>
              /\ op.kind = "backward"
              /\ \A f \in op.txn.files \ op.todo : disk[f] = op.txn.old[f]
        /\ op.stage = "recover" =>
              \A f \in op.txn.files \ op.todo : disk[f] = Recovered(f)

Bounded == \A f \in File : disk[f] <= issued /\ promised[f] <= issued

IInv == Typed /\ Bounded /\ OpSound /\ QuietSound /\ JournalSound /\ ProgressSound

------------------------------------------------------------------------------
(* Facts about the data *)

\* The files are numbered, the configuration and the manifest come last.
LEMMA Files ==
    /\ Config \in File /\ Manifest \in File
    /\ \A f \in File : f \in Nat
  BY BoundsAssumption DEF Config, Manifest, File

\* The journal and the operation have their fields.
LEMMA JournalFields ==
    ASSUME Typed, journal # NoJournal
    PROVE  /\ journal.txn \in Txn /\ journal.phase \in {"prepared", "committed"}
           /\ journal.txn.files \in SUBSET File
           /\ journal.txn.old \in [File -> 0..MaxTxn]
           /\ journal.txn.new \in 1..MaxTxn
           /\ journal = [phase |-> journal.phase, txn |-> journal.txn]
  BY DEF Typed, Journal, Txn

LEMMA OpFields ==
    ASSUME Typed, op # Idle
    PROVE  /\ op \in Op /\ op.txn \in Txn /\ op.todo \in SUBSET File
           /\ op.kind \in Variant \cup {"recovery"} /\ op.stage \in Stage
           /\ op.txn.files \in SUBSET File
           /\ op.txn.old \in [File -> 0..MaxTxn]
           /\ op.txn.new \in 1..MaxTxn
  BY DEF Typed, Op, Txn

\* A well-formed operation is never mistaken for an empty barrier.
LEMMA AtType ==
    ASSUME NEW kind \in Variant \cup {"recovery"}, NEW stage \in Stage,
           NEW todo \in SUBSET File, NEW txn \in Txn
    PROVE  /\ At(kind, stage, todo, txn) \in Op /\ At(kind, stage, todo, txn) # Idle
           /\ At(kind, stage, todo, txn).kind = kind
           /\ At(kind, stage, todo, txn).stage = stage
           /\ At(kind, stage, todo, txn).todo = todo
           /\ At(kind, stage, todo, txn).txn = txn
  BY SentinelsAssumption DEF At, Op

LEMMA JournalType ==
    ASSUME NEW phase \in {"prepared", "committed"}, NEW txn \in Txn
    PROVE  /\ [phase |-> phase, txn |-> txn] \in Journal
           /\ [phase |-> phase, txn |-> txn] # NoJournal
  BY SentinelsAssumption DEF Journal

------------------------------------------------------------------------------
\* A transaction stays sound as long as nothing is promised or begun.
LEMMA TxnStays ==
    ASSUME NEW t, TxnSound(t), issued' = issued, promised' = promised
    PROVE  TxnSound(t)'
  BY DEF TxnSound

LEMMA InitInv == Init => IInv
  BY Files, SentinelsAssumption, BoundsAssumption
     DEF Init, IInv, Typed, Bounded, OpSound, QuietSound, JournalSound, ProgressSound

------------------------------------------------------------------------------
(* Steps that write one file of the running transaction *)

\* What recovery writes is one of the two values in the journal.
LEMMA RecoveredIs ==
    ASSUME Typed, journal # NoJournal, NEW f \in File
    PROVE  /\ Recovered(f) \in {journal.txn.new, journal.txn.old[f]}
           /\ Recovered(f) \in 0..MaxTxn
  BY JournalFields, BoundsAssumption DEF Recovered

\* A file of the transaction may be given either value of the journal.
LEMMA WroteSound ==
    ASSUME IInv, op # Idle, NEW f \in op.txn.files, NEW r,
           NEW v \in {op.txn.new, op.txn.old[f]}, Wrote(r, f, v),
           journal' = journal, issued' = issued, promised' = promised
    PROVE  /\ disk' \in [File -> 0..MaxTxn]
           /\ \A g \in File \ {f} : disk'[g] = disk[g]
           /\ TookEffect(r) => disk'[f] = v
           /\ Bounded' /\ QuietSound' /\ JournalSound'
  <1>1. /\ Orphaned \/ (journal # NoJournal /\ op.txn = journal.txn)
        /\ f \in File /\ promised[f] <= v
        /\ v \in 0..MaxTxn /\ v <= issued
    <2>1. op.txn.files \in SUBSET File /\ f \in File
      BY OpFields DEF IInv
    <2>2. /\ op.txn.old[f] \in 0..MaxTxn /\ op.txn.new \in 0..MaxTxn
          /\ promised[f] \in 0..MaxTxn /\ issued \in 0..MaxTxn
      BY <2>1, OpFields DEF IInv, Typed
    <2>3. /\ promised[f] <= op.txn.old[f] /\ op.txn.old[f] <= op.txn.new
          /\ op.txn.new <= issued
      BY <2>1 DEF IInv, OpSound, TxnSound
    <2>. QED
      BY <2>1, <2>2, <2>3, BoundsAssumption DEF IInv, OpSound
  <1>2. /\ disk' \in [File -> 0..MaxTxn]
        /\ \A g \in File \ {f} : disk'[g] = disk[g]
        /\ TookEffect(r) => disk'[f] = v
        /\ ~TookEffect(r) => disk' = disk
    BY <1>1 DEF Wrote, IInv, Typed
  <1>3. Bounded'
    BY <1>1, <1>2 DEF IInv, Bounded
  <1>4. QuietSound'
    BY <1>1, <1>2 DEF IInv, QuietSound
  <1>5. JournalSound'
    BY <1>1, <1>2, TxnStays DEF IInv, JournalSound, Orphaned
  <1>. QED
    BY <1>2, <1>3, <1>4, <1>5

\* The catch block starts with all files of the transaction still to do.
LEMMA CatchSound ==
    ASSUME Typed, op # Idle, TxnSound(op.txn), Catch, issued' = issued,
           journal' = NoJournal \/ journal'.txn = op.txn
    PROVE  /\ op' \in Op \cup {Idle} /\ promised' = promised
           /\ OpSound' /\ ProgressSound'
  <1>1. CASE op.kind = "backward" /\ Moving("undo", op.txn.files) /\ UNCHANGED promised
    <2>1. /\ op' \in Op /\ op' # Idle /\ op'.kind = "backward" /\ op'.stage = "undo"
          /\ op'.todo = op.txn.files /\ op'.txn = op.txn
      BY <1>1, OpFields, AtType DEF Moving, Stage
    <2>. QED
      BY <1>1, <2>1, TxnStays DEF OpSound, Orphaned, ProgressSound
  <1>2. CASE /\ op.kind # "backward" /\ journal' # NoJournal
             /\ Moving("recover", op.txn.files) /\ UNCHANGED promised
    <2>1. /\ op' \in Op /\ op' # Idle /\ op'.stage = "recover"
          /\ op'.todo = op.txn.files /\ op'.txn = op.txn
      BY <1>2, OpFields, AtType DEF Moving, Stage
    <2>. QED
      BY <1>2, <2>1, TxnStays DEF OpSound, ProgressSound
  <1>3. CASE ReturnError
    BY <1>3 DEF ReturnError, OpSound, ProgressSound
  <1>. QED
    BY <1>1, <1>2, <1>3 DEF Catch

LEMMA StepApply ==
    ASSUME IInv, NEW f, NEW r, Apply(f, r)
    PROVE  IInv'
  <1>1. op # Idle /\ op.stage = "apply" /\ f \in op.todo /\ f \in op.txn.files
    BY DEF Apply, Running, First, IInv, ProgressSound
  <1>2. promised' = promised
    <2>1. CASE r = "ok"
      BY <2>1 DEF Apply
    <2>2. CASE r # "ok"
      BY <2>2, <1>1 DEF Apply, Catch, ReturnError
    <2>. QED
      BY <2>1, <2>2
  <1>3. /\ disk' \in [File -> 0..MaxTxn]
        /\ \A g \in File \ {f} : disk'[g] = disk[g]
        /\ TookEffect(r) => disk'[f] = op.txn.new
        /\ Bounded' /\ QuietSound' /\ JournalSound'
    BY <1>1, <1>2, WroteSound DEF Apply
  <1>4. OpSound' /\ ProgressSound' /\ op' \in Op \cup {Idle}
    <2>1. CASE r = "ok"
      <3>1. /\ op' \in Op /\ op' # Idle /\ op'.kind = op.kind /\ op'.stage = "apply"
            /\ op'.todo = op.todo \ {f} /\ op'.txn = op.txn
        BY <1>1, <2>1, OpFields, AtType DEF Apply, Moving, Stage, IInv
      <3>2. \A g \in op.txn.files \ (op.todo \ {f}) : disk'[g] = op.txn.new
        BY <1>1, <1>3, <2>1, OpFields DEF TookEffect, IInv, ProgressSound
      <3>. QED
        BY <1>1, <1>2, <3>1, <3>2, TxnStays
           DEF IInv, OpSound, Orphaned, ProgressSound, Apply
    <2>2. CASE r # "ok"
      BY <1>1, <2>2, CatchSound DEF Apply, IInv, OpSound, Orphaned
    <2>. QED
      BY <2>1, <2>2
  <1>5. Typed'
    BY <1>2, <1>3, <1>4 DEF Apply, IInv, Typed
  <1>. QED
    BY <1>3, <1>4, <1>5 DEF IInv

LEMMA StepUndo ==
    ASSUME IInv, NEW f, NEW r, Undo(f, r)
    PROVE  IInv'
  <1>1. /\ op # Idle /\ op.stage = "undo" /\ f \in op.todo /\ f \in op.txn.files
        /\ op.kind = "backward"
    BY DEF Undo, Running, First, IInv, ProgressSound
  <1>2. /\ disk' \in [File -> 0..MaxTxn]
        /\ \A g \in File \ {f} : disk'[g] = disk[g]
        /\ TookEffect(r) => disk'[f] = op.txn.old[f]
        /\ Bounded' /\ QuietSound' /\ JournalSound'
    BY <1>1, WroteSound DEF Undo
  <1>3. OpSound' /\ ProgressSound' /\ op' \in Op \cup {Idle}
    <2>1. CASE r = "ok"
      <3>1. /\ op' \in Op /\ op' # Idle /\ op'.kind = op.kind /\ op'.stage = "undo"
            /\ op'.todo = op.todo \ {f} /\ op'.txn = op.txn
        BY <1>1, <2>1, OpFields, AtType DEF Undo, Moving, Stage, IInv
      <3>2. \A g \in op.txn.files \ (op.todo \ {f}) : disk'[g] = op.txn.old[g]
        BY <1>1, <1>2, <2>1, OpFields DEF TookEffect, IInv, ProgressSound
      <3>. QED
        BY <1>1, <3>1, <3>2, TxnStays DEF IInv, OpSound, Orphaned, ProgressSound, Undo
    <2>2. CASE r # "ok"
      BY <1>1, <2>2 DEF Undo, OpSound, ProgressSound
    <2>. QED
      BY <2>1, <2>2
  <1>4. Typed'
    BY <1>2, <1>3 DEF Undo, IInv, Typed
  <1>. QED
    BY <1>2, <1>3, <1>4 DEF IInv

LEMMA StepRecover ==
    ASSUME IInv, NEW f, NEW r, Recover(f, r)
    PROVE  IInv'
  <1>1. /\ op # Idle /\ op.stage = "recover" /\ f \in op.todo /\ f \in op.txn.files
        /\ journal # NoJournal /\ op.txn = journal.txn
    BY DEF Recover, Running, First, IInv, ProgressSound, OpSound, Orphaned
  <1>2. Recovered(f) \in {op.txn.new, op.txn.old[f]}
    BY <1>1, RecoveredIs, OpFields DEF IInv
  <1>3. /\ disk' \in [File -> 0..MaxTxn]
        /\ \A g \in File \ {f} : disk'[g] = disk[g]
        /\ TookEffect(r) => disk'[f] = Recovered(f)
        /\ Bounded' /\ QuietSound' /\ JournalSound'
    BY <1>1, <1>2, WroteSound DEF Recover
  <1>4. OpSound' /\ ProgressSound' /\ op' \in Op \cup {Idle}
    <2>1. CASE r = "ok"
      <3>1. /\ op' \in Op /\ op' # Idle /\ op'.kind = op.kind /\ op'.stage = "recover"
            /\ op'.todo = op.todo \ {f} /\ op'.txn = op.txn
        BY <1>1, <2>1, OpFields, AtType DEF Recover, Stage, IInv
      <3>2. \A g \in op.txn.files \ (op.todo \ {f}) : disk'[g] = Recovered(g)
        BY <1>1, <1>3, <2>1, OpFields DEF TookEffect, IInv, ProgressSound
      <3>3. \A g : Recovered(g)' = Recovered(g)
        BY DEF Recover, Recovered
      <3>. QED
        BY <1>1, <3>1, <3>2, <3>3, TxnStays DEF IInv, OpSound, ProgressSound, Recover
    <2>2. CASE r # "ok"
      BY <1>1, <2>2 DEF Recover, OpSound, ProgressSound
    <2>. QED
      BY <2>1, <2>2
  <1>5. Typed'
    BY <1>3, <1>4 DEF Recover, IInv, Typed
  <1>. QED
    BY <1>3, <1>4, <1>5 DEF IInv

------------------------------------------------------------------------------
(* Steps that write or remove the journal *)

\* Once the journal is gone the files speak for themselves: they must all hold
\* the new values, or all the old ones.
LEMMA GoneSound ==
    ASSUME IInv, op # Idle, journal # NoJournal, journal' = NoJournal,
           disk' = disk, issued' = issued,
           promised' \in [File -> 0..MaxTxn],
           \/ \A f \in op.txn.files : disk[f] = op.txn.new
           \/ \A f \in op.txn.files : disk[f] = op.txn.old[f],
           \/ promised' = promised
           \/ /\ \A f \in op.txn.files : disk[f] = op.txn.new
              /\ \A f \in op.txn.files : promised'[f] = op.txn.new
              /\ \A f \in File \ op.txn.files : promised'[f] = promised[f]
    PROVE  Bounded' /\ QuietSound' /\ JournalSound'
  <1>1. /\ op.txn = journal.txn
        /\ op.txn.files \subseteq File /\ op.txn.new <= issued
    BY OpFields DEF IInv, OpSound, Orphaned, TxnSound
  <1>2. JournalSound'
    BY DEF JournalSound
  <1>3. Bounded'
    BY <1>1 DEF IInv, Bounded
  <1>4. /\ op.txn.old \in [File -> 0..MaxTxn] /\ op.txn.new \in 0..MaxTxn
        /\ disk \in [File -> 0..MaxTxn] /\ promised \in [File -> 0..MaxTxn]
    BY OpFields DEF IInv, Typed
  <1>5. \A f \in File : /\ promised[f] <= op.txn.old[f] /\ op.txn.old[f] <= op.txn.new
                        /\ f \notin op.txn.files => disk[f] = op.txn.old[f]
    BY <1>1 DEF IInv, JournalSound, TxnSound
  <1>6. \A f \in File : promised'[f] <= disk'[f]
    BY <1>1, <1>4, <1>5
  <1>. QED
    BY <1>2, <1>3, <1>6 DEF QuietSound

\* What the caller is promised when its transaction returns.
LEMMA PromiseSound ==
    ASSUME Typed, op # Idle, Promise(op.txn.files, op.txn.new)
    PROVE  /\ promised' \in [File -> 0..MaxTxn]
           /\ \A f \in op.txn.files : promised'[f] = op.txn.new
           /\ \A f \in File \ op.txn.files : promised'[f] = promised[f]
  BY OpFields DEF Promise, Typed

LEMMA StepBegin ==
    ASSUME IInv, NEW kind \in Kinds, NEW S \in FilesOf(kind), NEW r, Begin(kind, S, r)
    PROVE  IInv'
  <1>1. S \in SUBSET File /\ {Config, Manifest} \subseteq S
    BY Files DEF FilesOf
  <1>2. /\ TxnOf(S) \in Txn /\ TxnOf(S).files = S /\ TxnOf(S).old = disk
        /\ TxnOf(S).new = issued + 1
        /\ issued' = issued + 1 /\ issued' \in 0..MaxTxn
    BY <1>1, BoundsAssumption DEF TxnOf, Txn, Begin, IInv, Typed
  <1>3. FirstPhase(kind) \in {"prepared", "committed"} /\ kind \in Variant \cup {"recovery"}
    BY KindsAssumption DEF FirstPhase
  <1>4. /\ op = Idle /\ journal = NoJournal
        /\ UNCHANGED <<disk, promised>>
    BY DEF Begin
  <1>5. Bounded'
    BY <1>2, <1>4 DEF IInv, Bounded, Typed
  <1>6. \A f \in File : promised[f] <= disk[f] /\ disk[f] <= issued + 1
    BY <1>4, Files DEF IInv, QuietSound, Bounded, Typed
  <1>7. CASE ~TookEffect(r)
    <2>1. journal' = NoJournal /\ op' = Idle
      BY <1>4, <1>7 DEF Begin, TookEffect
    <2>2. OpSound' /\ JournalSound' /\ ProgressSound'
      BY <2>1 DEF OpSound, JournalSound, ProgressSound
    <2>3. QuietSound'
      BY <1>4 DEF IInv, QuietSound
    <2>4. Typed'
      BY <1>2, <1>4, <2>1 DEF IInv, Typed
    <2>. QED
      BY <1>5, <2>2, <2>3, <2>4 DEF IInv
  <1>8. CASE TookEffect(r)
    <2>1. journal' = [phase |-> FirstPhase(kind), txn |-> TxnOf(S)]
      BY <1>8 DEF Begin
    <2>2. journal' \in Journal /\ journal' # NoJournal /\ journal'.txn = TxnOf(S)
      BY <1>2, <1>3, <2>1, JournalType
    <2>3. \/ op' = Idle
          \/ /\ op' \in Op /\ op' # Idle /\ op'.kind = kind /\ op'.stage = "apply"
             /\ op'.todo = S /\ op'.txn = TxnOf(S)
      <3>1. op' = Idle \/ op' = At(kind, "apply", S, TxnOf(S))
        BY DEF Begin
      <3>2. "apply" \in Stage
        BY DEF Stage
      <3>. QED
        BY <1>1, <1>2, <1>3, <3>1, <3>2, AtType
    <2>4. ASSUME NEW t, t = TxnOf(S)
          PROVE  TxnSound(t)'
      <3>1. issued + 1 <= issued'
        BY <1>2, BoundsAssumption
      <3>2. t.files = S /\ t.old = disk /\ t.new = issued + 1
        BY <1>2, <2>4
      <3>. QED
        BY <1>1, <1>4, <1>6, <3>1, <3>2 DEF TxnSound
    <2>5. JournalSound' /\ OpSound' /\ QuietSound'
      BY <1>2, <1>4, <2>2, <2>3, <2>4 DEF JournalSound, OpSound, QuietSound
    <2>6. ProgressSound'
      <3>1. kind # "recovery"
        BY KindsAssumption DEF Variant
      <3>. QED
        BY <1>2, <2>3, <3>1 DEF ProgressSound
    <2>7. Typed'
      BY <1>2, <1>4, <2>2, <2>3 DEF IInv, Typed
    <2>. QED
      BY <1>5, <2>5, <2>6, <2>7 DEF IInv
  <1>. QED
    BY <1>7, <1>8

LEMMA StepSeal ==
    ASSUME IInv, NEW r, Seal(r)
    PROVE  IInv'
  <1>1. /\ op # Idle /\ op.stage = "apply" /\ op.todo = {} /\ op.kind # "recovery"
        /\ journal # NoJournal /\ op.txn = journal.txn
        /\ \A f \in op.txn.files : disk[f] = op.txn.new
        /\ UNCHANGED <<disk, issued>>
    BY DEF Seal, Running, IInv, OpSound, Orphaned, ProgressSound
  <1>2. /\ journal' \in Journal /\ journal' # NoJournal /\ journal'.txn = op.txn
        /\ TookEffect(r) => journal'.phase = "committed"
    BY <1>1, JournalType, JournalFields, OpFields DEF Seal, Sealed, IInv, Typed
  <1>3. OpSound' /\ ProgressSound' /\ op' \in Op \cup {Idle} /\ promised' = promised
    <2>1. CASE r = "ok"
      <3>1. /\ op' \in Op /\ op' # Idle /\ op'.kind = op.kind /\ op'.todo = {}
            /\ op'.txn = op.txn /\ promised' = promised
            /\ op'.stage = IF op.kind = "retain" THEN "verify" ELSE "unlink"
        BY <1>1, <2>1, OpFields, AtType DEF Seal, Moving, Stage, IInv
      <3>. QED
        BY <1>1, <1>2, <2>1, <3>1, TxnStays DEF IInv, OpSound, ProgressSound, TookEffect
    <2>2. CASE r # "ok"
      BY <1>1, <1>2, <2>2, CatchSound DEF Seal, IInv, OpSound
    <2>. QED
      BY <2>1, <2>2
  <1>4. Bounded' /\ QuietSound' /\ JournalSound'
    BY <1>1, <1>2, <1>3, TxnStays DEF IInv, Bounded, QuietSound, JournalSound
  <1>5. Typed'
    BY <1>1, <1>2, <1>3 DEF IInv, Typed
  <1>. QED
    BY <1>3, <1>4, <1>5 DEF IInv

LEMMA StepUnlink ==
    ASSUME IInv, NEW r, Unlink(r)
    PROVE  IInv'
  <1>1. /\ op # Idle /\ op.stage = "unlink" /\ TxnSound(op.txn)
        /\ journal # NoJournal /\ op.txn = journal.txn
        /\ \A f \in op.txn.files : disk[f] = op.txn.new
        /\ UNCHANGED <<disk, issued>>
        /\ journal' = journal \/ journal' = NoJournal
    BY DEF Unlink, Unlinked, Running, IInv, OpSound, Orphaned, ProgressSound
  <1>2. CASE r = "ok"
    <2>1. journal' = NoJournal /\ op' = Idle /\ Promise(op.txn.files, op.txn.new)
      BY <1>2 DEF Unlink, Unlinked, TookEffect, ReturnOk
    <2>2. promised' \in [File -> 0..MaxTxn]
      BY <1>1, <2>1, PromiseSound DEF IInv
    <2>3. Bounded' /\ QuietSound' /\ JournalSound'
      BY <1>1, <2>1, <2>2, GoneSound, PromiseSound DEF IInv
    <2>. QED
      BY <1>1, <2>1, <2>2, <2>3 DEF OpSound, ProgressSound, IInv, Typed
  <1>3. CASE r # "ok"
    <2>1. OpSound' /\ ProgressSound' /\ op' \in Op \cup {Idle} /\ promised' = promised
      BY <1>1, <1>3, CatchSound DEF Unlink, IInv
    <2>2. promised' \in [File -> 0..MaxTxn]
      BY <2>1 DEF IInv, Typed
    <2>3. CASE journal' = NoJournal
      BY <1>1, <2>1, <2>2, <2>3, GoneSound DEF IInv, Typed
    <2>4. CASE journal' = journal
      BY <1>1, <2>1, <2>4, TxnStays
         DEF IInv, Bounded, QuietSound, JournalSound, Typed
    <2>. QED
      BY <1>1, <2>3, <2>4
  <1>. QED
    BY <1>2, <1>3

LEMMA StepFinalize ==
    ASSUME IInv, NEW r, Finalize(r)
    PROVE  IInv'
  <1>1. /\ op # Idle /\ op.stage = "finalize"
        /\ journal # NoJournal /\ op.txn = journal.txn
        /\ \A f \in op.txn.files : disk[f] = op.txn.new
        /\ UNCHANGED <<disk, issued>>
    BY DEF Finalize, Running, IInv, OpSound, Orphaned, ProgressSound
  <1>2. /\ op' = Idle
        /\ \/ promised' = promised
           \/ TookEffect(r) /\ Promise(op.txn.files, op.txn.new)
    BY DEF Finalize, ReturnOk, ReturnError, TookEffect
  <1>3. promised' \in [File -> 0..MaxTxn]
    BY <1>1, <1>2, PromiseSound DEF IInv, Typed
  <1>4. OpSound' /\ ProgressSound'
    BY <1>2 DEF OpSound, ProgressSound
  <1>5. CASE TookEffect(r)
    <2>1. journal' = NoJournal
      BY <1>5 DEF Finalize, Unlinked
    <2>2. Bounded' /\ QuietSound' /\ JournalSound'
      BY <1>1, <1>2, <1>3, <2>1, GoneSound, PromiseSound DEF IInv
    <2>3. Typed'
      BY <1>1, <1>2, <1>3, <2>1 DEF IInv, Typed
    <2>. QED
      BY <1>4, <2>2, <2>3 DEF IInv
  <1>6. CASE ~TookEffect(r)
    <2>1. journal' = journal /\ promised' = promised
      BY <1>2, <1>6 DEF Finalize, Unlinked
    <2>2. Bounded' /\ QuietSound' /\ JournalSound' /\ Typed'
      BY <1>1, <1>2, <2>1, TxnStays DEF IInv, Bounded, QuietSound, JournalSound, Typed
    <2>. QED
      BY <1>4, <2>2 DEF IInv
  <1>. QED
    BY <1>5, <1>6

LEMMA StepUndoUnlink ==
    ASSUME IInv, NEW r, UndoUnlink(r)
    PROVE  IInv'
  <1>1. /\ op # Idle /\ op.stage = "undo" /\ op.todo = {}
        /\ \A f \in op.txn.files : disk[f] = op.txn.old[f]
        /\ UNCHANGED <<disk, issued, promised>> /\ op' = Idle
    BY DEF UndoUnlink, Running, IInv, ProgressSound
  <1>2. promised' \in [File -> 0..MaxTxn]
    BY <1>1, OpFields DEF IInv, Typed
  <1>3. OpSound' /\ ProgressSound'
    BY <1>1 DEF OpSound, ProgressSound
  <1>4. CASE TookEffect(r)
    <2>1. journal' = NoJournal
      BY <1>4 DEF UndoUnlink, Unlinked
    <2>2. Bounded' /\ QuietSound' /\ JournalSound'
      <3>1. CASE journal # NoJournal
        BY <1>1, <1>2, <2>1, <3>1, GoneSound
      <3>2. CASE journal = NoJournal
        BY <1>1, <2>1, <3>2 DEF IInv, Bounded, QuietSound, JournalSound
      <3>. QED
        BY <3>1, <3>2
    <2>3. Typed'
      BY <1>1, <1>2, <2>1 DEF IInv, Typed
    <2>. QED
      BY <1>3, <2>2, <2>3 DEF IInv
  <1>5. CASE ~TookEffect(r)
    <2>1. journal' = journal
      BY <1>5 DEF UndoUnlink, Unlinked
    <2>2. Bounded' /\ QuietSound' /\ JournalSound' /\ Typed'
      BY <1>1, <1>2, <2>1, TxnStays DEF IInv, Bounded, QuietSound, JournalSound, Typed
    <2>. QED
      BY <1>3, <2>2 DEF IInv
  <1>. QED
    BY <1>4, <1>5

LEMMA StepRecoverUnlink ==
    ASSUME IInv, NEW r, RecoverUnlink(r)
    PROVE  IInv'
  <1>1. /\ op # Idle /\ op.stage = "recover" /\ op.todo = {}
        /\ journal # NoJournal /\ op.txn = journal.txn
        /\ \A f \in op.txn.files : disk[f] = Recovered(f)
        /\ UNCHANGED <<disk, issued, promised>> /\ op' = Idle
    BY DEF RecoverUnlink, Running, IInv, ProgressSound, OpSound, Orphaned
  <1>2. promised' \in [File -> 0..MaxTxn]
    BY <1>1 DEF IInv, Typed
  <1>3. OpSound' /\ ProgressSound'
    BY <1>1 DEF OpSound, ProgressSound
  <1>4. CASE TookEffect(r)
    <2>1. journal' = NoJournal
      BY <1>4 DEF RecoverUnlink, Unlinked
    <2>2. \/ \A f \in op.txn.files : disk[f] = op.txn.new
          \/ \A f \in op.txn.files : disk[f] = op.txn.old[f]
      BY <1>1 DEF Recovered
    <2>3. Bounded' /\ QuietSound' /\ JournalSound'
      BY <1>1, <1>2, <2>1, <2>2, GoneSound
    <2>4. Typed'
      BY <1>1, <1>2, <2>1 DEF IInv, Typed
    <2>. QED
      BY <1>3, <2>3, <2>4 DEF IInv
  <1>5. CASE ~TookEffect(r)
    <2>1. journal' = journal
      BY <1>5 DEF RecoverUnlink, Unlinked
    <2>2. Bounded' /\ QuietSound' /\ JournalSound' /\ Typed'
      BY <1>1, <2>1, TxnStays DEF IInv, Bounded, QuietSound, JournalSound, Typed
    <2>. QED
      BY <1>3, <2>2 DEF IInv
  <1>. QED
    BY <1>4, <1>5

LEMMA StepVerify ==
    ASSUME IInv, NEW confirmed \in BOOLEAN, Verify(confirmed)
    PROVE  IInv'
  <1>1. /\ op # Idle /\ op.stage = "verify"
        /\ UNCHANGED <<disk, journal, issued, promised>>
    BY DEF Verify, Running, ReturnError
  <1>2. \/ op' = Idle
        \/ /\ op' \in Op /\ op' # Idle /\ op'.kind = op.kind /\ op'.stage = "finalize"
           /\ op'.todo = {} /\ op'.txn = op.txn
    BY <1>1, OpFields, AtType DEF Verify, Moving, ReturnError, Stage, IInv
  <1>3. OpSound' /\ ProgressSound'
    BY <1>1, <1>2, TxnStays DEF IInv, OpSound, Orphaned, ProgressSound
  <1>4. Bounded' /\ QuietSound' /\ JournalSound' /\ Typed'
    BY <1>1, <1>2, TxnStays DEF IInv, Bounded, QuietSound, JournalSound, Typed
  <1>. QED
    BY <1>3, <1>4 DEF IInv

------------------------------------------------------------------------------
(* Entering and leaving the barrier *)

LEMMA StepEnterRecovery ==
    ASSUME IInv, EnterRecovery
    PROVE  IInv'
  <1>1. /\ journal # NoJournal
        /\ UNCHANGED <<disk, journal, issued, promised>>
    BY DEF EnterRecovery
  <1>2. /\ op' \in Op /\ op' # Idle /\ op'.kind = "recovery" /\ op'.stage = "recover"
        /\ op'.todo = journal.txn.files /\ op'.txn = journal.txn
    <2>1. op' = At("recovery", "recover", journal.txn.files, journal.txn)
      BY DEF EnterRecovery
    <2>2. journal.txn \in Txn
      BY <1>1, JournalFields DEF IInv
    <2>3. "recover" \in Stage /\ journal.txn.files \in SUBSET File
      BY <1>1, JournalFields DEF Stage, IInv
    <2>. QED
      BY <2>1, <2>2, <2>3, AtType
  <1>3. OpSound' /\ ProgressSound'
    BY <1>1, <1>2, TxnStays DEF IInv, JournalSound, OpSound, ProgressSound
  <1>4. Bounded' /\ QuietSound' /\ JournalSound' /\ Typed'
    BY <1>1, <1>2, TxnStays DEF IInv, Bounded, QuietSound, JournalSound, Typed
  <1>. QED
    BY <1>3, <1>4 DEF IInv

LEMMA StepCrash ==
    ASSUME IInv, Crash
    PROVE  IInv'
  BY TxnStays
     DEF Crash, IInv, Typed, Bounded, OpSound, QuietSound, JournalSound, ProgressSound

LEMMA StepWriteTask ==
    ASSUME IInv, NEW f \in 1..NumTasks, WriteTask(f)
    PROVE  IInv'
  <1>1. f \in File /\ f # Config /\ f # Manifest /\ Config \in File /\ Manifest \in File
    BY Files, BoundsAssumption DEF File, Config, Manifest
  <1>2. /\ op = Idle /\ journal = NoJournal /\ op' = Idle /\ journal' = NoJournal
        /\ issued' = issued + 1 /\ issued' \in 0..MaxTxn
    BY BoundsAssumption DEF WriteTask, IInv, Typed
  <1>3. /\ disk' \in [File -> 0..MaxTxn] /\ disk'[f] = issued + 1
        /\ \A g \in File \ {f} : disk'[g] = disk[g]
    BY <1>1, <1>2 DEF WriteTask, IInv, Typed
  <1>4. /\ promised' \in [File -> 0..MaxTxn] /\ promised'[f] = issued + 1
        /\ \A g \in File \ {f} : promised'[g] = promised[g]
    BY <1>1, <1>2 DEF WriteTask, Promise, IInv, Typed
  <1>5. Bounded'
    <2>1. \A g \in File : disk[g] \in 0..MaxTxn /\ promised[g] \in 0..MaxTxn
      BY DEF IInv, Typed
    <2>. QED
      BY <1>2, <1>3, <1>4, <2>1, BoundsAssumption DEF IInv, Bounded, Typed
  <1>6. QuietSound'
    BY <1>1, <1>2, <1>3, <1>4, Files DEF IInv, QuietSound, Typed
  <1>7. Typed' /\ OpSound' /\ JournalSound' /\ ProgressSound'
    BY <1>2, <1>3, <1>4 DEF IInv, Typed, OpSound, JournalSound, ProgressSound
  <1>. QED
    BY <1>5, <1>6, <1>7 DEF IInv

LEMMA StepInv ==
    ASSUME IInv, [Next]_vars
    PROVE  IInv'
  <1>1. CASE UNCHANGED vars
    BY <1>1 DEF vars, IInv, Typed, Bounded, OpSound, Orphaned, TxnSound, QuietSound,
       JournalSound, ProgressSound, Recovered
  <1>2. ASSUME NEW r \in Outcomes, OpNext(r)
        PROVE  IInv'
    BY <1>2, StepApply, StepUndo, StepRecover, StepSeal, StepUnlink, StepFinalize,
       StepUndoUnlink, StepRecoverUnlink DEF OpNext
  <1>. QED
    BY <1>1, <1>2, StepBegin, StepVerify, StepEnterRecovery, StepWriteTask, StepCrash
       DEF Next

\* The inductive invariant holds of every behaviour, for every number of task
\* files and transactions, whichever writes fail and in whatever way.
THEOREM Invariance == Spec => []IInv
  <1>1. Init => IInv
    BY InitInv
  <1>2. IInv /\ [Next]_vars => IInv'
    BY StepInv
  <1>. QED
    BY <1>1, <1>2, PTL DEF Spec

\* The history is changed by the steps that end an operation only.
LEMMA HistoryStep ==
    ASSUME [Next]_vars
    PROVE  \/ stranded' = stranded
           \/ stranded' = FALSE
           \/ Stopped
  <1>1. ASSUME NEW r, OpNext(r)
        PROVE  \/ stranded' = stranded
               \/ stranded' = FALSE
               \/ Stopped
    BY <1>1 DEF OpNext, Apply, Undo, Recover, Seal, Unlink, Finalize, UndoUnlink,
       RecoverUnlink, Catch, ReturnOk, ReturnError
  <1>2. CASE UNCHANGED vars
    BY <1>2 DEF vars
  <1>. QED
    BY <1>1, <1>2 DEF Next, Begin, Verify, EnterRecovery, WriteTask, Crash, ReturnError

\* Every variable keeps its type.
THEOREM TypeCorrect == Spec => []TypeOK
  <1>1. Init => stranded \in BOOLEAN
    BY DEF Init
  <1>2. stranded \in BOOLEAN /\ [Next]_vars => (stranded \in BOOLEAN)'
    <2>. SUFFICES ASSUME stranded \in BOOLEAN, [Next]_vars
                  PROVE  stranded' \in BOOLEAN
      OBVIOUS
    <2>1. CASE stranded' = stranded \/ stranded' = FALSE
      BY <2>1
    <2>2. CASE Stopped
      BY <2>2, Zenon DEF Stopped
    <2>. QED
      BY <2>1, <2>2, HistoryStep
  <1>3. IInv /\ stranded \in BOOLEAN => TypeOK
    BY DEF IInv, Typed, TypeOK
  <1>. QED
    BY <1>1, <1>2, <1>3, Invariance, PTL DEF Spec

------------------------------------------------------------------------------
(* Configuration and manifest *)

\* What is on disk, and what a rollback restores, is of one transaction.
Whole ==
    /\ op = Idle /\ journal = NoJournal => disk[Config] = disk[Manifest]
    /\ op # Idle => op.txn.old[Config] = op.txn.old[Manifest]
    /\ journal # NoJournal => journal.txn.old[Config] = journal.txn.old[Manifest]

\* A process that dies in an orphaned rollback leaves files of two transactions.
WholeUnless == ~stranded => Whole

\* The files of a removed journal are of one transaction.
LEMMA RemovedWhole ==
    ASSUME IInv, Whole, op # Idle, NEW r, Unlinked(r), disk' = disk, op' = Idle,
           op.stage \in {"unlink", "finalize", "undo", "recover"},
           op.stage \in {"undo", "recover"} => op.todo = {}
    PROVE  Whole'
  <1>1. /\ {Config, Manifest} \subseteq op.txn.files
        /\ journal # NoJournal => op.txn = journal.txn
    BY DEF IInv, OpSound, Orphaned, TxnSound
  <1>2. CASE journal' # NoJournal
    BY <1>1, <1>2 DEF Unlinked, Whole
  <1>3. CASE journal' = NoJournal
    <2>1. \/ \A f \in op.txn.files : disk[f] = op.txn.new
          \/ \A f \in op.txn.files : disk[f] = op.txn.old[f]
      BY <1>1 DEF IInv, ProgressSound, OpSound, Orphaned, Recovered
    <2>. QED
      BY <1>1, <1>3, <2>1 DEF Whole
  <1>. QED
    BY <1>2, <1>3

\* A caller that is told of its transaction leaves files of that one.
LEMMA ReturnedWhole ==
    ASSUME IInv, op # Idle, ReturnOk, NEW r, r = "ok", Unlinked(r), disk' = disk,
           op.stage \in {"unlink", "finalize"}
    PROVE  Whole'
  <1>1. /\ {Config, Manifest} \subseteq op.txn.files
        /\ \A f \in op.txn.files : disk[f] = op.txn.new
    BY DEF IInv, OpSound, TxnSound, ProgressSound
  <1>. QED
    BY <1>1 DEF Whole, ReturnOk, Unlinked, TookEffect

\* Nobody has to restore anything more, or the interruption is remembered.
LEMMA StoppedWhole ==
    ASSUME IInv, Whole, op # Idle, Stopped, ~stranded', op' = Idle,
           journal' = journal, journal = NoJournal => disk' = disk
    PROVE  Whole'
  <1>1. CASE journal = NoJournal
    <2>1. Orphaned /\ op.todo = {}
      BY <1>1 DEF IInv, OpSound, Stopped
    <2>2. /\ {Config, Manifest} \subseteq op.txn.files
          /\ \A f \in op.txn.files : disk[f] = op.txn.old[f]
      BY <2>1 DEF Orphaned, IInv, OpSound, TxnSound, ProgressSound
    <2>. QED
      BY <1>1, <2>2 DEF Whole
  <1>2. CASE journal # NoJournal
    BY <1>2 DEF Whole
  <1>. QED
    BY <1>1, <1>2

LEMMA CatchWhole ==
    ASSUME IInv, Whole, op # Idle, Catch, disk' = disk \/ journal' # NoJournal,
           journal' = journal \/ journal' = NoJournal \/ journal'.txn = op.txn,
           journal' = NoJournal =>
               \/ op.kind = "backward"
               \/ \A f \in op.txn.files : disk[f] = op.txn.new
    PROVE  Whole'
  <1>1. CASE op' # Idle
    <2>1. op'.txn = op.txn
      BY <1>1 DEF Catch, Moving, At, ReturnError
    <2>. QED
      BY <1>1, <2>1 DEF Whole
  <1>2. CASE op' = Idle
    <2>1. op.kind # "backward" /\ journal' = NoJournal
      <3>1. op.txn \in Txn /\ op.kind \in Variant \cup {"recovery"}
            /\ op.txn.files \in SUBSET File
        BY OpFields DEF IInv
      <3>2. ~Moving("undo", op.txn.files) /\ ~Moving("recover", op.txn.files)
        BY <1>2, <3>1, AtType DEF Moving, Stage
      <3>. QED
        BY <3>2 DEF Catch
    <2>2. {Config, Manifest} \subseteq op.txn.files
      BY DEF IInv, OpSound, TxnSound
    <2>. QED
      BY <1>2, <2>1, <2>2 DEF Whole
  <1>. QED
    BY <1>1, <1>2

LEMMA StepWhole ==
    ASSUME IInv, WholeUnless, [Next]_vars, ~stranded'
    PROVE  Whole'
  <1>1. ASSUME NEW kind \in Kinds, NEW S \in FilesOf(kind), NEW r, Begin(kind, S, r)
        PROVE  Whole'
    <2>1. /\ op = Idle /\ journal = NoJournal /\ disk' = disk
          /\ disk[Config] = disk[Manifest]
      BY <1>1 DEF Begin, WholeUnless, Whole
    <2>2. TxnOf(S).old = disk
      BY DEF TxnOf
    <2>3. op' # Idle => op'.txn = TxnOf(S)
      BY <1>1 DEF Begin, At
    <2>4. journal' # NoJournal => journal'.txn = TxnOf(S)
      BY <1>1, <2>1 DEF Begin
    <2>. QED
      BY <2>1, <2>2, <2>3, <2>4 DEF Whole
  <1>2. ASSUME NEW f, NEW r, Apply(f, r)
        PROVE  Whole'
    <2>1. /\ op # Idle /\ journal' = journal /\ journal # NoJournal
      BY <1>2 DEF Apply, Running, IInv, OpSound, Orphaned, ProgressSound
    <2>2. Whole
      BY <1>2, <2>1 DEF Apply, Catch, ReturnError, WholeUnless
    <2>3. CASE r = "ok"
      BY <1>2, <2>1, <2>2, <2>3 DEF Apply, Moving, At, Whole
    <2>4. CASE r # "ok"
      BY <1>2, <2>1, <2>2, <2>4, CatchWhole DEF Apply
    <2>. QED
      BY <2>3, <2>4
  <1>3. ASSUME NEW f, NEW r, Undo(f, r)
        PROVE  Whole'
    <2>1. op # Idle /\ journal' = journal /\ op.todo # {}
      BY <1>3 DEF Undo, Running, First
    <2>2. CASE r = "ok"
      <3>1. Whole /\ op' = At(op.kind, "undo", op.todo \ {f}, op.txn)
        BY <1>3, <2>2 DEF Undo, Moving, WholeUnless
      <3>2. op' # Idle /\ op'.txn = op.txn
        <4>1. op.todo \ {f} \in SUBSET File /\ "undo" \in Stage
          BY <2>1, OpFields DEF IInv, Stage
        <4>. QED
          BY <2>1, <3>1, <4>1, OpFields, AtType DEF IInv
      <3>. QED
        BY <2>1, <3>1, <3>2 DEF Whole
    <2>3. CASE r # "ok"
      <3>1. Whole /\ Stopped /\ op' = Idle
        BY <1>3, <2>3 DEF Undo, Stopped, WholeUnless
      <3>2. journal # NoJournal
        BY <2>1, <3>1 DEF Stopped, IInv, OpSound
      <3>. QED
        BY <2>1, <3>1, <3>2 DEF Whole
    <2>. QED
      BY <2>2, <2>3
  <1>4. ASSUME NEW f, NEW r, Recover(f, r)
        PROVE  Whole'
    <2>1. /\ op # Idle /\ journal' = journal /\ journal # NoJournal /\ Whole
      BY <1>4 DEF Recover, Running, IInv, OpSound, Orphaned, ProgressSound, WholeUnless
    <2>. QED
      BY <1>4, <2>1 DEF Recover, At, Whole
  <1>5. ASSUME NEW r, Seal(r)
        PROVE  Whole'
    <2>1. op # Idle /\ journal # NoJournal /\ op.txn = journal.txn
      BY <1>5 DEF Seal, Running, IInv, OpSound, Orphaned, ProgressSound
    <2>2. journal' # NoJournal /\ journal'.txn = op.txn /\ disk' = disk
      BY <1>5, <2>1, JournalType, JournalFields, OpFields DEF Seal, Sealed, IInv
    <2>3. Whole
      BY <1>5 DEF Seal, Catch, ReturnError, WholeUnless
    <2>4. CASE r = "ok"
      BY <1>5, <2>1, <2>2, <2>3, <2>4 DEF Seal, Moving, At, Whole
    <2>5. CASE r # "ok"
      BY <1>5, <2>1, <2>2, <2>3, <2>5, CatchWhole DEF Seal
    <2>. QED
      BY <2>4, <2>5
  <1>6. ASSUME NEW r, Unlink(r)
        PROVE  Whole'
    <2>1. op # Idle /\ op.stage = "unlink" /\ disk' = disk /\ Unlinked(r)
      BY <1>6 DEF Unlink, Running
    <2>2. CASE r = "ok"
      BY <1>6, <2>1, <2>2, ReturnedWhole DEF Unlink
    <2>3. CASE r # "ok"
      <3>1. Whole /\ Catch
        BY <1>6, <2>3 DEF Unlink, Catch, ReturnError, WholeUnless
      <3>2. \A f \in op.txn.files : disk[f] = op.txn.new
        BY <2>1 DEF IInv, ProgressSound
      <3>. QED
        BY <2>1, <3>1, <3>2, CatchWhole DEF Unlinked
    <2>. QED
      BY <2>2, <2>3
  <1>7. ASSUME NEW r, Finalize(r)
        PROVE  Whole'
    <2>1. op # Idle /\ op.stage = "finalize" /\ disk' = disk /\ Unlinked(r) /\ op' = Idle
      BY <1>7 DEF Finalize, Running, ReturnOk, ReturnError
    <2>2. CASE r = "ok"
      BY <1>7, <2>1, <2>2, ReturnedWhole DEF Finalize
    <2>3. CASE r # "ok"
      BY <1>7, <2>1, <2>3, RemovedWhole DEF Finalize, ReturnError, WholeUnless
    <2>. QED
      BY <2>2, <2>3
  <1>8. ASSUME NEW r, UndoUnlink(r) \/ RecoverUnlink(r)
        PROVE  Whole'
    BY <1>8, RemovedWhole DEF UndoUnlink, RecoverUnlink, Running, WholeUnless
  <1>9. ASSUME NEW confirmed \in BOOLEAN, Verify(confirmed)
        PROVE  Whole'
    <2>1. op # Idle /\ journal' = journal /\ journal # NoJournal /\ Whole
      BY <1>9 DEF Verify, Running, IInv, OpSound, Orphaned, ProgressSound, ReturnError,
         WholeUnless
    <2>. QED
      BY <1>9, <2>1 DEF Verify, Moving, At, ReturnError, Whole
  <1>10. CASE EnterRecovery
    BY <1>10 DEF EnterRecovery, At, WholeUnless, Whole
  <1>11. ASSUME NEW f \in 1..NumTasks, WriteTask(f)
        PROVE  Whole'
    <2>1. /\ f # Config /\ f # Manifest /\ Config \in File /\ Manifest \in File
          /\ disk \in [File -> 0..MaxTxn]
      BY Files, BoundsAssumption DEF File, Config, Manifest, IInv, Typed
    <2>. QED
      BY <1>11, <2>1 DEF WriteTask, WholeUnless, Whole
  <1>12. CASE Crash
    <2>1. Whole /\ Stopped
      BY <1>12 DEF Crash, Stopped, WholeUnless
    <2>. QED
      BY <1>12, <2>1, StoppedWhole DEF Crash
  <1>13. CASE UNCHANGED vars
    BY <1>13 DEF vars, WholeUnless, Whole
  <1>14. ASSUME NEW r, OpNext(r)
         PROVE  Whole'
    BY <1>2, <1>3, <1>4, <1>5, <1>6, <1>7, <1>8, <1>14 DEF OpNext
  <1>. QED
    BY <1>1, <1>9, <1>10, <1>11, <1>12, <1>13, <1>14 DEF Next

\* Configuration and manifest of a team at rest come from one transaction, unless
\* a rollback that had lost its journal stopped half way.
THEOREM Untorn == Spec => []NeverTorn
  <1>1. Init => WholeUnless
    BY Files DEF Init, WholeUnless, Whole
  <1>2. IInv /\ WholeUnless /\ [Next]_vars => WholeUnless'
    BY StepWhole DEF WholeUnless
  <1>3. WholeUnless => NeverTorn
    BY DEF WholeUnless, Whole, NeverTorn
  <1>. QED
    BY <1>1, <1>2, <1>3, Invariance, PTL DEF Spec

------------------------------------------------------------------------------
(* What readers see *)

\* Under a journal readers see its old values, or its new ones on its files.
VisibleFacts ==
    /\ journal = NoJournal => Visible = disk
    /\ journal # NoJournal /\ journal.phase = "prepared" => Visible = journal.txn.old
    /\ journal # NoJournal /\ journal.phase = "committed" =>
          Visible = Atomic!Overlay(journal.txn.old, journal.txn.files, journal.txn.new)
    /\ Visible \in [File -> 0..MaxTxn]

LEMMA VisibleIs == IInv => VisibleFacts
  <1>. SUFFICES ASSUME IInv PROVE VisibleFacts
    OBVIOUS
  <1>. USE DEF VisibleFacts
  <1>1. CASE journal = NoJournal
    BY <1>1 DEF Visible, IInv, Typed
  <1>2. CASE journal # NoJournal
    <2>1. /\ journal.phase \in {"prepared", "committed"}
          /\ journal.txn.old \in [File -> 0..MaxTxn] /\ journal.txn.new \in 0..MaxTxn
          /\ \A f \in File \ journal.txn.files : disk[f] = journal.txn.old[f]
      BY <1>2, JournalFields DEF IInv, JournalSound
    <2>2. /\ journal.phase = "prepared" =>
               Visible = [f \in File |-> journal.txn.old[f]]
          /\ journal.phase = "committed" =>
               Visible = Atomic!Overlay(journal.txn.old, journal.txn.files, journal.txn.new)
      BY <1>2, <2>1 DEF Visible, Recovered, Atomic!Overlay
    <2>3. Visible \in [File -> 0..MaxTxn]
      BY <2>1, <2>2 DEF Atomic!Overlay
    <2>. QED
      BY <1>2, <2>1, <2>2, <2>3
  <1>. QED
    BY <1>1, <1>2

\* Nothing a caller was told to be written is lost, whatever the disk does.
THEOREM NothingLost == Spec => []CommittedStays
  <1>1. IInv => CommittedStays
    <2>. SUFFICES ASSUME IInv, NEW f \in File
                  PROVE  Visible[f] >= promised[f]
      BY DEF CommittedStays
    <2>1. promised[f] \in 0..MaxTxn /\ disk[f] \in 0..MaxTxn
      BY DEF IInv, Typed
    <2>2. CASE journal = NoJournal
      BY <2>1, <2>2, VisibleIs DEF IInv, QuietSound, VisibleFacts
    <2>3. CASE journal # NoJournal
      <3>1. /\ promised[f] <= journal.txn.old[f]
            /\ journal.txn.old[f] <= journal.txn.new
            /\ journal.txn.old[f] \in 0..MaxTxn /\ journal.txn.new \in 0..MaxTxn
            /\ journal.phase \in {"prepared", "committed"}
        BY <2>3, JournalFields DEF IInv, JournalSound, TxnSound
      <3>2. Visible[f] \in {journal.txn.old[f], journal.txn.new}
        BY <2>3, <3>1, VisibleIs DEF Atomic!Overlay, VisibleFacts
      <3>. QED
        BY <2>1, <3>1, <3>2
    <2>. QED
      BY <2>2, <2>3
  <1>. QED
    BY <1>1, Invariance, PTL

------------------------------------------------------------------------------
(* How a step changes what readers see *)

\* The five ways the view of the next reader may change in a step.
Unseen     == Visible' = Visible
Installed  == /\ op = Idle
              /\ \E S \in SUBSET File, v \in 1..MaxTxn :
                    /\ Visible' = Atomic!Overlay(Visible, S, v)
                    /\ \A f \in File : Visible[f] <= v
Completed  == /\ op # Idle /\ op.kind # "recovery" /\ Visible = op.txn.old
              /\ Visible' = Atomic!Overlay(Visible, op.txn.files, op.txn.new)
              /\ \A f \in File : Visible[f] <= op.txn.new
TakenBack  == op # Idle /\ op.kind = "backward" /\ Visible' = op.txn.old
Piecewise  == /\ op # Idle /\ Orphaned
              /\ \E f \in File : Visible' = [Visible EXCEPT ![f] = op.txn.old[f]]

ViewStep == Unseen \/ Installed \/ Completed \/ TakenBack \/ Piecewise

\* A file of the transaction is not read while the journal is there.
LEMMA HiddenWrite ==
    ASSUME IInv, op # Idle, journal # NoJournal, journal' = journal,
           NEW f \in op.txn.files,
           \A g \in File \ {f} : disk'[g] = disk[g]
    PROVE  Unseen
  <1>1. f \in journal.txn.files
    BY DEF IInv, OpSound, Orphaned
  <1>2. \A g \in File \ journal.txn.files : disk'[g] = disk[g]
    BY <1>1
  <1>. QED
    BY <1>1, <1>2 DEF Unseen, Visible, Recovered

\* Removing the journal shows the files as they are.
LEMMA RemovedJournal ==
    ASSUME IInv, op # Idle, journal # NoJournal, journal' = NoJournal, disk' = disk
    PROVE  /\ (\A f \in op.txn.files : disk[f] = Recovered(f)) => Unseen
           /\ (\A f \in op.txn.files : disk[f] = op.txn.old[f]) => Visible' = op.txn.old
  <1>1. /\ op.txn = journal.txn /\ op.txn.files \in SUBSET File
        /\ op.txn.old \in [File -> 0..MaxTxn] /\ disk \in [File -> 0..MaxTxn]
        /\ \A f \in File \ op.txn.files : disk[f] = op.txn.old[f]
    BY OpFields DEF IInv, OpSound, Orphaned, JournalSound, Typed
  <1>2. Visible' = disk
    BY DEF Visible
  <1>3. ASSUME \A f \in op.txn.files : disk[f] = Recovered(f)
        PROVE  Unseen
    <2>1. Visible = [f \in File |-> disk[f]]
      BY <1>1, <1>3 DEF Visible
    <2>. QED
      BY <1>1, <1>2, <2>1 DEF Unseen
  <1>4. ASSUME \A f \in op.txn.files : disk[f] = op.txn.old[f]
        PROVE  disk = op.txn.old
    BY <1>1, <1>4
  <1>. QED
    BY <1>2, <1>3, <1>4

LEMMA ViewBegin ==
    ASSUME IInv, IInv', NEW kind \in Kinds, NEW S \in FilesOf(kind), NEW r, Begin(kind, S, r)
    PROVE  /\ ViewStep
           /\ op' # Idle => op'.kind # "recovery" /\ op'.txn.old = Visible
  <1>1. /\ op = Idle /\ journal = NoJournal /\ disk' = disk
        /\ disk \in [File -> 0..MaxTxn] /\ S \in SUBSET File
        /\ issued + 1 \in 1..MaxTxn
        /\ issued \in Nat /\ \A f \in File : disk[f] \in Nat /\ disk[f] <= issued
    BY Files, BoundsAssumption DEF Begin, FilesOf, IInv, Typed, Bounded
  <1>2. Visible = disk /\ VisibleFacts'
    <2>1. VisibleFacts'
      BY VisibleIs, PTL
    <2>. QED
      BY <1>1, <2>1 DEF Visible
  <1>3. op' # Idle => op'.kind # "recovery" /\ op'.txn.old = Visible
    <2>1. kind # "recovery"
      BY KindsAssumption DEF Variant
    <2>. QED
      BY <1>1, <1>2, <2>1 DEF Begin, At, TxnOf
  <1>4. CASE ~TookEffect(r)
    BY <1>1, <1>3, <1>4 DEF Begin, ViewStep, Unseen, Visible
  <1>5. CASE TookEffect(r)
    <2>1. journal' = [phase |-> FirstPhase(kind), txn |-> TxnOf(S)]
      BY <1>5 DEF Begin
    <2>2. /\ journal'.phase = FirstPhase(kind) /\ journal'.txn.old = disk
          /\ journal'.txn.files = S /\ journal'.txn.new = issued + 1
      BY <2>1 DEF TxnOf
    <2>3. journal' # NoJournal
      BY <2>1, SentinelsAssumption, JournalType, <1>1, BoundsAssumption
         DEF FirstPhase, TxnOf, Txn
    <2>4. CASE FirstPhase(kind) = "prepared"
      BY <1>2, <1>3, <2>2, <2>3, <2>4 DEF VisibleFacts, ViewStep, Unseen
    <2>5. CASE FirstPhase(kind) = "committed"
      <3>1. Visible' = Atomic!Overlay(Visible, S, issued + 1)
        BY <1>2, <2>2, <2>3, <2>5 DEF VisibleFacts
      <3>2. \A f \in File : Visible[f] <= issued + 1
        BY <1>1, <1>2
      <3>. QED
        BY <1>1, <1>3, <3>1, <3>2 DEF ViewStep, Installed
    <2>. QED
      BY <2>4, <2>5 DEF FirstPhase
  <1>. QED
    BY <1>3, <1>4, <1>5

LEMMA ViewSeal ==
    ASSUME IInv, IInv', NEW r, Seal(r)
    PROVE  ViewStep
  <1>1. /\ op # Idle /\ op.kind # "recovery" /\ journal # NoJournal /\ op.txn = journal.txn
        /\ disk' = disk
    BY DEF Seal, Running, IInv, ProgressSound, OpSound, Orphaned
  <1>2. CASE ~TookEffect(r)
    BY <1>1, <1>2 DEF Seal, Sealed, ViewStep, Unseen, Visible, Recovered
  <1>3. CASE TookEffect(r)
    <2>1. /\ journal' = [phase |-> "committed", txn |-> op.txn]
          /\ journal'.phase = "committed" /\ journal'.txn = op.txn
      BY <1>3 DEF Seal, Sealed
    <2>2. journal' # NoJournal
      BY <1>1, <2>1, JournalFields, JournalType DEF IInv
    <2>3. VisibleFacts /\ VisibleFacts'
      BY VisibleIs, PTL
    <2>4. Visible' = Atomic!Overlay(op.txn.old, op.txn.files, op.txn.new)
      BY <2>1, <2>2, <2>3 DEF VisibleFacts
    <2>5. /\ journal.phase \in {"prepared", "committed"}
          /\ \A f \in File : op.txn.old[f] <= op.txn.new
      BY <1>1, JournalFields DEF IInv, JournalSound, TxnSound
    <2>6. CASE journal.phase = "prepared"
      BY <1>1, <2>3, <2>4, <2>5, <2>6 DEF VisibleFacts, ViewStep, Completed
    <2>7. CASE journal.phase = "committed"
      BY <1>1, <2>3, <2>4, <2>7 DEF VisibleFacts, ViewStep, Unseen
    <2>. QED
      BY <2>5, <2>6, <2>7
  <1>. QED
    BY <1>2, <1>3

LEMMA ViewUnlinkLike ==
    ASSUME IInv, IInv', NEW r, Unlinked(r), disk' = disk, op # Idle,
           op.stage \in {"unlink", "finalize", "undo", "recover"},
           op.stage \in {"undo", "recover"} => op.todo = {}
    PROVE  ViewStep
  <1>1. CASE ~TookEffect(r)
    BY <1>1 DEF Unlinked, ViewStep, Unseen, Visible, Recovered
  <1>2. CASE TookEffect(r)
    <2>1. journal' = NoJournal
      BY <1>2 DEF Unlinked
    <2>2. CASE op.stage = "undo"
      <3>1. CASE journal # NoJournal
        BY <2>1, <2>2, <3>1, RemovedJournal DEF IInv, ProgressSound, ViewStep, TakenBack
      <3>2. CASE journal = NoJournal
        BY <2>1, <3>2 DEF ViewStep, Unseen, Visible
      <3>. QED
        BY <3>1, <3>2
    <2>3. CASE op.stage # "undo"
      <3>1. journal # NoJournal /\ \A f \in op.txn.files : disk[f] = Recovered(f)
        BY <2>3 DEF IInv, ProgressSound, OpSound, Orphaned, Recovered
      <3>. QED
        BY <2>1, <3>1, RemovedJournal DEF ViewStep
    <2>. QED
      BY <2>2, <2>3
  <1>. QED
    BY <1>1, <1>2

LEMMA ViewWriteTask ==
    ASSUME IInv, IInv', NEW f \in 1..NumTasks, WriteTask(f)
    PROVE  ViewStep
  <1>1. /\ op = Idle /\ journal = NoJournal /\ journal' = NoJournal
        /\ disk \in [File -> 0..MaxTxn] /\ f \in File
        /\ disk' = [disk EXCEPT ![f] = issued + 1]
        /\ issued + 1 \in 1..MaxTxn /\ issued \in Nat
        /\ \A g \in File : disk[g] \in Nat /\ disk[g] <= issued
    <2>1. /\ op = Idle /\ journal = NoJournal /\ journal' = NoJournal
          /\ disk' = [disk EXCEPT ![f] = issued + 1] /\ issued < MaxTxn
      BY DEF WriteTask
    <2>2. /\ disk \in [File -> 0..MaxTxn] /\ issued \in 0..MaxTxn
          /\ \A g \in File : disk[g] <= issued
      BY DEF IInv, Typed, Bounded
    <2>3. f \in File
      BY BoundsAssumption DEF File
    <2>. QED
      BY <2>1, <2>2, <2>3, BoundsAssumption
  <1>2. Visible = disk /\ Visible' = disk'
    BY <1>1 DEF Visible
  <1>3. PICK S \in SUBSET File : S = {f}
    BY <1>1
  <1>4. Visible' = Atomic!Overlay(Visible, S, issued + 1)
    BY <1>1, <1>2, <1>3 DEF Atomic!Overlay
  <1>5. \A g \in File : Visible[g] <= issued + 1
    BY <1>1, <1>2
  <1>. QED
    BY <1>1, <1>4, <1>5 DEF ViewStep, Installed

\* The process that enters, stays in and leaves the barrier, and what it
\* remembers of the files as they were when it entered.
OpStep ==
    \/ op' = Idle
    \/ op = Idle /\ (op'.kind = "recovery" \/ op'.txn.old = Visible)
    \/ op # Idle /\ op'.kind = op.kind /\ op'.txn = op.txn

LEMMA CatchOp ==
    ASSUME op # Idle, Catch
    PROVE  OpStep
  BY DEF Catch, Moving, At, ReturnError, OpStep

LEMMA ViewApply ==
    ASSUME IInv, NEW f, NEW r, Apply(f, r)
    PROVE  Unseen /\ op # Idle /\ OpStep
  <1>1. /\ op # Idle /\ f \in op.txn.files /\ journal' = journal
        /\ journal # NoJournal /\ \A g \in File \ {f} : disk'[g] = disk[g]
    BY DEF Apply, Running, First, Wrote, IInv, ProgressSound, OpSound, Orphaned, Typed
  <1>. QED
    BY <1>1, HiddenWrite, CatchOp DEF Apply, OpStep, Moving, At

LEMMA ViewUndo ==
    ASSUME IInv, NEW f, NEW r, Undo(f, r)
    PROVE  (Unseen \/ Piecewise) /\ op # Idle /\ op.kind # "recovery" /\ OpStep
  <1>1. /\ op # Idle /\ f \in op.txn.files /\ journal' = journal
        /\ op.kind = "backward" /\ \A g \in File \ {f} : disk'[g] = disk[g]
    BY DEF Undo, Running, First, Wrote, IInv, ProgressSound, Typed
  <1>2. OpStep
    BY <1>1 DEF Undo, OpStep, Moving, At
  <1>3. CASE journal # NoJournal
    BY <1>1, <1>2, <1>3, HiddenWrite
  <1>4. CASE journal = NoJournal
    <2>1. Orphaned /\ f \in File
      BY <1>1, <1>4, OpFields DEF IInv, OpSound
    <2>2. Visible = disk /\ Visible' = disk'
      BY <1>1, <1>4 DEF Visible
    <2>3. disk' = disk \/ disk' = [disk EXCEPT ![f] = op.txn.old[f]]
      BY DEF Undo, Wrote
    <2>. QED
      BY <1>1, <1>2, <2>1, <2>2, <2>3 DEF Unseen, Piecewise
  <1>. QED
    BY <1>3, <1>4

LEMMA ViewRecover ==
    ASSUME IInv, NEW f, NEW r, Recover(f, r)
    PROVE  Unseen /\ op # Idle /\ OpStep
  <1>1. /\ op # Idle /\ f \in op.txn.files /\ journal' = journal
        /\ journal # NoJournal /\ \A g \in File \ {f} : disk'[g] = disk[g]
    BY DEF Recover, Running, First, Wrote, IInv, ProgressSound, OpSound, Orphaned, Typed
  <1>. QED
    BY <1>1, HiddenWrite DEF Recover, OpStep, At

\* What any step does to the view and to the operation.
StepEffect ==
    /\ ViewStep
    /\ UNCHANGED op \/ OpStep
    /\ op' # Idle /\ op'.kind = "recovery" => Unseen

LEMMA StepView ==
    ASSUME IInv, IInv', [Next]_vars
    PROVE  StepEffect
  <1>1. ASSUME NEW kind \in Kinds, NEW S \in FilesOf(kind), NEW r, Begin(kind, S, r)
        PROVE  StepEffect
    BY <1>1, ViewBegin DEF StepEffect, OpStep, Begin
  <1>2. ASSUME NEW f, NEW r, Apply(f, r) \/ Undo(f, r) \/ Recover(f, r)
        PROVE  StepEffect
    <2>1. CASE Apply(f, r) \/ Recover(f, r)
      BY <2>1, ViewApply, ViewRecover DEF StepEffect, ViewStep
    <2>2. CASE Undo(f, r)
      BY <2>2, ViewUndo DEF StepEffect, ViewStep, OpStep
    <2>. QED
      BY <1>2, <2>1, <2>2
  <1>3. ASSUME NEW r, Seal(r)
        PROVE  StepEffect
    <2>1. op # Idle /\ op.kind # "recovery" /\ OpStep
      BY <1>3, CatchOp DEF Seal, Running, IInv, ProgressSound, OpStep, Moving, At
    <2>. QED
      BY <1>3, <2>1, ViewSeal DEF StepEffect, OpStep
  <1>4. ASSUME NEW r, Unlink(r)
        PROVE  StepEffect
    <2>1. /\ op # Idle /\ op.kind # "recovery" /\ OpStep
          /\ op.stage = "unlink" /\ Unlinked(r) /\ disk' = disk
      BY <1>4, CatchOp DEF Unlink, Running, IInv, ProgressSound, OpStep, ReturnOk
    <2>. QED
      BY <2>1, ViewUnlinkLike DEF StepEffect, OpStep
  <1>5. ASSUME NEW r, Finalize(r) \/ UndoUnlink(r) \/ RecoverUnlink(r)
        PROVE  StepEffect
    <2>1. /\ op # Idle /\ op' = Idle /\ Unlinked(r) /\ disk' = disk
          /\ op.stage \in {"finalize", "undo", "recover"}
          /\ op.stage \in {"undo", "recover"} => op.todo = {}
      BY <1>5 DEF Finalize, UndoUnlink, RecoverUnlink, Running, ReturnOk, ReturnError
    <2>. QED
      BY <2>1, ViewUnlinkLike DEF StepEffect, OpStep
  <1>6. ASSUME NEW confirmed \in BOOLEAN, Verify(confirmed)
        PROVE  StepEffect
    <2>1. /\ op # Idle /\ UNCHANGED <<disk, journal>> /\ OpStep
      BY <1>6 DEF Verify, Running, Moving, At, ReturnError, OpStep
    <2>. QED
      BY <2>1 DEF StepEffect, ViewStep, Unseen, Visible, Recovered
  <1>7. CASE EnterRecovery
    <2>1. op = Idle /\ op'.kind = "recovery" /\ UNCHANGED <<disk, journal>>
      BY <1>7 DEF EnterRecovery, At
    <2>. QED
      BY <2>1 DEF StepEffect, ViewStep, Unseen, Visible, Recovered, OpStep
  <1>8. ASSUME NEW f \in 1..NumTasks, WriteTask(f)
        PROVE  StepEffect
    BY <1>8, ViewWriteTask DEF StepEffect, WriteTask
  <1>9. CASE Crash
    BY <1>9 DEF StepEffect, Crash, ViewStep, Unseen, Visible, Recovered, OpStep
  <1>10. CASE UNCHANGED vars
    BY <1>10 DEF StepEffect, vars, ViewStep, Unseen, Visible, Recovered
  <1>11. ASSUME NEW r, OpNext(r)
         PROVE  StepEffect
    BY <1>2, <1>3, <1>4, <1>5, <1>11 DEF OpNext
  <1>. QED
    BY <1>1, <1>6, <1>7, <1>8, <1>9, <1>10, <1>11 DEF Next

------------------------------------------------------------------------------
\* No reader is taken back to an earlier membership, except by the variant that
\* restores old bytes and only while its own process is inside the barrier.
THEOREM NoStepBack == Spec => NeverStepsBack
  <1>1. IInv /\ IInv' /\ [Next]_vars =>
          [(op # Idle => op.kind # "backward") => Visible'[Config] >= Visible[Config]]_vars
    <2>. SUFFICES ASSUME IInv, IInv', [Next]_vars, op # Idle => op.kind # "backward"
                  PROVE  Visible'[Config] >= Visible[Config]
      OBVIOUS
    <2>1. ViewStep
      BY StepView DEF StepEffect
    <2>2. VisibleFacts /\ VisibleFacts'
      BY VisibleIs, PTL
    <2>3. Config \in File /\ Visible[Config] \in Nat
      BY <2>2, Files DEF VisibleFacts
    <2>4. CASE Unseen
      BY <2>3, <2>4 DEF Unseen
    <2>5. CASE Installed
      BY <2>3, <2>5 DEF Installed, Atomic!Overlay
    <2>6. CASE Completed
      BY <2>3, <2>6, OpFields DEF Completed, Atomic!Overlay, IInv
    <2>7. CASE TakenBack
      BY <2>7 DEF TakenBack
    <2>8. CASE Piecewise
      BY <2>8 DEF Piecewise, Orphaned
    <2>. QED
      BY <2>1, <2>4, <2>5, <2>6, <2>7, <2>8 DEF ViewStep
  <1>. QED
    BY <1>1, Invariance, PTL DEF Spec, NeverStepsBack

\* A rollback is orphaned by the step that removes its journal, which shows
\* readers what they saw before it.
LEMMA BareStep ==
    ASSUME IInv, IInv', [Next]_vars, op' # Idle, Orphaned'
    PROVE  op # Idle /\ (Orphaned \/ Unseen)
  <1>1. op'.kind = "backward" /\ op'.stage = "undo" /\ journal' = NoJournal
    BY DEF Orphaned
  <1>2. ASSUME NEW kind \in Kinds, NEW S \in FilesOf(kind), NEW r, Begin(kind, S, r)
        PROVE  FALSE
    BY <1>1, <1>2 DEF Begin, At
  <1>3. ASSUME NEW f, NEW r, Apply(f, r) \/ Recover(f, r)
        PROVE  FALSE
    BY <1>1, <1>3 DEF Apply, Recover, Running, IInv, OpSound, Orphaned, ProgressSound
  <1>4. ASSUME NEW f, NEW r, Undo(f, r)
        PROVE  op # Idle /\ Orphaned
    BY <1>1, <1>4 DEF Undo, Running, Moving, At, IInv, ProgressSound, Orphaned
  <1>5. ASSUME NEW r, Seal(r)
        PROVE  FALSE
    <2>1. op # Idle /\ journal # NoJournal
      BY <1>5 DEF Seal, Running, IInv, OpSound, Orphaned, ProgressSound
    <2>2. journal' # NoJournal
      BY <1>5, <2>1, JournalType, JournalFields, OpFields DEF Seal, Sealed, IInv
    <2>. QED
      BY <1>1, <2>2
  <1>6. ASSUME NEW r, Unlink(r)
        PROVE  op # Idle /\ Unseen
    <2>1. /\ op # Idle /\ journal # NoJournal /\ disk' = disk
          /\ \A f \in op.txn.files : disk[f] = Recovered(f)
      BY <1>6 DEF Unlink, Running, IInv, ProgressSound, OpSound, Orphaned, Recovered
    <2>. QED
      BY <1>1, <2>1, RemovedJournal
  <1>7. ASSUME NEW r, Finalize(r) \/ UndoUnlink(r) \/ RecoverUnlink(r)
        PROVE  FALSE
    BY <1>7 DEF Finalize, UndoUnlink, RecoverUnlink, ReturnOk, ReturnError
  <1>8. ASSUME NEW r, OpNext(r)
        PROVE  op # Idle /\ (Orphaned \/ Unseen)
    BY <1>3, <1>4, <1>5, <1>6, <1>7, <1>8 DEF OpNext
  <1>9. ASSUME NEW confirmed \in BOOLEAN, Verify(confirmed)
        PROVE  FALSE
    BY <1>1, <1>9 DEF Verify, Moving, At, ReturnError
  <1>10. CASE EnterRecovery \/ Crash
    BY <1>1, <1>10 DEF EnterRecovery, At, Crash
  <1>11. ASSUME NEW f \in 1..NumTasks, WriteTask(f)
         PROVE  FALSE
    BY <1>11 DEF WriteTask
  <1>12. CASE UNCHANGED vars
    BY <1>12 DEF vars, Orphaned
  <1>. QED
    BY <1>2, <1>8, <1>9, <1>10, <1>11, <1>12 DEF Next

LEMMA RefineStep ==
    ASSUME IInv, IInv', [Next]_vars
    PROVE  [Atomic!Step]_(Atomic!avars)
  <1>. DEFINE before == IF op = Idle \/ op.kind = "recovery" THEN Visible ELSE op.txn.old
              beforeN == IF op' = Idle \/ op'.kind = "recovery" THEN Visible' ELSE op'.txn.old
              bare == op # Idle /\ Orphaned
  <1>1. /\ ViewStep
        /\ UNCHANGED op \/ OpStep
        /\ op' # Idle /\ op'.kind = "recovery" => Unseen
    BY StepView DEF StepEffect
  <1>2. \/ Visible' = Visible
        \/ /\ op # Idle => Visible = before
           /\ \E S \in SUBSET File, v \in 1..MaxTxn : Visible' = Atomic!Overlay(Visible, S, v)
        \/ op # Idle /\ Visible' = before
        \/ bare /\ \E f \in File : Visible' = [Visible EXCEPT ![f] = before[f]]
    <2>1. CASE Unseen
      BY <2>1 DEF Unseen
    <2>2. CASE Installed
      BY <2>2 DEF Installed
    <2>3. CASE Completed
      <3>1. op.txn.files \in SUBSET File /\ op.txn.new \in 1..MaxTxn
        BY <2>3, OpFields DEF Completed, IInv
      <3>. QED
        BY <2>3, <3>1 DEF Completed
    <2>4. CASE TakenBack
      BY <2>4 DEF TakenBack
    <2>5. CASE Piecewise
      BY <2>5 DEF Piecewise, Orphaned
    <2>. QED
      BY <1>1, <2>1, <2>2, <2>3, <2>4, <2>5 DEF ViewStep
  <1>3. beforeN = IF ~(op' # Idle) THEN Visible' ELSE IF op # Idle THEN before ELSE Visible
    BY <1>1 DEF OpStep, Unseen
  <1>4. bare' => op # Idle /\ op' # Idle /\ (bare \/ Visible' = Visible)
    BY BareStep DEF Unseen
  <1>5. bare' \in BOOLEAN /\ (op' # Idle) \in BOOLEAN
    BY Zenon DEF Orphaned
  <1>6. Atomic!Step
    <2>1. Atomic!ChangeFiles
      BY <1>2 DEF Atomic!ChangeFiles
    <2>. QED
      BY <2>1, <1>3, <1>4, <1>5, Zenon DEF Atomic!Step
  <1>. QED
    BY <1>6

\* The journal implements whole-transaction changes: readers never see a part of
\* a transaction, whichever writes fail and whoever dies, except while a rollback
\* goes on that has lost its journal.
THEOREM Refinement == Spec => ImplementsAtomic
  <1>1. Init => Atomic!Init
    BY DEF Init, Atomic!Init, Visible
  <1>2. IInv /\ IInv' /\ [Next]_vars => [Atomic!Step]_(Atomic!avars)
    BY RefineStep
  <1>. QED
    BY <1>1, <1>2, Invariance, PTL DEF Spec, ImplementsAtomic, Atomic!Spec
==============================================================================
