------------------------ MODULE MembershipTransaction ------------------------
(* The journaled change of a team's task files, config.json and             *)
(* manifest.v2.json: a journal that holds the old and the new bytes of every *)
(* file is written first, the files are then replaced one by one, and        *)
(* whoever enters the membership barrier next finishes or undoes what it     *)
(* finds in the journal.                                                     *)
(* Source: src/src/team/state.ts (commitTeamMembershipTaskTransaction,       *)
(* recoverTeamMembershipTaskTransaction, writeConfig).                       *)
(*                                                                           *)
(* A file holds the number of the transaction that wrote it.  A durable      *)
(* write or removal succeeds, fails without effect, or takes effect and      *)
(* still reports an error: the rename or rm is followed by an fsync of the   *)
(* directory.  The process may die at every step.                            *)
EXTENDS Naturals

CONSTANTS
    NumTasks,     \* task files; they are written before the two below
    MaxTxn,       \* bound: transactions and task writes in a behaviour
    Kinds,        \* the callers' variants, a subset of Variant
    NoJournal, Idle

Config   == NumTasks + 1
Manifest == NumTasks + 2
File     == 1..(NumTasks + 2)

\* "forward": scaling, recoverToNewOnFailure.  "retain": the same with
\* retainJournalOnSuccess.  "backward": mutateShutdownConfig.  "save": writeConfig.
Variant == {"forward", "retain", "backward", "save"}

ASSUME BoundsAssumption == NumTasks \in Nat /\ MaxTxn \in Nat
ASSUME KindsAssumption == Kinds \subseteq Variant

VARIABLES
    disk,     \* File -> number of the transaction that wrote it
    journal,  \* .membership-task-transaction.json, or NoJournal
    op,       \* the operation inside the membership barrier, or Idle
    issued,   \* transactions begun
    promised, \* File -> the last transaction some caller was told is committed
    stranded  \* history: an orphaned rollback stopped half way, see Orphaned

vars == <<disk, journal, op, issued, promised, stranded>>

Txn     == [files: SUBSET File, old: [File -> 0..MaxTxn], new: 1..MaxTxn]
Journal == [phase: {"prepared", "committed"}, txn: Txn]
Stage   == {"apply", "unlink", "verify", "finalize", "undo", "recover"}
Op      == [kind: Variant \cup {"recovery"}, stage: Stage, todo: SUBSET File, txn: Txn]

ASSUME SentinelsAssumption == NoJournal \notin Journal /\ Idle \notin Op

At(kind, stage, todo, txn) == [kind |-> kind, stage |-> stage, todo |-> todo, txn |-> txn]
Running(stage) == op # Idle /\ op.stage = stage
Moving(stage, todo) == op' = At(op.kind, stage, todo, op.txn)

\* How a durable write or removal may end.
Outcomes == {"ok", "failed", "late"}
TookEffect(r) == r \in {"ok", "late"}

First(f, todo) == f \in todo /\ \A g \in todo : f <= g

Wrote(r, f, v) == disk' = IF TookEffect(r) THEN [disk EXCEPT ![f] = v] ELSE disk
Sealed(r) == journal' = IF TookEffect(r)
                        THEN [phase |-> "committed", txn |-> op.txn] ELSE journal
Unlinked(r) == journal' = IF TookEffect(r) THEN NoJournal ELSE journal

Promise(files, v) == promised' = [f \in File |-> IF f \in files THEN v ELSE promised[f]]
ReturnOk == op' = Idle /\ stranded' = FALSE /\ Promise(op.txn.files, op.txn.new)
ReturnError == op' = Idle /\ UNCHANGED <<promised, stranded>>

\* Bug form: every variant restores the old bytes.
CatchAlwaysUndoes == Moving("undo", op.txn.files) /\ UNCHANGED <<promised, stranded>>
\* The catch blocks: the forward variants and writeConfig run recovery on the
\* journal they find on disk, the other one restores the old bytes itself.
Catch ==
    \/ op.kind = "backward"
       /\ Moving("undo", op.txn.files) /\ UNCHANGED <<promised, stranded>>
    \/ op.kind # "backward" /\ journal' # NoJournal
       /\ Moving("recover", op.txn.files) /\ UNCHANGED <<promised, stranded>>
    \/ op.kind # "backward" /\ journal' = NoJournal /\ ReturnError

------------------------------------------------------------------------------
Init ==
    /\ disk = [f \in File |-> 0]
    /\ journal = NoJournal
    /\ op = Idle
    /\ issued = 0
    /\ promised = [f \in File |-> 0]
    /\ stranded = FALSE

\* Bug form: a phase that recovery does not know.
FirstPhaseUnknown(kind) == "started"
\* The first journal says where an interrupted commit goes.
FirstPhase(kind) == IF kind \in {"forward", "retain"} THEN "committed" ELSE "prepared"

\* Only scaling changes task files in the same transaction.
FilesOf(kind) == IF kind \in {"forward", "retain"}
                 THEN {S \in SUBSET File : {Config, Manifest} \subseteq S}
                 ELSE {{Config, Manifest}}

TxnOf(S) == [files |-> S, old |-> disk, new |-> issued + 1]

\* Bug form: the journal does not list the task files.
BeginTasksUnlisted(kind, S, r) ==
    /\ op = Idle /\ journal = NoJournal
    /\ issued < MaxTxn
    /\ journal' = IF TookEffect(r)
                  THEN [phase |-> FirstPhase(kind), txn |-> TxnOf({Config, Manifest})]
                  ELSE journal
    /\ op' = IF r = "ok" THEN At(kind, "apply", S, TxnOf(S)) ELSE Idle
    /\ issued' = issued + 1
    /\ UNCHANGED <<disk, promised, stranded>>

\* Every caller has run recovery to its end inside the same barrier.
\* An error of the first journal write is thrown outside the try block.
Begin(kind, S, r) ==
    /\ op = Idle /\ journal = NoJournal
    /\ issued < MaxTxn
    /\ journal' = IF TookEffect(r)
                  THEN [phase |-> FirstPhase(kind), txn |-> TxnOf(S)] ELSE journal
    /\ op' = IF r = "ok" THEN At(kind, "apply", S, TxnOf(S)) ELSE Idle
    /\ issued' = issued + 1
    /\ UNCHANGED <<disk, promised, stranded>>

Apply(f, r) ==
    /\ Running("apply") /\ First(f, op.todo)
    /\ Wrote(r, f, op.txn.new)
    /\ UNCHANGED <<journal, issued>>
    /\ IF r = "ok"
       THEN Moving("apply", op.todo \ {f}) /\ UNCHANGED <<promised, stranded>>
       ELSE Catch

\* The journal is rewritten as committed once every file is replaced.
Seal(r) ==
    /\ Running("apply") /\ op.todo = {}
    /\ Sealed(r)
    /\ UNCHANGED <<disk, issued>>
    /\ IF r = "ok"
       THEN /\ Moving(IF op.kind = "retain" THEN "verify" ELSE "unlink", {})
            /\ UNCHANGED <<promised, stranded>>
       ELSE Catch

Unlink(r) ==
    /\ Running("unlink")
    /\ Unlinked(r)
    /\ UNCHANGED <<disk, issued>>
    /\ IF r = "ok" THEN ReturnOk ELSE Catch

\* Scale-up rollback reads the canonical files back before it finalizes.
Verify(confirmed) ==
    /\ Running("verify")
    /\ IF confirmed THEN Moving("finalize", {}) /\ UNCHANGED <<promised, stranded>>
       ELSE ReturnError
    /\ UNCHANGED <<disk, journal, issued>>

Finalize(r) ==
    /\ Running("finalize")
    /\ Unlinked(r)
    /\ IF r = "ok" THEN ReturnOk ELSE ReturnError
    /\ UNCHANGED <<disk, issued>>

------------------------------------------------------------------------------
(* The catch block of the backward variant; its own errors are swallowed. *)

\* The removal of the journal took effect and reported an error: the catch block
\* restores the old files, and no journal tells anybody to go on with it.
Orphaned == journal = NoJournal /\ op.kind = "backward" /\ op.stage = "undo"

Stopped == stranded' = (stranded \/ (Orphaned /\ op.todo # {}))

Undo(f, r) ==
    /\ Running("undo") /\ First(f, op.todo)
    /\ Wrote(r, f, op.txn.old[f])
    /\ IF r = "ok" THEN Moving("undo", op.todo \ {f}) /\ UNCHANGED stranded
                   ELSE op' = Idle /\ Stopped
    /\ UNCHANGED <<journal, issued, promised>>

UndoUnlink(r) ==
    /\ Running("undo") /\ op.todo = {}
    /\ Unlinked(r)
    /\ op' = Idle
    /\ UNCHANGED <<disk, issued, promised, stranded>>

------------------------------------------------------------------------------
(* recoverTeamMembershipTaskTransaction *)

EnterRecovery ==
    /\ op = Idle /\ journal # NoJournal
    /\ op' = At("recovery", "recover", journal.txn.files, journal.txn)
    /\ UNCHANGED <<disk, journal, issued, promised, stranded>>

\* Bug form: recovery always restores the old bytes.
RecoveredToOld(f) == journal.txn.old[f]
\* Prepared transactions roll back; committed transactions roll forward.
Recovered(f) == IF journal.phase = "committed" THEN journal.txn.new ELSE journal.txn.old[f]

Recover(f, r) ==
    /\ Running("recover") /\ First(f, op.todo)
    /\ Wrote(r, f, Recovered(f))
    /\ op' = IF r = "ok" THEN At(op.kind, "recover", op.todo \ {f}, op.txn) ELSE Idle
    /\ UNCHANGED <<journal, issued, promised, stranded>>

\* Bug form: the journal goes before the files are restored.
RecoverUnlinkEarly(r) ==
    /\ Running("recover")
    /\ Unlinked(r)
    /\ op' = Idle
    /\ UNCHANGED <<disk, issued, promised, stranded>>

RecoverUnlink(r) ==
    /\ Running("recover") /\ op.todo = {}
    /\ Unlinked(r)
    /\ op' = Idle
    /\ UNCHANGED <<disk, issued, promised, stranded>>

------------------------------------------------------------------------------
\* Bug form: a task file is written before the journal has been recovered.
WriteTaskUnrecovered(f) ==
    /\ op = Idle
    /\ issued < MaxTxn
    /\ disk' = [disk EXCEPT ![f] = issued + 1]
    /\ issued' = issued + 1
    /\ Promise({f}, issued + 1)
    /\ UNCHANGED <<journal, op, stranded>>

\* Any other writer of a task file: it ran recovery on entry (TeamTasks).
WriteTask(f) ==
    /\ op = Idle /\ journal = NoJournal
    /\ issued < MaxTxn
    /\ disk' = [disk EXCEPT ![f] = issued + 1]
    /\ issued' = issued + 1
    /\ Promise({f}, issued + 1)
    /\ UNCHANGED <<journal, op, stranded>>

\* The process inside the barrier dies; its lock goes stale and is taken over.
Crash ==
    /\ op # Idle
    /\ op' = Idle
    /\ Stopped
    /\ UNCHANGED <<disk, journal, issued, promised>>

OpNext(r) ==
    \/ \E f \in op.todo : Apply(f, r) \/ Undo(f, r) \/ Recover(f, r)
    \/ Seal(r) \/ Unlink(r) \/ Finalize(r) \/ UndoUnlink(r) \/ RecoverUnlink(r)

Next ==
    \/ \E kind \in Kinds : \E S \in FilesOf(kind), r \in Outcomes : Begin(kind, S, r)
    \/ op # Idle /\ \E r \in Outcomes : OpNext(r)
    \/ \E confirmed \in BOOLEAN : Verify(confirmed)
    \/ EnterRecovery
    \/ \E f \in 1..NumTasks : WriteTask(f)
    \/ Crash

Spec == Init /\ [][Next]_vars

------------------------------------------------------------------------------
(* Type invariant *)
TypeOK ==
    /\ disk \in [File -> 0..MaxTxn]
    /\ journal \in Journal \cup {NoJournal}
    /\ op \in Op \cup {Idle}
    /\ issued \in 0..MaxTxn
    /\ promised \in [File -> 0..MaxTxn]
    /\ stranded \in BOOLEAN

\* What the next process to enter the barrier will find once it has recovered.
Visible ==
    IF journal = NoJournal THEN disk
    ELSE [f \in File |-> IF f \in journal.txn.files THEN Recovered(f) ELSE disk[f]]

------------------------------------------------------------------------------
(* Properties *)

\* "an old-or-new journaled generation": when nobody is inside and no journal
\* is left, config.json and manifest.v2.json come from the same transaction,
\* whatever write failed and whoever died.  The one exception is an orphaned
\* rollback that stopped half way, until the next transaction is acknowledged.
NeverTorn ==
    op = Idle /\ journal = NoJournal /\ ~stranded => disk[Config] = disk[Manifest]

\* What a caller was told to be written is not lost: readers of that file find
\* that transaction or a later one, whichever recovery runs afterwards.
CommittedStays == \A f \in File : Visible[f] >= promised[f]

\* "Recovery must complete the new generation rather than restore old bytes":
\* outside the backward variant no reader is taken back to an earlier state of
\* the team's membership.
NeverStepsBack ==
    [][(op # Idle => op.kind # "backward") => Visible'[Config] >= Visible[Config]]_vars

Atomic == INSTANCE AtomicMembership WITH
    vis <- Visible,
    before <- IF op = Idle \/ op.kind = "recovery" THEN Visible ELSE op.txn.old,
    open <- op # Idle,
    bare <- op # Idle /\ Orphaned

\* Readers see whole transactions: no interleaving of writes, errors, crashes
\* and recoveries shows one part of a transaction without the rest, as long as
\* no rollback is orphaned; one that is gives the files back one by one.
ImplementsAtomic == Atomic!Spec
==============================================================================
