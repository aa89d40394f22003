-------------------------- MODULE ManagedRestore --------------------------
(***************************************************************************)
(* `backup restore` replaces the file set of a vault.  The restore and the *)
(* recovery of an interrupted one are modelled at the granularity of the   *)
(* primitives of recovery.ts and vault-files.ts, and the process may die   *)
(* between any two of them.  A hash stands for the content it is of.  The  *)
(* `completed` marks of operations are not kept: every decision compares   *)
(* the two endpoints of an operation, and a mark only decides whether the  *)
(* journal is written once more, which every rename and unlink does here.  *)
(*                                                                         *)
(* Each mutation is followed in the code by the fsync of what it changed,  *)
(* so that a loss of power leaves the state before or after the mutation:  *)
(* a crash here, between two steps, is either kind of interruption.        *)
(*                                                                         *)
(* A restore starts with no interrupted restore pending.                   *)
(***************************************************************************)
EXTENDS FiniteSets

CONSTANTS
    Files,      \* the names a vault may hold: MANAGED_FILES and SQLite sidecars
    Managed,    \* MANAGED_FILES, the names a backup may hold
    Database,   \* "vault.db"
    KeyFile,    \* ".keyclasp.key"
    Content,    \* what a file may hold
    Absent      \* the image of a file that does not exist

ASSUME RestoreAssumption ==
    /\ Managed \subseteq Files
    /\ {Database, KeyFile} \subseteq Managed
    /\ Absent \notin Content

VARIABLES
    (* The vault directory *)
    live,           \* the files under their own names
    staging,        \* .restore-staging.<id>/<name>
    partial,        \* names with a .restore-staging.<id>/<name>.partial
    portable,       \* names with a .restore-staging.<id>/<name>.portable
    classification, \* files of the SQLite copy made to classify the live vault
    previous,       \* .restore-previous.<id>/<name>
    dirs,           \* which of the two directories exist
    journal,        \* .restore-transaction.v2.<id>.json
    temporary,      \* whether .restore-transaction.v2.<id>.tmp exists
    key,            \* .restore-journal.v2.<id>.key
    evidence,       \* the previous directory a damaged-branch restore kept
    (* The process holding the exclusive lifecycle lock *)
    command, pc, after, mem,
    (* History *)
    before,         \* the vault as it would be without the current restore
    target,         \* the image the current restore sealed for publication
    outcome,        \* what the last restore command reported, and of a failure
                    \* whether the commit was on disk by then
    refusal,        \* why the last recovery gave up
    touched         \* an external client wrote after the restore was sealed

directory == <<live, staging, partial, portable, classification, previous, dirs>>
ledger    == <<journal, temporary, key, evidence>>
process   == <<command, pc, after, mem>>
history   == <<before, target, outcome, refusal, touched>>
vars      == <<directory, ledger, process, history>>

Image == [Files -> Content \cup {Absent}]
Empty == [f \in Files |-> Absent]
Names(image) == {f \in Files : image[f] # Absent}

PortableFiles == {Database, KeyFile}

(* "copy" is the trio CLASSIFICATION_SQLITE_FILES; "journal" the rollback   *)
(* journal SQLite itself puts beside the copy.                              *)
ClassificationFiles == {"copy", "journal"}

CleanupPhases == {"staging-cleanup", "rollback-cleanup", "committed-cleanup"}
Phases == {"staging", "publishing", "rollback", "committed"} \cup CleanupPhases

Journal == [phase : Phases \cup {"none"}, branch : {"healthy", "damaged"},
            staged : Image, previous : Image]

NoJournal == [phase |-> "none", branch |-> "damaged",
              staged |-> Empty, previous |-> Empty]

Steps == {"idle", "persist", "publishJournal", "mkdir", "classify", "quiesce",
          "quiesced", "dropCopy", "stage", "portableCopy", "portableRename",
          "seal", "guard", "preserve", "publish", "validate", "finish",
          "rollback", "unpublish", "unpreserve", "cleanup", "rmdir",
          "unlinkJournal", "unlinkKey", "sweep", "readJournal"}

TypeOK ==
    /\ {live, staging, previous, evidence, before, target} \subseteq Image
    /\ {partial, portable} \subseteq SUBSET Files
    /\ classification \subseteq ClassificationFiles
    /\ dirs \subseteq {"staging", "previous"}
    /\ {journal, mem} \subseteq Journal
    /\ temporary \in BOOLEAN
    /\ key \in {"absent", "torn", "whole"}
    /\ command \in {"none", "restore", "catch", "recover"}
    /\ {pc, after} \subseteq Steps
    /\ outcome \in {"none", "restored", "failed", "failed-after-commit"}
    /\ refusal \in {"none", "torn-key", "unknown-entry", "mixed-state"}
    /\ touched \in BOOLEAN

Init ==
    /\ live \in Image
    /\ staging = Empty /\ previous = Empty /\ evidence = Empty
    /\ partial = {} /\ portable = {} /\ classification = {} /\ dirs = {}
    /\ journal = NoJournal /\ temporary = FALSE /\ key = "absent"
    /\ command = "none" /\ pc = "idle" /\ after = "idle" /\ mem = NoJournal
    /\ before = live /\ target = live
    /\ outcome = "none" /\ refusal = "none" /\ touched = FALSE

----------------------------------------------------------------------------
(* Helpers                                                                 *)

\* hasInterruptedManagedRestore: something to recover is on disk.
Pending == journal.phase # "none" \/ temporary \/ key # "absent"

\* Leave the journal in memory as `record` and write it before going on.
Persist(record, next) ==
    /\ mem' = record
    /\ pc' = "persist"
    /\ after' = next

Goto(next) == pc' = next /\ UNCHANGED <<after, mem, command>>

\* Mutant: an error of the cleanup is reported like one before the commit.
CleanupErrorFails ==
    CASE command # "recover" /\ journal.phase = "committed" -> "failed-after-commit"
      [] command # "recover" /\ journal.phase # "committed" -> "failed"
      [] OTHER -> outcome

\* What a restore reports when it is over: success as soon as it has left the
\* try block, errors of the cleanup being warnings; failure from the catch
\* block, whatever became of the rollback there; and a recovery nothing of it.
Report ==
    CASE command = "restore" -> "restored"
      [] command = "catch" ->
            IF journal.phase = "committed" THEN "failed-after-commit" ELSE "failed"
      [] OTHER -> outcome

\* The command is over.
End == pc' = "idle" /\ after' = "idle" /\ mem' = NoJournal /\ command' = "none"

\* Settling the transaction ends with an error: nothing on disk is changed.
Refuse(reason) ==
    /\ End
    /\ outcome' = Report
    /\ refusal' = reason
    /\ UNCHANGED <<directory, ledger, before, target, touched>>

\* assertExactVaultFilesUnchanged against the snapshot the journal records.
Unchanged == live = mem.previous

\* observedFile: the state of a path relative to the content expected there.
Observed(content, expected) ==
    CASE content = Absent -> "absent"
      [] content = expected -> "expected"
      [] OTHER -> "other"

----------------------------------------------------------------------------
(* Writing the journal                                                     *)

\* restoreJournalKey creates the key file and then writes its 32 bytes.
CreateKey ==
    /\ pc = "persist" /\ key = "absent"
    /\ key' = "torn"
    /\ UNCHANGED <<directory, journal, temporary, evidence, process, history>>

FillKey ==
    /\ pc = "persist" /\ key = "torn"
    /\ key' = "whole"
    /\ UNCHANGED <<directory, journal, temporary, evidence, process, history>>

WriteTemporary ==
    /\ pc = "persist" /\ key = "whole"
    /\ temporary' = TRUE
    /\ Goto("publishJournal")
    /\ UNCHANGED <<directory, journal, key, evidence, history>>

PublishJournal ==
    /\ pc = "publishJournal"
    /\ journal' = mem
    /\ temporary' = FALSE
    /\ Goto(after)
    /\ UNCHANGED <<directory, key, evidence, history>>

----------------------------------------------------------------------------
(* The restore, up to its commit point                                     *)

\* The backup has been authenticated; the journal of the restore opens.
Begin(image) ==
    /\ pc = "idle" /\ ~Pending
    /\ Names(image) \subseteq Managed
    /\ PortableFiles \subseteq Names(image)
    /\ command' = "restore"
    /\ Persist([phase |-> "staging", branch |-> "damaged",
                staged |-> image, previous |-> live], "mkdir")
    /\ before' = live /\ target' = live
    /\ outcome' = "none" /\ refusal' = "none" /\ touched' = FALSE
    /\ UNCHANGED <<directory, ledger>>

MakeStagingDirectory ==
    /\ pc = "mkdir" /\ dirs = {}
    /\ dirs' = {"staging"}
    /\ UNCHANGED <<live, staging, partial, portable, classification, previous,
                   ledger, process, history>>

MakePreviousDirectory ==
    /\ pc = "mkdir" /\ dirs = {"staging"}
    /\ dirs' = {"staging", "previous"}
    /\ Goto("classify")
    /\ UNCHANGED <<live, staging, partial, portable, classification, previous,
                   ledger, history>>

\* No live database worth classifying, or recovery material beside it.
ClassifyDamaged ==
    /\ pc = "classify" /\ Unchanged
    /\ Persist(mem, "stage")
    /\ UNCHANGED <<directory, ledger, command, history>>

CopyForClassification ==
    /\ pc = "classify" /\ Unchanged
    /\ PortableFiles \subseteq Names(live)
    /\ classification' = {"copy"}
    /\ Goto("quiesce")
    /\ UNCHANGED <<live, staging, partial, portable, previous, dirs, ledger,
                   history>>

\* validateCopiedLiveState or quick_check finds semantic damage.
FindDamage ==
    /\ pc = "quiesce" /\ Unchanged
    /\ Goto("dropCopy")
    /\ UNCHANGED <<directory, ledger, history>>

\* quiesceSqliteCopy leaves WAL mode, which SQLite does in a transaction
\* with a rollback journal of its own.
Quiesce ==
    /\ pc = "quiesce" /\ Unchanged
    /\ classification' = {"copy", "journal"}
    /\ Goto("quiesced")
    /\ UNCHANGED <<live, staging, partial, portable, previous, dirs, ledger,
                   history>>

Quiesced ==
    /\ pc = "quiesced"
    /\ classification' = {"copy"}
    /\ mem' = [mem EXCEPT !.branch = "healthy"]
    /\ pc' = "dropCopy"
    /\ UNCHANGED <<live, staging, partial, portable, previous, dirs, ledger,
                   command, after, history>>

DropCopy ==
    /\ pc = "dropCopy"
    /\ classification' = {}
    /\ Persist(mem, "stage")
    /\ UNCHANGED <<live, staging, partial, portable, previous, dirs, ledger,
                   command, history>>

StageCopy(f) ==
    /\ pc = "stage" /\ Unchanged /\ partial = {}
    /\ f \in Names(mem.staged) \ Names(staging)
    /\ partial' = {f}
    /\ UNCHANGED <<live, staging, portable, classification, previous, dirs,
                   ledger, process, history>>

StageRename(f) ==
    /\ pc = "stage" /\ f \in partial
    /\ partial' = {}
    /\ staging' = [staging EXCEPT ![f] = mem.staged[f]]
    /\ UNCHANGED <<live, portable, classification, previous, dirs, ledger,
                   process, history>>

\* An all-interactive backup without a machine key is converted first.
StageDone ==
    /\ pc = "stage" /\ partial = {}
    /\ Names(mem.staged) \subseteq Names(staging)
    /\ \E next \in {"portableCopy", "seal"} : Goto(next)
    /\ UNCHANGED <<directory, ledger, history>>

PortableCopy ==
    /\ pc = "portableCopy"
    /\ portable' = IF KeyFile \in portable THEN PortableFiles ELSE {KeyFile}
    /\ IF KeyFile \in portable THEN Goto("portableRename")
                               ELSE UNCHANGED process
    /\ UNCHANGED <<live, staging, partial, classification, previous, dirs,
                   ledger, history>>

\* preparePortableInteractiveRestore gave the copies their new content.
PortableRename(c) ==
    /\ pc = "portableRename"
    /\ LET f == IF KeyFile \in portable THEN KeyFile ELSE Database
       IN  /\ portable' = portable \ {f}
           /\ staging' = [staging EXCEPT ![f] = c]
           /\ IF f = Database THEN Goto("seal") ELSE UNCHANGED process
    /\ UNCHANGED <<live, partial, classification, previous, dirs, ledger,
                   history>>

\* The staged set is hashed and the publication journal written.
Seal ==
    /\ pc = "seal" /\ Unchanged
    /\ Persist([mem EXCEPT !.phase = "publishing", !.staged = staging], "guard")
    /\ target' = staging
    /\ UNCHANGED <<directory, ledger, command, before, outcome, refusal,
                   touched>>

\* The last look at the live files before the first of them is moved.
Guard ==
    /\ pc = "guard" /\ Unchanged
    /\ Goto("preserve")
    /\ UNCHANGED <<directory, ledger, history>>

\* reconcileFileOperation, forward: live -> previous.
Preserve(f) ==
    /\ pc = "preserve"
    /\ f \in Names(mem.previous) \ Names(previous)
    /\ live[f] = mem.previous[f]
    /\ live' = [live EXCEPT ![f] = Absent]
    /\ previous' = [previous EXCEPT ![f] = live[f]]
    /\ Persist(mem, "preserve")
    /\ UNCHANGED <<staging, partial, portable, classification, dirs, ledger,
                   command, history>>

PreserveDone ==
    /\ pc = "preserve"
    /\ Names(mem.previous) \subseteq Names(previous)
    /\ Goto("publish")
    /\ UNCHANGED <<directory, ledger, history>>

\* reconcileFileOperation, forward: staging -> live.
Publish(f) ==
    /\ pc = "publish"
    /\ staging[f] # Absent /\ staging[f] = mem.staged[f]
    /\ live[f] = Absent
    /\ live' = [live EXCEPT ![f] = staging[f]]
    /\ staging' = [staging EXCEPT ![f] = Absent]
    /\ Persist(mem, "publish")
    /\ UNCHANGED <<partial, portable, classification, previous, dirs, ledger,
                   command, history>>

PublishDone ==
    /\ pc = "publish" /\ staging = Empty
    /\ Goto("validate")
    /\ UNCHANGED <<directory, ledger, history>>

\* The published set is hashed and validated, and the commit journalled.
Validate ==
    /\ pc = "validate"
    /\ \A f \in Names(mem.staged) : live[f] = mem.staged[f]
    /\ Persist([mem EXCEPT !.phase = "committed"], "finish")
    /\ UNCHANGED <<directory, ledger, command, history>>

----------------------------------------------------------------------------
(* Committed, rolled back, cleaned up                                      *)

\* beginCleanupJournal
BeginCleanup(phase) == Persist([mem EXCEPT !.phase = phase], "cleanup")

\* finishCommittedJournal; the command can only succeed from here on.
Finish ==
    /\ pc = "finish"
    /\ \A f \in Names(mem.staged) : live[f] = mem.staged[f]
    /\ BeginCleanup("committed-cleanup")
    /\ outcome' = IF command = "restore" THEN "restored" ELSE outcome
    /\ UNCHANGED <<directory, ledger, command, before, target, refusal, touched>>

FinishRefused ==
    /\ pc = "finish"
    /\ \E f \in Names(mem.staged) : live[f] # mem.staged[f]
    /\ Refuse("mixed-state")

\* assertRollbackOperationsReconciliable, for one rename of each kind.
PublishReversible(f) ==
    LET atLive == Observed(live[f], mem.staged[f])
        atStaging == Observed(staging[f], mem.staged[f])
    IN  \/ <<atLive, atStaging>> \in {<<"expected", "absent">>, <<"absent", "expected">>}
        \/ /\ atStaging = "expected" /\ mem.previous[f] # Absent
           /\ live[f] = mem.previous[f]

PreserveReversible(f) ==
    LET atPrevious == Observed(previous[f], mem.previous[f])
        atLive == Observed(live[f], mem.previous[f])
    IN  \/ <<atPrevious, atLive>> \in {<<"expected", "absent">>, <<"absent", "expected">>}
        \/ /\ atPrevious = "expected" /\ mem.staged[f] # Absent
           /\ live[f] = mem.staged[f]

Reversible ==
    /\ \A f \in Names(mem.staged) : PublishReversible(f)
    /\ \A f \in Names(mem.previous) : PreserveReversible(f)

\* Mutant: the rollback is journalled without its phase.
RollbackStagingAgain ==
    /\ pc = "rollback" /\ mem.phase = "staging"
    /\ Persist(mem, "rollback")
    /\ UNCHANGED <<directory, ledger, command, history>>

\* rollbackJournal
RollbackStaging ==
    /\ pc = "rollback" /\ mem.phase = "staging"
    /\ BeginCleanup("staging-cleanup")
    /\ UNCHANGED <<directory, ledger, command, history>>

RollbackPublished ==
    /\ pc = "rollback" /\ mem.phase # "staging" /\ Reversible
    /\ Persist([mem EXCEPT !.phase = "rollback"], "unpublish")
    /\ UNCHANGED <<directory, ledger, command, history>>

RollbackRefused ==
    /\ pc = "rollback" /\ mem.phase # "staging" /\ ~Reversible
    /\ Refuse("mixed-state")

\* Mutant: a rename is reversed without a look at where the file came from.
UnpublishOneSided(f) == IF live[f] = mem.staged[f] THEN "reverse" ELSE "skip"

\* What reconcileFileOperation makes of a rename on the way back: skip it,
\* reverse it or stop.
UnpublishVerdict(f) ==
    LET from == Observed(live[f], mem.staged[f])
        to == Observed(staging[f], mem.staged[f])
    IN  CASE from = "expected" /\ to = "absent" -> "reverse"
          [] from = "absent" /\ to = "expected" -> "skip"
          [] /\ to = "expected" /\ from # "absent"
             /\ mem.previous[f] # Absent /\ live[f] = mem.previous[f] -> "skip"
          [] OTHER -> "stop"

\* Mutant: a rename the interrupted rollback has reversed is not skipped.
UnpreserveNeverSkips(f) ==
    IF previous[f] = mem.previous[f] /\ live[f] = Absent THEN "reverse" ELSE "stop"

UnpreserveVerdict(f) ==
    LET from == Observed(previous[f], mem.previous[f])
        to == Observed(live[f], mem.previous[f])
    IN  CASE from = "expected" /\ to = "absent" -> "reverse"
          [] from = "absent" /\ to = "expected" -> "skip"
          [] OTHER -> "stop"

Unpublish(f) ==
    /\ pc = "unpublish" /\ f \in Names(mem.staged)
    /\ UnpublishVerdict(f) = "reverse"
    /\ staging' = [staging EXCEPT ![f] = live[f]]
    /\ live' = [live EXCEPT ![f] = Absent]
    /\ Persist(mem, "unpublish")
    /\ UNCHANGED <<partial, portable, classification, previous, dirs, ledger,
                   command, history>>

\* Mutant: a rollback takes the new files away and leaves it at that.
UnpublishIsRollback ==
    /\ pc = "unpublish"
    /\ \A f \in Names(mem.staged) : UnpublishVerdict(f) = "skip"
    /\ BeginCleanup("rollback-cleanup")
    /\ UNCHANGED <<directory, ledger, command, history>>

UnpublishDone ==
    /\ pc = "unpublish"
    /\ \A f \in Names(mem.staged) : UnpublishVerdict(f) = "skip"
    /\ Goto("unpreserve")
    /\ UNCHANGED <<directory, ledger, history>>

Unpreserve(f) ==
    /\ pc = "unpreserve" /\ f \in Names(mem.previous)
    /\ UnpreserveVerdict(f) = "reverse"
    /\ live' = [live EXCEPT ![f] = previous[f]]
    /\ previous' = [previous EXCEPT ![f] = Absent]
    /\ Persist(mem, "unpreserve")
    /\ UNCHANGED <<staging, partial, portable, classification, dirs, ledger,
                   command, history>>

UnpreserveDone ==
    /\ pc = "unpreserve"
    /\ \A f \in Names(mem.previous) : UnpreserveVerdict(f) = "skip"
    /\ BeginCleanup("rollback-cleanup")
    /\ UNCHANGED <<directory, ledger, command, history>>

ReverseRefused ==
    /\ \/ pc = "unpublish" /\ \E f \in Names(mem.staged) : UnpublishVerdict(f) = "stop"
       \/ pc = "unpreserve" /\ \E f \in Names(mem.previous) : UnpreserveVerdict(f) = "stop"
    /\ Refuse("mixed-state")

\* cleanupOperations: which names each cleanup phase unlinks.
CoversCopies == mem.phase = "staging-cleanup"
\* Mutant: the files a damaged vault held are cleaned up like any other.
CoversEvidence == mem.phase = "committed-cleanup"

CoversPrevious == mem.phase = "committed-cleanup" /\ mem.branch = "healthy"

CleanupCopy ==
    /\ pc = "cleanup" /\ CoversCopies /\ "copy" \in classification
    /\ classification' = classification \ {"copy"}
    /\ Persist(mem, "cleanup")
    /\ UNCHANGED <<live, staging, partial, portable, previous, dirs, ledger,
                   command, history>>

CleanupPartial(f) ==
    /\ pc = "cleanup" /\ f \in partial \cap Names(mem.staged)
    /\ partial' = partial \ {f}
    /\ Persist(mem, "cleanup")
    /\ UNCHANGED <<live, staging, portable, classification, previous, dirs,
                   ledger, command, history>>

CleanupPortable(f) ==
    /\ pc = "cleanup" /\ CoversCopies /\ f \in portable \cap Names(mem.staged)
    /\ portable' = portable \ {f}
    /\ Persist(mem, "cleanup")
    /\ UNCHANGED <<live, staging, partial, classification, previous, dirs,
                   ledger, command, history>>

CleanupStaged(f) ==
    /\ pc = "cleanup" /\ f \in Names(mem.staged) \cap Names(staging)
    /\ CoversCopies \/ staging[f] = mem.staged[f]
    /\ staging' = [staging EXCEPT ![f] = Absent]
    /\ Persist(mem, "cleanup")
    /\ UNCHANGED <<live, partial, portable, classification, previous, dirs,
                   ledger, command, history>>

CleanupPrevious(f) ==
    /\ pc = "cleanup" /\ CoversPrevious
    /\ f \in Names(mem.previous) \cap Names(previous)
    /\ previous[f] = mem.previous[f]
    /\ previous' = [previous EXCEPT ![f] = Absent]
    /\ Persist(mem, "cleanup")
    /\ UNCHANGED <<live, staging, partial, portable, classification, dirs,
                   ledger, command, history>>

\* Mutant: the journal goes before the directories it speaks of.
CleanupDoneUnlinks == pc = "cleanup" /\ Goto("unlinkJournal") /\ UNCHANGED <<directory, ledger, history>>

CleanupDone ==
    /\ pc = "cleanup"
    /\ Names(mem.staged) \cap (partial \cup Names(staging)) = {}
    /\ CoversCopies => "copy" \notin classification /\ portable \cap Names(mem.staged) = {}
    /\ CoversPrevious => Names(mem.previous) \cap Names(previous) = {}
    /\ Goto("rmdir")
    /\ UNCHANGED <<directory, ledger, history>>

\* removeDirectoryIfEmpty, for the directories this phase removes.
StagingEmpty == staging = Empty /\ partial = {} /\ portable = {} /\ classification = {}
RemovesPrevious == mem.phase # "committed-cleanup" \/ mem.branch = "healthy"

RemoveDirectories ==
    /\ pc = "rmdir" /\ StagingEmpty
    /\ RemovesPrevious => previous = Empty
    /\ dirs' = IF RemovesPrevious THEN {} ELSE dirs \ {"staging"}
    /\ Goto("unlinkJournal")
    /\ UNCHANGED <<live, staging, partial, portable, classification, previous,
                   ledger, history>>

\* A name the phase covers has other content, or a directory is not empty.
CleanupBlocked ==
    \/ /\ pc = "cleanup" /\ ~CoversCopies
       /\ \E f \in Names(mem.staged) : Observed(staging[f], mem.staged[f]) = "other"
    \/ /\ pc = "cleanup" /\ CoversPrevious
       /\ \E f \in Names(mem.previous) : Observed(previous[f], mem.previous[f]) = "other"
    \/ pc = "rmdir" /\ ~StagingEmpty
    \/ pc = "rmdir" /\ RemovesPrevious /\ previous # Empty

CleanupRefused == CleanupBlocked /\ Refuse("unknown-entry")

\* With its journal gone a kept previous directory is evidence, not state.
UnlinkJournal ==
    /\ pc = "unlinkJournal"
    /\ journal' = NoJournal
    /\ IF RemovesPrevious
       THEN UNCHANGED <<evidence, previous, dirs>>
       ELSE evidence' = previous /\ previous' = Empty /\ dirs' = {}
    /\ Goto("unlinkKey")
    /\ UNCHANGED <<live, staging, partial, portable, classification, temporary,
                   key, history>>

UnlinkKey ==
    /\ pc = "unlinkKey"
    /\ key' = "absent"
    /\ End
    /\ outcome' = Report
    /\ UNCHANGED <<directory, journal, temporary, evidence, before, target,
                   refusal, touched>>

----------------------------------------------------------------------------
(* Errors, crashes and recovery                                            *)

\* writeRestoreJournal removes its temporary file when it fails, if it can.
TemporaryMayGo == temporary' \in {temporary, FALSE}

\* A step of the restore throws before the result is certain, which is until
\* the fsync behind the rename of the commit journal has succeeded.  The catch
\* block reads back the journal on disk and rolls it back or, with none on
\* disk yet, drops the transaction key, which may fail as well.
Fail ==
    /\ command = "restore" /\ outcome = "none"
    /\ TemporaryMayGo
    /\ classification' = classification \ {"journal"}
    /\ IF journal.phase # "none"
       THEN /\ command' = "catch" /\ pc' = "rollback" /\ mem' = journal
            /\ UNCHANGED <<after, key, outcome>>
       ELSE /\ key' \in {key, "absent"}
            /\ End
            /\ outcome' = "failed"
    /\ UNCHANGED <<live, staging, partial, portable, previous, dirs, journal,
                   evidence, before, target, refusal, touched>>

\* A step throws while the catch block rolls back, or while a restore that has
\* committed cleans up: the command reports and leaves the rest as it is.
GiveUp ==
    /\ \/ command = "catch"
       \/ command = "restore" /\ (pc = "finish" \/ outcome = "restored")
    /\ End
    /\ outcome' = Report
    /\ TemporaryMayGo
    /\ UNCHANGED <<directory, journal, key, evidence, before, target, refusal,
                   touched>>

\* The process dies and reports nothing, or a step of a recovery throws and
\* the command that was to follow it fails.
Crash ==
    /\ pc # "idle"
    /\ End
    /\ UNCHANGED <<directory, ledger, history>>

\* recoverInterruptedManagedRestore, at the start of the next command.
StartRecovery ==
    /\ pc = "idle" /\ Pending
    /\ command' = "recover"
    /\ refusal' = "none"
    /\ pc' = IF journal.phase = "none" THEN "sweep" ELSE "readJournal"
    /\ UNCHANGED <<directory, ledger, after, mem, before, target, outcome,
                   touched>>

SweepTemporary ==
    /\ pc = "sweep" /\ temporary
    /\ temporary' = FALSE
    /\ UNCHANGED <<directory, journal, key, evidence, process, history>>

SweepKey ==
    /\ pc = "sweep" /\ ~temporary /\ key = "whole"
    /\ key' = "absent"
    /\ UNCHANGED <<directory, journal, temporary, evidence, process, history>>

SweepRefused ==
    /\ pc = "sweep" /\ ~temporary /\ key = "torn"
    /\ Refuse("torn-key")

SweepDone ==
    /\ pc = "sweep" /\ ~temporary /\ key = "absent"
    /\ pc' = "idle" /\ command' = "none"
    /\ UNCHANGED <<directory, ledger, after, mem, history>>

\* Mutant: recovery takes a commit that was not cleaned up for interrupted.
ReadJournalUndoesCommit ==
    /\ pc = "readJournal"
    /\ temporary' = FALSE /\ mem' = journal
    /\ pc' = IF journal.phase \in CleanupPhases THEN "cleanup" ELSE "rollback"
    /\ UNCHANGED <<directory, journal, key, evidence, command, after, history>>

\* Mutant: recovery cleans up after an interrupted rollback without ending it.
ReadJournalCleansRollback ==
    /\ pc = "readJournal"
    /\ temporary' = FALSE /\ mem' = [journal EXCEPT !.phase = "staging"]
    /\ pc' = "rollback"
    /\ UNCHANGED <<directory, journal, key, evidence, command, after, history>>

ReadJournal ==
    /\ pc = "readJournal"
    /\ temporary' = FALSE
    /\ mem' = journal
    /\ pc' = CASE journal.phase = "committed" -> "finish"
               [] journal.phase \in CleanupPhases -> "cleanup"
               [] OTHER -> "rollback"
    /\ UNCHANGED <<directory, journal, key, evidence, command, after, history>>

\* What the process works on or, with none running, what recovery will.
InForce == IF mem.phase = "none" THEN journal ELSE mem

\* The restored database is in place of the one that was there.
DatabaseReplaced ==
    /\ journal.phase \in {"publishing", "rollback", "committed", "committed-cleanup"}
    /\ staging[Database] = Absent

\* An SQLite client that ignores the lifecycle lock writes the database it
\* finds.  A write before the restore is sealed is noticed and harmless.
ExternalWrite(c) ==
    /\ journal.phase # "none" \/ mem.phase = "staging"
    /\ live[Database] \notin {Absent, c}
    /\ live' = [live EXCEPT ![Database] = c]
    /\ IF DatabaseReplaced
       THEN target' = [target EXCEPT ![Database] = c] /\ UNCHANGED before
       ELSE before' = [before EXCEPT ![Database] = c] /\ UNCHANGED target
    /\ touched' = (touched \/ InForce.phase # "staging")
    /\ UNCHANGED <<staging, partial, portable, classification, previous, dirs,
                   ledger, process, outcome, refusal>>

----------------------------------------------------------------------------
PersistStep == CreateKey \/ FillKey \/ WriteTemporary \/ PublishJournal

RestoreStep ==
    \/ MakeStagingDirectory \/ MakePreviousDirectory
    \/ ClassifyDamaged \/ CopyForClassification \/ FindDamage \/ Quiesce
    \/ Quiesced \/ DropCopy
    \/ \E f \in Files : StageCopy(f) \/ StageRename(f)
    \/ StageDone \/ PortableCopy
    \/ \E c \in Content : PortableRename(c)
    \/ Seal \/ Guard
    \/ \E f \in Files : Preserve(f) \/ Publish(f)
    \/ PreserveDone \/ PublishDone \/ Validate

SettleStep ==
    \/ Finish \/ FinishRefused
    \/ RollbackStaging \/ RollbackPublished \/ RollbackRefused
    \/ \E f \in Files : Unpublish(f) \/ Unpreserve(f)
    \/ UnpublishDone \/ UnpreserveDone \/ ReverseRefused
    \/ \E f \in Files : \/ CleanupPartial(f) \/ CleanupPortable(f)
                        \/ CleanupStaged(f) \/ CleanupPrevious(f)
    \/ CleanupCopy \/ CleanupDone \/ CleanupRefused
    \/ RemoveDirectories \/ UnlinkJournal \/ UnlinkKey

RecoveryStep ==
    \/ StartRecovery \/ SweepTemporary \/ SweepKey \/ SweepRefused \/ SweepDone
    \/ ReadJournal

ProgramStep == PersistStep \/ RestoreStep \/ SettleStep \/ RecoveryStep

Interruption == Crash \/ Fail \/ GiveUp \/ \E c \in Content : ExternalWrite(c)

Next ==
    \/ ProgramStep
    \/ \E image \in Image : Begin(image)
    \/ Interruption

Spec == Init /\ [][Next]_vars

----------------------------------------------------------------------------
(* Properties                                                              *)

(* While the outcome is open the original of every file exists: preserved, *)
(* or, with nothing preserved in its stead, still (or again) in place.  No *)
(* interleaving of renames, crashes, rollbacks and interrupted rollbacks   *)
(* loses it.  (rename order of recovery.ts:1230-1265 and :618-631)         *)
OriginalRecoverable ==
    journal.phase \in {"publishing", "rollback", "committed"} =>
        \A f \in Names(before) :
            \/ previous[f] = before[f]
            \/ previous[f] = Absent /\ live[f] = before[f]

(* What a journal phase read after a crash promises about the live set:    *)
(* nothing has moved while staging, everything is back once the rollback   *)
(* is being cleaned up, everything is new once committed, and without a    *)
(* journal the vault is wholly old or wholly new.                          *)
AllOrNothing ==
    /\ journal.phase \in {"staging", "staging-cleanup", "rollback-cleanup"} =>
          live = before
    /\ journal.phase \in {"committed", "committed-cleanup"} => live = target
    /\ journal.phase = "none" => live \in {before, target}

(* Recovery meets a state it calls mixed or unknown only when an external  *)
(* client wrote the database after the restore was sealed.  No sequence of *)
(* crashes, errors and interrupted recoveries leads there.                 *)
RefusalsExplained == refusal = "mixed-state" => touched

(* A committed restore over a damaged vault keeps all it replaced: the     *)
(* files its journal named are in the evidence directory when it ends.     *)
EvidenceKept ==
    [][journal.phase = "committed-cleanup" /\ journal' = NoJournal
        => IF journal.branch = "damaged" THEN evidence' = before
                                         ELSE evidence' = evidence]_vars

(* When nothing is pending, no file or directory of a transaction is left  *)
(* behind, whatever was interrupted on the way.                            *)
NothingLeftBehind ==
    ~Pending /\ pc = "idle" => StagingEmpty /\ previous = Empty /\ dirs = {}

(* The image a completed recovery would give: while the outcome is open a  *)
(* preserved file counts where it was, and a published one not yet.        *)
RecoveredImage ==
    IF journal.phase \in {"publishing", "rollback"}
    THEN [f \in Files |-> IF previous[f] # Absent THEN previous[f]
                          ELSE IF journal.previous[f] # Absent THEN live[f]
                          ELSE Absent]
    ELSE live

(* A restore that reported success is never undone by a later crash or     *)
(* recovery, cleanup errors and all.  One that reported failure is never   *)
(* completed, though its rollback may have failed too and a later start    *)
(* has to end it; but for the one whose commit journal was on disk when    *)
(* the report was made: that one is completed, and not undone.             *)
(* (recovery.ts:1274-1313 with :460, :626 and :673)                        *)
ReportedOutcomeHolds ==
    /\ outcome \in {"restored", "failed-after-commit"} => RecoveredImage = target
    /\ outcome = "failed" => RecoveredImage = before

RestoreStage ==
    CASE journal.phase = "none" -> "idle"
      [] journal.phase \in {"committed", "committed-cleanup"} -> "replaced"
      [] OTHER -> "open"

Promise == INSTANCE AtomicReplace
    WITH vault <- RecoveredImage, stage <- RestoreStage,
         prior <- IF RestoreStage = "idle" THEN RecoveredImage ELSE before

(* The restore replaces the vault as a whole, in the one step that makes   *)
(* the commit journal durable, and until it has completed can only be      *)
(* undone as a whole: it implements AtomicReplace.                         *)
Implements == Promise!Spec

(* The code runs on once started, and an operator whose vault is blocked   *)
(* runs another command.                                                   *)
FairSpec == Spec /\ WF_vars(ProgramStep \/ Fail)

(* Unless crashes never end, every interrupted restore is settled, or      *)
(* recovery says why it gives up.                                          *)
Converges ==
    \/ []<><<Crash>>_vars
    \/ Pending ~> (~Pending \/ refusal # "none")

(* "... so repeated process deaths converge on the complete prior or       *)
(* verified new set." (docs/architecture/software-vault-lifecycle.md:33)   *)
(* Recovery does not give up on what a death of the restore itself left    *)
(* behind: a journal key without its bytes, or a file in the staging       *)
(* directory that recovery does not know.                                  *)
DeathsConverge == refusal \notin {"torn-key", "unknown-entry"}
============================================================================
