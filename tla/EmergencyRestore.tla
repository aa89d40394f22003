-------------------------- MODULE EmergencyRestore --------------------------
(***************************************************************************)
(* `backup restore` does not recover what an earlier restore left behind:  *)
(* it takes the files of every pending transaction for files of the vault  *)
(* it replaces, moves them into its own previous directory, directories    *)
(* within directories, and, undone, puts them back for their transaction   *)
(* to be recovered in its turn.  Here several restores, each interrupted   *)
(* anywhere, work on one vault directory.                                  *)
(*                                                                         *)
(* ManagedRestore has the steps within the staging directory, files that   *)
(* are alike and the clients that ignore the lock; here a file is staged   *)
(* in one step, a backup holds every managed file, with a content of its   *)
(* own, and what a cleanup finds gone is passed over without a write of    *)
(* the journal.  Restores are numbered in the order of their names, which  *)
(* are chosen at random, and no depth is too deep.  A restore takes over   *)
(* every file it finds in the directories of a transaction, also one whose *)
(* name isAllowedTransactionLeaf would refuse, where the code throws: the  *)
(* model has more restores than the code.  Pending files of other          *)
(* transactions (policy, custody, migration) are moved and put back like   *)
(* the managed ones and are not told apart.                                *)
(***************************************************************************)
EXTENDS Integers, SequencesExt

CONSTANTS
    ManagedFiles,   \* how many files a vault, and a backup, holds
    MaxRestores     \* bound on the restores begun

ASSUME SizeAssumption == ManagedFiles \in Nat

VARIABLES
    (* The vault directory, as paths relative to it *)
    disk,       \* the files: a path to its content
    dirs,       \* the directories
    (* The process holding the exclusive lifecycle lock *)
    command, pc, then, mem,
    refusal,    \* why the last recovery gave up
    (* History *)
    begun,      \* how many restores began; each took the next id
    current     \* the id whose backup the vault holds; 0 at the beginning

directory == <<disk, dirs>>
process == <<command, pc, then, mem>>
history == <<begun, current>>
vars == <<directory, process, refusal, history>>

\* Names are pairs of a kind and a number, and a path is a sequence of names.
File(n) == <<"file", n>>         \* MANAGED_FILES
JournalOf(i) == <<"journal", i>>    \* .restore-transaction.v2.<id>.json
TemporaryOf(i) == <<"temporary", i>>  \* .restore-transaction.v2.<id>.tmp
KeyOf(i) == <<"key", i>>        \* .restore-journal.v2.<id>.key
StagingOf(i) == <<"staging", i>>    \* .restore-staging.<id>
PreviousOf(i) == <<"previous", i>>   \* .restore-previous.<id>

Managed == 1..ManagedFiles
Ids == 1..begun
Image(i) == [image |-> i]
Unread == [unread |-> TRUE]     \* a content nothing depends on
Torn == [bytes |-> 0]
Whole == [bytes |-> 32]

UndonePhases == {"staging-cleanup", "rollback-cleanup"}
CleanupPhases == UndonePhases \cup {"committed-cleanup"}

NoJournal == [phase |-> "none", branch |-> "damaged", id |-> 0,
              directories |-> <<>>, previous |-> <<>>]

Init ==
    /\ disk = [p \in {<<File(n)>> : n \in Managed} |-> Image(0)]
    /\ dirs = {}
    /\ command = "none" /\ pc = "idle" /\ then = "idle" /\ mem = NoJournal
    /\ refusal = "none"
    /\ begun = 0 /\ current = 0

----------------------------------------------------------------------------
(* The directory                                                           *)

Present(p) == p \in DOMAIN disk
Put(p, content) == [q \in DOMAIN disk \cup {p} |-> IF q = p THEN content ELSE disk[q]]
Unlink(p) == disk' = [q \in DOMAIN disk \ {p} |-> disk[q]]
Rename(from, to) ==
    disk' = [q \in (DOMAIN disk \ {from}) \cup {to} |->
                IF q = to THEN disk[from] ELSE disk[q]]

Observed(p, expected) ==
    CASE ~Present(p) -> "absent"
      [] Present(p) /\ disk[p] = expected -> "expected"
      [] OTHER -> "other"

\* The ids of the files of one kind in the vault directory itself.
Listed(kind) == {i \in Ids : Present(<<<<kind, i>>>>)}
Journals == Listed("journal")

\* hasInterruptedManagedRestore
Pending == Journals \cup Listed("temporary") \cup Listed("key") # {}

\* The order of a sorted listing: by name, a directory before what it holds.
Kinds == <<"key", "previous", "staging", "journal", "temporary", "file">>
NameBefore(a, b) ==
    LET rank(name) == CHOOSE n \in DOMAIN Kinds : Kinds[n] = name[1]
    IN  \/ rank(a) < rank(b)
        \/ rank(a) = rank(b) /\ a[2] < b[2]
Before(p, q) ==
    \E n \in DOMAIN q :
        /\ \A m \in 1..(n - 1) : m \in DOMAIN p /\ p[m] = q[m]
        /\ n = Len(p) + 1 \/ (n \in DOMAIN p /\ NameBefore(p[n], q[n]))
Sorted(paths) ==
    [n \in 1..Cardinality(paths) |->
        CHOOSE p \in paths : Cardinality({q \in paths : Before(q, p)}) = n - 1]

----------------------------------------------------------------------------
(* What a restore takes over, and the operations of its journal            *)

\* pendingTransactionMaterial: what the directories of the transactions hold
\* whose journal is in the vault directory.
OfPending(p) == \E i \in Journals : p[1] \in {StagingOf(i), PreviousOf(i)}
MaterialFiles == {p \in DOMAIN disk : OfPending(p)}
MaterialDirectories == {d \in dirs : OfPending(d)}

\* Mutant: the keys of pending transactions stay where they are.
InventoryLeavesKeys ==
    LET top(kind) == Sorted({p \in DOMAIN disk : Len(p) = 1 /\ p[1][1] = kind})
    IN  top("file") \o top("journal") \o top("temporary") \o Sorted(MaterialFiles)

\* recognizedLiveNames, as far as they exist.
Inventory ==
    LET top(kind) == Sorted({p \in DOMAIN disk : Len(p) = 1 /\ p[1][1] = kind})
    IN  top("file") \o top("journal") \o top("temporary") \o top("key")
            \o Sorted(MaterialFiles)

Journal(id) ==
    LET names == Inventory
    IN  [phase |-> "staging", branch |-> "damaged", id |-> id,
         directories |-> Sorted(MaterialDirectories),
         previous |-> [n \in DOMAIN names |->
                          [path |-> names[n], content |-> disk[names[n]]]]]

\* pendingRecoveryMaterial, of the transaction that listed it.
OverPending(j) == \E e \in ToSet(j.previous) : e.path[1][1] \in {"journal", "temporary"}

Staged(j, n) == <<StagingOf(j.id), File(n)>>
Kept(j, path) == <<PreviousOf(j.id)>> \o path

Preservations(j) ==
    [n \in DOMAIN j.previous |->
        [from |-> j.previous[n].path, to |-> Kept(j, j.previous[n].path),
         content |-> j.previous[n].content]]
Publications(j) ==
    [n \in Managed |-> [from |-> Staged(j, n), to |-> <<File(n)>>, content |-> Image(j.id)]]

\* rollbackDestinationHash and stagedHashes: what the other operation on the
\* same live file puts there.
Listing(j, path, content) == [path |-> path, content |-> content] \in ToSet(j.previous)
OldIsBack(j, op) == Present(op.to) /\ Listing(j, op.to, disk[op.to])
NewIsThere(j, op) ==
    \E n \in Managed : op.from = <<File(n)>> /\ Observed(op.from, Image(j.id)) = "expected"

\* reconcileFileOperation, forward.
ForwardVerdict(op) ==
    CASE Observed(op.from, op.content) = "expected" /\ ~Present(op.to) -> "move"
      [] ~Present(op.from) /\ Observed(op.to, op.content) = "expected" -> "skip"
      [] OTHER -> "stop"

\* reconcileFileOperation, rollback.
BackwardVerdict(j, op) ==
    LET atTo == Observed(op.to, op.content)
        atFrom == Observed(op.from, op.content)
    IN  CASE atTo = "expected" /\ atFrom = "absent" -> "move"
          [] atTo = "absent" /\ atFrom = "expected" -> "skip"
          [] atTo = "other" /\ atFrom = "expected" /\ OldIsBack(j, op) -> "skip"
          [] OTHER -> "stop"

\* assertRollbackOperationsReconciliable, for one operation.
Reversible(j, op) ==
    LET atTo == Observed(op.to, op.content)
        atFrom == Observed(op.from, op.content)
    IN  \/ <<atTo, atFrom>> \in {<<"expected", "absent">>, <<"absent", "expected">>}
        \/ atTo = "other" /\ atFrom = "expected" /\ OldIsBack(j, op)
        \/ atTo = "expected" /\ atFrom = "other" /\ NewIsThere(j, op)

\* The operations that a loop forward over them has not passed yet.
Open(operations) == {n \in DOMAIN operations : ForwardVerdict(operations[n]) # "skip"}
FirstOpen(operations) == operations[Min(Open(operations))]

----------------------------------------------------------------------------
(* Writing the journal                                                     *)

Goto(next) == pc' = next /\ UNCHANGED <<command, then, mem>>
Idle == command' = "none" /\ pc' = "idle" /\ then' = "idle" /\ mem' = NoJournal

\* Leave the journal in memory as `record` and write it before going on.
Persist(record, next) ==
    mem' = record /\ pc' = "persist" /\ then' = next

Refuse(reason) ==
    /\ Idle
    /\ refusal' = reason
    /\ UNCHANGED <<directory, history>>

KeyPath == <<KeyOf(mem.id)>>
JournalPath == <<JournalOf(mem.id)>>
TemporaryPath == <<TemporaryOf(mem.id)>>

\* restoreJournalKey creates the key file and then writes its 32 bytes.
CreateKey ==
    /\ pc = "persist" /\ Observed(KeyPath, Whole) # "expected"
    /\ disk' = Put(KeyPath, IF Present(KeyPath) THEN Whole ELSE Torn)
    /\ UNCHANGED <<dirs, process, refusal, history>>

WriteTemporary ==
    /\ pc = "persist" /\ Observed(KeyPath, Whole) = "expected"
    /\ disk' = Put(TemporaryPath, Unread)
    /\ Goto("publishJournal")
    /\ UNCHANGED <<dirs, refusal, history>>

PublishJournal ==
    /\ pc = "publishJournal"
    /\ disk' = [q \in (DOMAIN disk \ {TemporaryPath}) \cup {JournalPath} |->
                   IF q = JournalPath THEN mem ELSE disk[q]]
    /\ Goto(then)
    /\ UNCHANGED <<dirs, refusal, history>>

----------------------------------------------------------------------------
(* The restore, up to its commit point                                     *)

\* The backup has been authenticated; whatever is pending is taken over.
Begin(id) ==
    /\ pc = "idle"
    /\ begun < MaxRestores /\ id = begun + 1
    /\ command' = "restore"
    /\ Persist(Journal(id), "mkdir")
    /\ begun' = id
    /\ refusal' = "none"
    /\ UNCHANGED <<directory, current>>

\* Mutant: without prepareEvidenceParents.
WantedDirectoriesOwn(j) == <<<<StagingOf(j.id)>>, <<PreviousOf(j.id)>>>>

\* The two directories, and in the second those of pending transactions.
WantedDirectories(j) ==
    <<<<StagingOf(j.id)>>, <<PreviousOf(j.id)>>>>
        \o [n \in DOMAIN j.directories |-> Kept(j, j.directories[n])]

MakeDirectory ==
    LET missing == {n \in DOMAIN WantedDirectories(mem) : WantedDirectories(mem)[n] \notin dirs}
    IN  /\ pc = "mkdir" /\ missing # {}
        /\ dirs' = dirs \cup {WantedDirectories(mem)[Min(missing)]}
        /\ UNCHANGED <<disk, process, refusal, history>>

\* The vault replaced is healthy or damaged; over a pending transaction it
\* is not looked at and taken to be damaged.
Classify ==
    /\ pc = "mkdir" /\ ToSet(WantedDirectories(mem)) \subseteq dirs
    /\ \E branch \in {"healthy", "damaged"} :
          /\ OverPending(mem) => branch = "damaged"
          /\ Persist([mem EXCEPT !.branch = branch], "stage")
    /\ UNCHANGED <<directory, command, refusal, history>>

Stage ==
    LET missing == {n \in Managed : ~Present(Staged(mem, n))}
    IN  /\ pc = "stage" /\ missing # {}
        /\ disk' = Put(Staged(mem, Min(missing)), Image(mem.id))
        /\ UNCHANGED <<dirs, process, refusal, history>>

Seal ==
    /\ pc = "stage" /\ \A n \in Managed : Present(Staged(mem, n))
    /\ Persist([mem EXCEPT !.phase = "publishing"], "preserve")
    /\ UNCHANGED <<directory, command, refusal, history>>

\* A step of the loop over the operations, or its end.
Preserve ==
    LET op == FirstOpen(Preservations(mem))
    IN  /\ pc = "preserve"
        /\ IF Open(Preservations(mem)) = {} THEN Goto("publish") /\ UNCHANGED disk
           ELSE /\ ForwardVerdict(op) = "move"
                /\ Rename(op.from, op.to)
                /\ Persist(mem, "preserve") /\ UNCHANGED command
        /\ UNCHANGED <<dirs, refusal, history>>

Publish ==
    LET op == FirstOpen(Publications(mem))
    IN  /\ pc = "publish"
        /\ IF Open(Publications(mem)) = {}
           THEN Persist([mem EXCEPT !.phase = "committed"], "finish") /\ UNCHANGED disk
           ELSE /\ ForwardVerdict(op) = "move"
                /\ Rename(op.from, op.to)
                /\ Persist(mem, "publish")
        /\ UNCHANGED <<dirs, command, refusal, history>>

----------------------------------------------------------------------------
(* Committed, rolled back, cleaned up                                      *)

BeginCleanup(phase) == Persist([mem EXCEPT !.phase = phase], "cleanup")

\* finishCommittedJournal; nothing undoes the restore from here on.
Finish ==
    /\ pc = "finish"
    /\ IF \A n \in Managed : Observed(<<File(n)>>, Image(mem.id)) = "expected"
       THEN /\ BeginCleanup("committed-cleanup")
            /\ command' = "settle"
            /\ current' = mem.id
            /\ UNCHANGED <<directory, refusal, begun>>
       ELSE Refuse("unknown-entry")

RollbackStaging ==
    /\ pc = "rollback" /\ mem.phase = "staging"
    /\ BeginCleanup("staging-cleanup")
    /\ UNCHANGED <<directory, command, refusal, history>>

Operations(j) == Preservations(j) \o Publications(j)

Rollback ==
    /\ pc = "rollback" /\ mem.phase # "staging"
    /\ \A op \in ToSet(Operations(mem)) : Reversible(mem, op)
    /\ Persist([mem EXCEPT !.phase = "rollback"], "reverse")
    /\ UNCHANGED <<directory, command, refusal, history>>

RollbackRefused ==
    /\ pc = "rollback" /\ mem.phase # "staging"
    /\ \E op \in ToSet(Operations(mem)) : ~Reversible(mem, op)
    /\ Refuse("mixed-state")

\* The operations still to reverse.
ToReverse ==
    {n \in DOMAIN Operations(mem) : BackwardVerdict(mem, Operations(mem)[n]) # "skip"}

\* Mutant: reversed in the order they were done.
FirstToReverse == Operations(mem)[Min(ToReverse)]

\* They are reversed from the last to the first.
LastToReverse == Operations(mem)[Max(ToReverse)]

ReverseOperation ==
    /\ pc = "reverse" /\ ToReverse # {}
    /\ IF BackwardVerdict(mem, LastToReverse) = "move"
       THEN /\ Rename(LastToReverse.to, LastToReverse.from)
            /\ Persist(mem, "reverse")
            /\ UNCHANGED <<dirs, command, refusal, history>>
       ELSE Refuse("unknown-entry")

ReverseDone ==
    /\ pc = "reverse" /\ ToReverse = {}
    /\ BeginCleanup("rollback-cleanup")
    /\ UNCHANGED <<directory, command, refusal, history>>

\* cleanupOperations: the files each cleanup unlinks, with their content.
Doomed(j) ==
    [n \in Managed |-> [path |-> Staged(j, n), content |-> Image(j.id)]]
        \o IF j.phase = "committed-cleanup" /\ j.branch = "healthy"
           THEN [n \in DOMAIN j.previous |->
                    [j.previous[n] EXCEPT !.path = Kept(j, j.previous[n].path)]]
           ELSE <<>>

CleanUp ==
    LET left == {n \in DOMAIN Doomed(mem) : Present(Doomed(mem)[n].path)}
        file == Doomed(mem)[Min(left)]
    IN  /\ pc = "cleanup"
        /\ CASE left = {} ->
                  Goto("rmdir") /\ UNCHANGED <<directory, refusal, history>>
             [] left # {} /\ (mem.phase = "staging-cleanup" \/ disk[file.path] = file.content) ->
                  /\ Unlink(file.path)
                  /\ Persist(mem, "cleanup")
                  /\ UNCHANGED <<dirs, command, refusal, history>>
             [] OTHER -> Refuse("unknown-entry")

\* The directories finishCleanupJournal removes, from the last to the first:
\* each after what it holds.
DoomedDirectories(j) ==
    (IF j.phase \in UndonePhases \/ j.branch = "healthy"
     THEN <<<<PreviousOf(j.id)>>>> ELSE <<>>)
        \o <<<<StagingOf(j.id)>>>>
        \o IF j.phase \in UndonePhases
           THEN [n \in DOMAIN j.directories |-> Kept(j, j.directories[n])]
           ELSE j.directories

Holds(d) == {p \in DOMAIN disk \cup dirs : IsStrictPrefix(d, p)}

\* Mutant: the directories are left behind.
RemoveDirectoryNone ==
    /\ pc = "rmdir"
    /\ Goto("unlinkJournal")
    /\ UNCHANGED <<directory, refusal, history>>

RemoveDirectory ==
    LET left == {n \in DOMAIN DoomedDirectories(mem) : DoomedDirectories(mem)[n] \in dirs}
        last == DoomedDirectories(mem)[Max(left)]
    IN  /\ pc = "rmdir"
        /\ CASE left = {} -> Goto("unlinkJournal") /\ UNCHANGED <<disk, dirs, refusal, history>>
             [] left # {} /\ Holds(last) = {} ->
                  /\ dirs' = dirs \ {last}
                  /\ UNCHANGED <<disk, process, refusal, history>>
             [] OTHER -> Refuse("unknown-entry")

UnlinkJournal ==
    /\ pc = "unlinkJournal"
    /\ Unlink(JournalPath)
    /\ Goto("unlinkKey")
    /\ UNCHANGED <<dirs, refusal, history>>

UnlinkKey ==
    /\ pc = "unlinkKey"
    /\ Unlink(KeyPath)
    /\ Idle
    /\ UNCHANGED <<dirs, refusal, history>>

----------------------------------------------------------------------------
(* Errors, deaths and recovery                                             *)

\* A step of the restore throws: the catch block rolls back the journal on
\* disk or, with none there yet, removes the key; the failed write of a
\* journal has removed its temporary.
Fail ==
    /\ command = "restore"
    /\ IF Present(JournalPath)
       THEN /\ disk' = [q \in DOMAIN disk \ {TemporaryPath} |-> disk[q]]
            /\ command' = "settle" /\ pc' = "rollback" /\ mem' = disk[JournalPath]
            /\ then' = "idle"
       ELSE /\ disk' = [q \in DOMAIN disk \ {TemporaryPath, KeyPath} |-> disk[q]]
            /\ Idle
    /\ UNCHANGED <<dirs, refusal, history>>

Die ==
    /\ pc # "idle"
    /\ Idle
    /\ UNCHANGED <<directory, refusal, history>>

\* recoverInterruptedManagedRestore, at the start of the next command.
StartRecovery ==
    /\ pc = "idle" /\ Pending
    /\ IF Cardinality(Journals) > 1 THEN Refuse("multiple")
       ELSE /\ command' = "settle" /\ pc' = "sweep" /\ UNCHANGED <<then, mem>>
            /\ refusal' = "none"
            /\ UNCHANGED <<directory, history>>

\* Mutant: keys are swept although there is a journal.
SweepKeys ==
    /\ pc = "sweep"
    /\ \E p \in DOMAIN disk :
          /\ Len(p) = 1
          /\ p[1][1] = "temporary" \/ (p[1][1] = "key" /\ disk[p] = Whole)
          /\ Unlink(p)
    /\ UNCHANGED <<dirs, process, refusal, history>>

\* Temporaries first, whosever they are; without a journal, then the keys.
Sweep ==
    /\ pc = "sweep"
    /\ \E p \in DOMAIN disk :
          /\ Len(p) = 1
          /\ \/ p[1][1] = "temporary"
             \/ /\ p[1][1] = "key" /\ disk[p] = Whole
                /\ Journals = {} /\ Listed("temporary") = {}
          /\ Unlink(p)
    /\ UNCHANGED <<dirs, process, refusal, history>>

SweepRefused ==
    /\ pc = "sweep" /\ Journals = {} /\ Listed("temporary") = {}
    /\ \E i \in Listed("key") : disk[<<KeyOf(i)>>] = Torn
    /\ Refuse("torn-key")

SweepDone ==
    /\ pc = "sweep" /\ ~Pending
    /\ Idle
    /\ UNCHANGED <<directory, refusal, history>>

\* Mutant: a journal of a committed cleanup is rolled back.
ReadJournalForgets ==
    /\ pc = "sweep" /\ Listed("temporary") = {}
    /\ \E i \in Journals :
          /\ mem' = disk[<<JournalOf(i)>>]
          /\ pc' = CASE mem'.phase = "committed" -> "finish"
                     [] mem'.phase \in UndonePhases -> "cleanup"
                     [] OTHER -> "rollback"
    /\ UNCHANGED <<directory, command, then, refusal, history>>

\* readRestoreJournal authenticates it with the key.
ReadJournal ==
    /\ pc = "sweep" /\ Listed("temporary") = {}
    /\ \E i \in Journals :
          IF Observed(<<KeyOf(i)>>, Whole) = "expected"
          THEN /\ mem' = disk[<<JournalOf(i)>>]
               /\ pc' = CASE mem'.phase = "committed" -> "finish"
                          [] mem'.phase \in CleanupPhases -> "cleanup"
                          [] OTHER -> "rollback"
               /\ UNCHANGED <<directory, command, then, refusal, history>>
          ELSE Refuse("unreadable")

----------------------------------------------------------------------------
RestoreStep ==
    \/ CreateKey \/ WriteTemporary \/ PublishJournal
    \/ MakeDirectory \/ Classify \/ Stage \/ Seal \/ Preserve \/ Publish

SettleStep ==
    \/ Finish
    \/ RollbackStaging \/ Rollback \/ RollbackRefused
    \/ ReverseOperation \/ ReverseDone
    \/ CleanUp \/ RemoveDirectory \/ UnlinkJournal \/ UnlinkKey

RecoveryStep ==
    \/ StartRecovery \/ Sweep \/ SweepRefused \/ SweepDone
    \/ ReadJournal

Next ==
    \/ RestoreStep \/ SettleStep \/ RecoveryStep
    \/ \E id \in 1..MaxRestores : Begin(id)
    \/ Fail \/ Die

Spec == Init /\ [][Next]_vars

----------------------------------------------------------------------------
(* Properties                                                              *)

(* No operation moves a file into a directory that is not there: the ones  *)
(* made for the evidence (recovery.ts:322) are enough at every depth, and  *)
(* none is removed while a rollback may still need it.                     *)
TreeOK ==
    /\ \A p \in DOMAIN disk \cup dirs : Len(p) > 1 => Front(p) \in dirs
    /\ command \in {"none", "restore", "settle"}
    /\ refusal \in {"none", "multiple", "mixed-state", "torn-key", "unreadable",
                   "unknown-entry"}
    /\ current \in 0..begun /\ mem.id \in 0..begun

(* Whatever restores were stacked, interrupted and undone, in whatever     *)
(* order: without a journal in the directory the vault is one image, that  *)
(* of the last restore that passed its commit point.                       *)
VaultWhole ==
    Journals = {} => \A n \in Managed : Observed(<<File(n)>>, Image(current)) = "expected"

\* The pending restore that began last.
Latest == CHOOSE i \in Journals : \A k \in Journals : k <= i

OfTemporary(path) == path[1][1] = "temporary"

(* Until it commits everything a restore took over, the journals, keys and *)
(* directories of other transactions included, is where it was or where it *)
(* was moved to.  A temporary journal is not: the sweep takes it.          *)
OriginalsKept ==
    Journals # {} =>
        LET j == disk[<<JournalOf(Latest)>>]
        IN  j.phase # "committed-cleanup" =>
            \A e \in ToSet(j.previous) :
                \/ OfTemporary(e.path)
                \/ Observed(e.path, e.content) = "expected"
                \/ Observed(Kept(j, e.path), e.content) = "expected"

(* Recovery gives up for three reasons only: journals of several restores, *)
(* a torn key without a journal and, before it has moved anything, a       *)
(* temporary journal that the restore had listed and recovery has swept.   *)
(* It finds its journal authentic, committed files in place and no unknown *)
(* entry, and a restore every file where the inventory says.               *)
RefusalsExplained ==
    /\ refusal \notin {"unknown-entry", "unreadable"}
    /\ refusal = "mixed-state" /\ pc = "idle" =>
          /\ Journals = {Latest}
          /\ LET j == disk[<<JournalOf(Latest)>>]
             IN  \A op \in ToSet(Operations(j)) : Reversible(j, op) \/ OfTemporary(op.from)
    /\ pc = "preserve" => \A op \in ToSet(Preservations(mem)) : ForwardVerdict(op) # "stop"

(* A restore that is undone has put back all it took over, for the next    *)
(* transaction to be recovered as if it had not been; one that commits     *)
(* over a damaged vault keeps all of it as evidence, and as the last one   *)
(* begun leaves nothing pending but its own key.                           *)
SettledExactly ==
    [][pc = "unlinkJournal" /\ pc' = "unlinkKey" =>
         IF mem.phase \in UndonePhases
         THEN \A e \in ToSet(mem.previous) :
                 OfTemporary(e.path) \/ Observed(e.path, e.content) = "expected"
         ELSE /\ Journals' = {}
              /\ mem.id = begun => Listed("temporary")' = {} /\ Listed("key")' = {mem.id}
              /\ mem.branch = "damaged" =>
                    \A e \in ToSet(mem.previous) :
                       Observed(Kept(mem, e.path), e.content) = "expected"]_vars

(* When nothing is pending, a staging directory is left in the vault       *)
(* directory itself only if its journal is kept somewhere: as evidence,    *)
(* because a restore that took over the journal died before it took over   *)
(* the staging directory, which the next one then does not see.            *)
LeftoversExplained ==
    ~Pending /\ pc = "idle" =>
        \A d \in dirs : d[1][1] = "staging" =>
            \E p \in DOMAIN disk : Last(p) = <<"journal", d[1][2]>>
=============================================================================
