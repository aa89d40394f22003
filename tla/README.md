# Keyclasp: a verification project

Keyclasp keeps secrets in a *vault*: a directory with an SQLite database, a key
bundle, an authorization policy and, while something is going on, journals.
This directory holds TLA+ models of the parts of it that change the vault in
more than one step, TLC runs over small instances of them, and TLAPS proofs for
all instances.  Paths below are relative to the repository, and line numbers
are those of the source modelled.

## The system

| Component | State | Operations | Hard part |
|---|---|---|---|
| Managed restore (`src/recovery.ts`, `src/vault-files.ts`) | live files, `.restore-staging.<id>`, `.restore-previous.<id>`, journal, its temporary file and its key | restore, roll back, finish, clean up, recover | a crash between any two of some fifty primitives, an error anywhere, an SQLite client that ignores the lock |
| Key-bundle transition (`src/vault.ts`, `src/software/key-bundle.ts`) | `.keyclasp.key`, bundle binding in `vault_metadata`, `.custody-transaction.v1.json` | `passphrase set`, `passphrase rotate`, machine-key retirement, recovery | a file and a database changed together; generations reused |
| Custody and its sanitization (`src/vault.ts`) | key class and key of each record, the pending phase, what SQLite still holds | tighten, loosen, store, delete, sanitize | a cleanup in five steps, each of which may be the last; a key retired at most once |
| Policy commit (`src/policy.ts`) | document, anchor, pending file, policy anchor and seed in the database | init, migrate, change a rule, change the default, recover | two files and a database changed together, with the re-encryption of records |
| Lifecycle lock and dispatch (`src/lifecycle-lock.ts`, `src/cli.ts`) | the SQLite lock each process has on `.lifecycle.db`; whether work is unfinished | look, lock, look again, escalate, recover, dispatch, release | many processes; a look that is stale when the lock is granted |
| Initialization and upgrade of a vault (`src/vault.ts:1096-1221`, `:1462-1690`, `:1795-1983`) | key file, database, migration journal and its key, backups of both | init, storage upgrade, dual-key migration, recover | two migrations of a key file and a database, one with a journal and one with a mark |
| Emergency restore (`src/recovery.ts:289-329`) | directories of a pending transaction | restore over unfinished work | a transaction nested in another |
| Backup creation (`src/recovery.ts:870-973`) | a private directory | copy, authenticate, rename | a live vault while it is copied |
| Authorization rules (`src/policy.ts:417-446`) | none | evaluate | most specific rule wins |
| Secret records (`src/vault.ts:2137-2867`) | `secrets` table | set, get, delete, bulk delete, rename, resolve | a snapshot shown before it is acted on |
| Guarded run (`src/run.ts`) | child process and its group, what is held back of two streams, terminations under way | select, authorize, spawn, redact, relay signals, terminate, close | output split at any byte; timeouts against exits; a look at processes that do not stand still |
| Startup (`src/cli.ts:460-488`) | all of the above | five recoveries and two migrations in order | each over files the others use |
| Operator authentication (`src/biometric.ts`) | none | prompt, helper process | I/O |
| Native hardware core (`native/keyclasp-core`) | transaction file, recovery store | create, open, recover | not reached by the software vault |

Commands are processes.  Each looks for unfinished work, takes the lifecycle
lock in the mode it needs, recovers and migrates the vault if it holds the lock
exclusively, and is dispatched.  A restore is dispatched without recovery: it
replaces whatever is there.  Policy changes re-encrypt records in the database
transaction that commits them, and the tightening of a record leaves a pending
phase that sanitization completes, retiring the machine key through a
key-bundle transition.  A vault of an older release is upgraded by the first
command that finds it, and is left with a pending phase of the same kind.

Policy changes and renames hold the lifecycle lock alone.  `set`, `delete` and
`run` share it, and wait in the middle, for a value, a confirmation, the
operator or the child, so other such commands change records in between; what
they read of the policy stays true.  `run` hands the values it resolved to a
child it supervises until that ends or is terminated.  Interactions are calls
within one process, files and a database shared between processes, and, for a
run, pipes, signals and `/proc`.

## The modules

| Module | Models | Extends |
|---|---|---|
| `ManagedRestore` | `restoreManagedBackup` after authentication, `recoverInterruptedManagedRestore` | |
| `AtomicReplace` | what a restore promises: one replacement of one image | |
| `EmergencyRestore` | the same over what an earlier restore left pending, and the recovery of both | |
| `KeyBundleTransition` | `commitKeyBundleTransition`, `recoverInterruptedCustodyTransition` | |
| `CustodySanitization` | `transitionRecordCustody`, `completePendingCustodySanitization` | `KeyBundleTransition` |
| `PolicyCommit` | `commitPolicyDocument`, `recoverInterruptedPolicy` | |
| `LifecycleLock` | `acquireVaultLifecycleLock`, the head of `main` | |
| `AuthorizationRules` | `evaluateAuthorizationRules`, the change of a rule | |
| `SecretCommands` | `set`, `delete`, bulk delete, `rename`, `run` up to the child; record transitions of a policy change | `PolicyCommit`, `AuthorizationRules` |
| `SecretRedactor` | `createSecretRedactor` | |
| `GuardedRun` | `spawnGuarded`, `spawnRaw`, `terminateChildGroup`, `inspectLinuxProcessGroup` | `SecretRedactor` |
| `VaultUpgrade` | `initializeVault`, `completeVaultOpen`, `migrateLegacyVaultToDualKey`, `recoverInterruptedDualKeyMigration` | |
| `*Proofs` | theorems and proofs of the module named | the module, `TLAPS` |
| `MCManagedRestore` | the symmetry of contents, for TLC | `ManagedRestore`, `TLC` |
| `MCSecretCommands` | policies, scopes and symmetry, for TLC | `SecretCommands`, `TLC` |
| `MCGuardedRun` | secrets, texts and kinds of process, for TLC | `GuardedRun` |

Definitions marked *Mutant* are not part of the models.  Each is a plausible
mistake in the definition that follows it, and stands in `PROJECT.json` beside
the property that notices it.

### ManagedRestore

A vault is a function from file names to contents; a hash stands for the
content it is of.  `live`, `staging` and `previous` are the three places a file
can be in, `journal` what is on disk and `mem` what the process works on.  One
action is one primitive: a file created, filled, renamed or unlinked, a
directory made or removed, and the write of the journal in its three parts
(key file created, key written, temporary file written and renamed).
`reconcileFileOperation` appears as the operators `UnpublishVerdict` and
`UnpreserveVerdict` and as the guards of `Preserve` and `Publish`;
`assertRollbackOperationsReconciliable` as `Reversible`.  The order of two
operations of one kind is left open, which covers the order of the code.

The model leaves out the `completed` mark of an operation: every decision of
the code compares both endpoints.  A hash check and the rename after it are one
step, so a write of an external client between them is outside the model.  An
external client changes the content of `vault.db` and nothing else.  A crash is
both a dead process and a loss of power, because every mutation is followed by
the flush of what it changed.  A restore starts with no restore pending: that
one may, is `EmergencyRestore`.

`outcome` is what the command reported.  `restored` is a success, from the end
of the `try` block on: an error of the cleanup is only a warning then
(`src/recovery.ts:1302-1307`).  `failed` is the error that the catch block
throws, whether its rollback completed, refused or threw itself (`:1285-1301`).
Errors are `Fail`, a throw in the `try` block that the catch block follows, and
`GiveUp`, one in the catch block or in the cleanup; both end with the report.
`Crash` is the death of the process, without a report, and an error of a later
recovery, which is no report of the restore either.

One thing the code does is not what its caller would expect, and the outcome
`failed-after-commit` stands for it.  The commit journal may be renamed into
place and the flush behind it throw (`:460`).  The catch block then reads
`committed` back and undoes it, but if the first write of that rollback throws
too (`:626`), the command reports a failure while the disk says committed, and
the next start completes the restore (`:673`).  `ReportedOutcomeHolds` says
that a success is never undone, that a failure is never completed, and that this
one case, and no other, is completed and never undone: whoever sees a restore
fail may still find the backup restored after the next command.  (That a loss of
power takes the rename back whose flush failed is not modelled.)

### EmergencyRestore

`backup restore` is dispatched without recovery.  What an earlier restore left
behind it takes for files of the vault it replaces: journals, temporary
journals and keys, and all that is in the directories of a transaction whose
journal it finds (`pendingTransactionMaterial`).  All of it is listed in the
journal, moved below its own `.restore-previous.<id>`, where directories for it
have been made (`prepareEvidenceParents`), and put back by a rollback.  A third
restore may then find a transaction within a transaction.

Here the vault directory is a file system: `disk` is a function from paths to
contents, a path a sequence of names, `dirs` the directories, and the content of
a journal the journal.  `Inventory` is what `restoreManagedBackup` lists, in
the order of its operations; `ForwardVerdict` and `BackwardVerdict` are
`reconcileFileOperation` in its two directions, and a loop over operations is
the first one that is not passed over.  `mem` is the journal in memory, and
`Persist(record, next)` writes it in its three parts before the program goes on
at `next`.  `Fail` is the catch block, from any step; `Die` ends the process.
The history `current` names the restore that committed last.

What `ManagedRestore` has in detail is coarse here: a file is staged in one
step, backups differ from each other in every file, there are no external
clients, and what a cleanup finds gone is passed over without a write of the
journal.  Restores are numbered in the order of their names, which the code
draws at random, and the limit of sixteen nested directories is not reached.
A restore takes over every file in the directories of a transaction, also one
that `isAllowedTransactionLeaf` would refuse (`src/recovery.ts:278-306`), such
as a rollback journal of SQLite: the code throws there, so the model has more
behaviours, not fewer.

Two things the properties say are not what one would hope for.

- Recovery removes every temporary journal it finds (`src/recovery.ts:667`),
  also one that a dead restore had left and the pending one has listed among
  the files to put back.  If that one had not moved it yet, its rollback finds
  the file in neither place and refuses, at this and every later start, with no
  other program at work; only another emergency restore helps.  It is the
  `"mixed-state"` that `RefusalsExplained` allows for this reason alone, and
  contradicts the convergence quoted for `DeathsConverge` below.
- A restore that dies after it has moved the journal of the transaction below
  it, and before it has moved that one's files, leaves the two directories of
  that transaction without a journal beside them.  The next restore does not see
  them (`src/recovery.ts:310-318`), so when it commits they stay behind with a
  staged copy of the vault in them.  `LeftoversExplained` names this case, for
  the staging directory, which holds that copy;
  "recursively quarantines two interrupted transaction topologies on a third
  restore" (`tests/recovery.test.ts:930`) tests deaths at which it does not
  happen.

### KeyBundleTransition and CustodySanitization

`bundle` is the key file and `bound` the bundle the database binds by
generation, hash and key checks.  A bundle is a generation, a machine key and
an interactive wrapping.  `CustodySanitization` adds records and the pending
phase.  `residue` is where SQLite still holds machine ciphertext of a
tightened record: the WAL and the pages, free or not, of the database.
`exposed` are machine keys whose records were all tightened.  Besides vaults
that were initialized, `Init` has those that `VaultUpgrade` has just
upgraded.  A record is stored over with the class it has; that a hidden record
which a rename moved has another one than the policy gives it is followed in
`SecretCommands`.  One command at a time is modelled: `LifecycleLock` shows
why that is enough.  A process that dies, or a step that throws, is marked by
the refusal `"died"`.

### PolicyCommit

The anchor and the database stand for the document whose hash they hold.
`applied` is the policy the key classes of the records follow; it changes in
the database transaction only.  `InForce` is the policy the vault has once
what is interrupted is recovered.

### AuthorizationRules and SecretCommands

`Locked` is the loop of `evaluateAuthorizationRules` as a fold over the rules;
`MeansLocked` says the same without their order.

`SecretCommands` adds to `PolicyCommit` the records of the vault and the
commands that use them.  A record is a class and a seal: the place (project,
environment, name) and class that its ciphertext is bound to.  `ChangePolicy`
is `Mutate` of a policy that differs by the default or by one rule, with the
decision whether the interactive key is needed (`Unlocks`: always for a rule,
by the preview for a default); the transaction of the commit transitions the
records (`Custody`).  A shared command is a `job`: what it read before it
waited.  `StoreSecret`, `DeleteBulkIfUnchanged` and `ResolveAndSpawn` act on
that.  `Rename` has the four forms of `runRename`.  `Exclusive` and `Calm`
stand for what `LifecycleLock` establishes: an exclusive command is alone, and
no other runs on a vault with something to recover.  Names that begin with
`__` are `Hidden`: `listSecrets` leaves them out, and `set`, bulk delete and
`rename` do not.

Two things a reader might stumble over.  `deleteBulkIfUnchanged` compares
places, so a value that was replaced during the confirmation is deleted
unnoticed; the scope that must not change (`docs/commands.md:93`) is its set of
names.  Values are not in the model.  And after a rename has moved a hidden record to where
it has another class, `unlock --default` may need the interactive key without
having asked for it, because the record is tightened by the commit and only records to be
loosened are a reason to ask: `ChangeHasKeys` says so by its condition.

### SecretRedactor and GuardedRun

The text of a stream is chosen beforehand, `written` and `read` say how far the
processes and Keyclasp are, `flushed` how far the output is forwarded, so that
what `createSecretRedactor` holds back is the text between `flushed` and
`read`.  `Data` is one event with a chunk of any length and `CloseClean`,
`CloseLeaking` and `CloseAfterLeak` the close handler with the flush of both
redactors.  The decoder may hold one character back whose bytes are incomplete:
that is why `read` may end one character short at the close.

A process is in a state and of a kind, a set of traits: in the group of the
child, has its pipes, can be signalled by the user, exits when asked to.
`Terminate` is the call of `terminateChildGroup` by `handleLeak` or by the
signal relay; both may be under way, and Node's promise of each is its phase
`term`.  A look at the group is several steps: the list of `/proc` (`Look`),
the state of one process at a time (`ReadStat`), the verdict (`EndScan`);
processes fork, exit and are reaped in between, while Keyclasp, one thread,
does nothing else (`scan`).  SIGKILL is part of the look that is too late
(`NotYet`).

Both signals go through `signalChildTree`.  When nothing in the group can be
signalled it falls back to `child.kill` (`src/run.ts:588`); if the child has
not been reaped Node answers a refusal with an `error` event, and that handler
(`:525-528`, `:452-455`) settles the run at once, whatever was found before
(`ChildRefuses`).  So a child whose user is not Keyclasp's, with nobody else
in its group, ends the run as an error, exit status 1, `Failed to start child
command (EPERM).` (`src/run.ts:427`), and lives on. `docs/security.md:42`
promises exit status 2 after a leak and a report that the termination could not
be confirmed; neither is given in this case. `CleanExitIsComplete` names it as
the only one in which a leak is not reported.

That a pid is used again, and the look at a group on systems without `/proc`
(where the answer of `kill` decides), are outside the model.

### LifecycleLock

`unfinished` is one flag for everything `hasPendingExclusiveVaultWork` looks
for.  SQLite's lock states (SHARED, PENDING, EXCLUSIVE) are external to the
repository and modelled as its use of them needs: `Readable`, `NoWriter` and
`Alone`.  The busy timeout of the code is 24 days, and no timeout is modelled.

### VaultUpgrade

A key file is a format, a vault identifier and, for a bundle, what was drawn at
random for it.  The database is described by the key file it was last written
with, so `Opens`, which stands for `validateDatabaseStateForKeyFile` and
`validateBundleAgainstDatabase`, compares the two.  Each SQLite transaction is
one step, except that the key file is marked within the transaction of the
storage upgrade (`MarkPending`) and before its commit (`CommitUpgrade`).

A process may die between any two steps.  Loss of power is left out: the
journal key, the key file of the storage upgrade and the last unlink of the
journal are not flushed, so what a disk keeps of them is not decided by this
code.  `completeVaultOpen` has a branch that finishes a storage upgrade whose
key file is marked pending; it is not modelled, because no command reaches it
(see `UpgradeIsRetried` below).

## What is checked

| Run | Instance | Shows |
|---|---|---|
| `ManagedRestore` | 3 names, 2 contents; 2.9 million states | `OriginalRecoverable`, `AllOrNothing`, `ReportedOutcomeHolds`, `RefusalsExplained`, `NothingLeftBehind`, `EvidenceKept`, and `Implements`: `AtomicReplace` under a refinement mapping |
| `ManagedRestoreLiveness` | 2 names, 1 content; 8 thousand | `Converges` |
| `EmergencyRestore` | a vault of one file, 3 restores; 2.0 million | `VaultWhole`, `OriginalsKept`, `SettledExactly`, `RefusalsExplained`, `LeftoversExplained`, `TreeOK` |
| `CustodySanitization` | 4 keys, 2 wrappings, 3 records, 4 generations; 273 thousand | `MachineRecordsOpen`, `ClearedMeansSanitized`, `RetiredOnce`, `SanitizationCompletes`, and, of the bundle transitions in it, that file and database agree or recovery can decide: `CommitPointDecides`, `BundlesSucceed` |
| `SecretCommands` | 3 policies, 8 places, 2 records at a time, 2 shared commands, 2 keys, 3 generations; 469 thousand | policy and database never contradict each other: `RecoveryDecides`, `ReportedChangeHolds`, `ChangesAtCommit`; records do what the policy says and commands what was asked: `RecordsFollowPolicy`, `RecordsOpen`, `RunsAreAuthorized`, `ChangeHasKeys`, `BulkDeletesWhatWasConfirmed`; `EvaluationMeansRules` |
| `GuardedRun` | a child and a descendant of 5 kinds, 3 characters on two streams; 276 thousand | `NoSecretForwarded`, `CleanExitIsComplete`, `ConfirmedMeansListedDead`, `TerminationEnds` |
| `LifecycleLock` | 3 processes; 75 thousand | `Exclusion`, `DispatchedOnRecoveredVault`, `WriterIsServed` |
| `VaultUpgrade` | 2 identifiers, 2 draws; 299 | `RecoveryDecides` (with `KeyOpensDatabase`), `BackupsOpen`, `MutationBackedUp`, `UpgradeCompletes` |

Type invariants, `CustodyFollowsPolicy` (of which `RecordsFollowPolicy` is the
concrete form) and `SilentAfterLeak` are proved for every instance and not run
again; only the run of `EmergencyRestore` has one (`TreeOK`), because the shape
of the tree is itself a question there.

Bounds.  Files interact in pairs at most (a database and the key file that
opens it), and a third, the WAL, is one that a backup never holds: a name that
is only preserved.  Two contents let old and new be equal or not.  The
liveness run of the restore has two names and one content: whether a recovery
ends depends on which files are where, and equal contents are the case where
that is hardest to tell.  Three restores are a transaction within one within
another, which is where the directories of the innermost are forgotten; of the
vault itself one file is enough there, since journals, keys and staged files
are moved beside it and in order.  Three processes are the two that meet and the one
they wait for.  Four generations are two transitions after a rolled-back one;
three generations of a policy are a change after a migration.  Three records
and four keys are a record of each class, one that changes, and a key for each
generation.  Two draws are the bundle of an attempt that was undone and that of
the next, and two identifiers do the same for the storage upgrade.

The three policies of `SecretCommands` are one change apart, of the default or
of a rule, and have rules of every specificity and two that disagree.  A
property of a bulk delete or a rename is about two records at most: one that
was seen and one that appears, or one that moves and one in its way.  Two
shared commands are the one that waits and the one that changes what it read.
`Scopes` bounds the scope shared commands are given, and so the places they
fill; renames then move records to all others.  The seed of a vault with a
policy is fixed at the start, since nothing looks at it.  `GuardedRun` has texts that
complete a secret, that begin one and stop, and a secret over the two streams,
which is none; a child and a descendant are the pair of one that forks and one
that is forked.  Its five kinds lack one trait each, or none.

Symmetry is used over contents of files, over keys and over shared commands,
which are only compared, in runs without liveness properties.
`CHECK_DEADLOCK FALSE` stands where `MaxGeneration` or `MaxRestores` ends a
behaviour and where the run of a child has ended.

Fairness.  `Converges` assumes that a started process goes on and that the
owner of a blocked vault runs another command; it excuses behaviours in which
processes crash for ever.  `SanitizationCompletes` assumes the same of
vaults with interactive records, because the others can be stuck (see below),
and excuses database transactions that fail for ever.  `UpgradeCompletes`
assumes it too and excuses the two places where a start gives up: the pending
mark (see below) and a torn journal key.  `WriterIsServed` assumes that a
command that can go on does and that a dispatched one ends: the code makes the
same assumption (`src/lifecycle-lock.ts:24-26`).

`TerminationEnds` assumes what the event loop of Node gives: between two looks
at the group, 20 milliseconds apart, the events that are due are served, so
both an event and a look that are possible again and again happen (strong
fairness: the look under way disables the other); a look that has begun ends;
timers expire; a process that obeys SIGTERM exits.  It does not assume that
anything else exits, or that init reaps.  It excuses runs that a process keeps
open that the termination cannot reach: then `close` does not fire, and the
failure is not reported either (`docs/security.md:42` names such descendants).
A child that cannot be signalled is such a process only if its group has had
another that can be: without one the run must end, as an error.

### Divergences found

Each is a run that ends in a violation of what the repository says itself.

- `DeathsConverge`: `docs/architecture/software-vault-lifecycle.md:33` says that
  repeated process deaths converge.  A death between the creation of the journal
  key file and its 32 bytes leaves a vault that every later start refuses
  (`src/recovery.ts:211`, `:659`); so does one while SQLite leaves WAL mode in
  the classification copy, which leaves `.classification-vault.db-journal`, a
  file that cleanup does not know (`src/vault-files.ts:138`,
  `src/recovery.ts:46`, `:531`).  TLC prints the first it finds.
- `MachineOnlyNeedsNoUnlock`: line 39 of that document says that machine-only
  inventories are sanitized without unlock.  An enrolled vault with machine
  records only is refused sanitization at every start, because the final
  validation asks for the interactive key (`src/vault.ts:2492`); one without
  records is refused for want of a passphrase that startup does not ask for
  (`src/vault.ts:2447-2455`, `src/cli.ts:483`).
- `UpgradeIsRetried`: a death after the key file was marked migration-pending
  leaves a vault that no later start upgrades: `recoverAndMigrateVault` calls
  `migrateLegacyVaultToDualKey` first, which throws for such a key file
  (`src/vault.ts:1578-1580`).  The test "retries safely after an interruption"
  (`tests/vault-format.test.ts:208`) calls `unlockVault` itself.
- `RenameKeepsAuthorization`: line 185 of
  `docs/plans/2026-08-23-001-software-beta-and-optional-hardware-mode-plan.md`
  says that every moved secret keeps its authorization.  Renames check those
  that `listSecrets` returns and move all, those whose name begins with `__`
  included (`src/cli.ts:375`, `src/vault.ts:2586`).

`ConfirmedMeansListedDead` has a condition that a reader of
`docs/plans/2026-09-05-security-production-readiness-plan.md:198` ("leaves no
child or descendant running") should know of: a process that forks after
`/proc` was listed and is a zombie when its own state is read makes the group
look dead (`src/run.ts:635-660`), and a run ends with the new process alive.

## What is proved

For all values of the constants, with TLAPS:

| Module | Theorems |
|---|---|
| `ManagedRestoreProofs` | `RestoreTypeCorrect`, `RestoreRecoverable`, `RestoreAllOrNothing`, `RestoreOutcomeHolds`, `RestoreRefusals`, `RestoreLeavesNothing`, `RestoreKeepsEvidence`, `RestoreImplements` |
| `EmergencyRestoreProofs` | `TreeStands`, `VaultStaysWhole`, `OriginalsStayReachable`, `RefusalsAreExplained`, `LeftoversAreExplained`, `SettlesExactly` |
| `PolicyCommitProofs` | `PolicyTypes`, `PolicyIsReadable`, `PolicyRecoverable`, `PolicyCustody`, `PolicyReport`, `PolicyCommitPoint` |
| `CustodySanitizationProofs` | of the bundle: `BundleTypeCorrect`, `BundleAgreement`, `BundleCommitPoint`, `BundleSuccession`; of custody: `CustodyTypeCorrect`, `CustodyRecordsOpen`, `CustodySanitized` (from `CustodyCleared` and `CustodyRetired`), `CustodyRetiredOnce`, `CustodyUsesBundle` |
| `SecretCommandsProofs` | `ListedRecordsFollow`, `AllRecordsOpen`, `RunsStayAuthorized`, `BulkDeletesConfirmed`, `CommandsChangeProperly`, `CommandsTypeCorrect`, `RulesMeanWhatTheySay`, `ChangesHaveTheirKeys` |
| `GuardedRunProofs` | `TypeCorrect`, `NeverForwarded`, `CompleteAtExit`, `SilentAfter`, `ConfirmedIsDead` |
| `LifecycleLockProofs` | `LockTypes`, `LockExclusion`, `LockRecoversFirst` |
| `VaultUpgradeProofs` | `UpgradeTypeCorrect`, `UpgradeKeyOpens`, `UpgradeRecoveryDecides`, `UpgradeBackupsOpen`, `UpgradeBacksUp` |

Each rests on an inductive invariant.  For the restore it says where every file
is at every program point.  `AllOrNothing` alone is not inductive: that the
rollback puts everything back needs to know that a file whose original is
neither preserved nor in place cannot exist (`OriginalRecoverable`), that what
the process has in memory is the journal on disk or its successor, and that the
phase on disk is the one the program point works in.  The proof has one step
per action and, for the steps that move a file, one case per file.

`RestoreImplements` is the refinement of `AtomicReplace`, in two steps over
that invariant.  While the outcome is open, the vault that recovery would
leave (`RecoveredImage`) does not change, whatever file is moved: every
original is in place or preserved.  At the commit point it becomes the target,
and after it no step moves a live file.  What was reported is fixed to that
image by `OutcomeData`: after a success, or a failure over a commit journal
already on disk, there is no journal that would be rolled back, and after any
other failure none that would be completed, also where the catch block refused
or threw.  Three small additions carry the other theorems: nothing of a
transaction is there before its journal or after it (`ResidueInv`); as long as
no external client has written, a journal that moves files records exactly what
each was and is to be, so a state is called mixed for that reason only
(`AgreementInv`); and the process agrees with the journal on whether the vault
it replaces was damaged, in which case all of it stays preserved once committed
(`EvidenceInv`).

For restores stacked on each other the invariant cannot say where every file is
by naming the places: how deep an evidence directory lies depends on how often
a restore was begun over one that was not finished.  It has a history instead.
`Inv` says that for every restore begun there is a directory it began over
(`b`), itself one that earlier restores can have left (`HistoryOK`), and that

- every journal, wherever it was moved to, records just what there was to take
  over in the directory its restore began over (`RecordsOK`);
- the restore begun last whose journal is in the vault directory has come a
  certain way over that directory (`Progress`): while its phase is staging
  nothing was moved; while it exchanges files each is in its place, in the
  evidence, or a temporary that was swept; once it is committed all are in
  the evidence.  Whatever it has not taken over is unchanged (`Frame`);
- the process has done what the steps before the present one do (`PhaseAt`).

The step that needs the history is the unlink of the journal.  Undone, a
restore has put back all that it took over, so the directory is again the one
it began over but for temporary journals and for keys of restores begun since
(`Alike`), and all that held of that one holds again: of the next transaction
to be recovered, and of the image when there is none.  Committed, it has taken
every other journal with it.  Without the history the first case could not be
proved, because nothing in the state says what the outermost journal's restore
had found.  The number of restores and of managed files is any number; the
depth has no bound.  So that the prover can follow, the model says "the first operation
that is not passed over" with a set of indexes and its least element.

For the bundle, the policy and the lock the invariants add what each program
point knows about the files or locks already written or held.

The custody of records adds an argument over several commands.  While a phase
is pending no record changes, because only startup runs, so the inventory the
cleanup began with is the one it ends with.  A machine key that was exposed is
still due for retirement as long as it is bound, a journal never brings one
back, and the generation the phase recorded tells a repeated cleanup whether
the retirement has happened.  `CustodyUsesBundle` shows that every step is one
of the key-bundle transition or leaves its state alone, so that the theorems of
the bundle, which stand first in the same module, hold of the composition.

For the commands, `CommandsChangeProperly` shows that they change the policy
by the steps of `PolicyCommit` only, so that its invariant holds of the
composition: what is in force changes in the database transaction, and there
the records change with it.  What a job has read stays true because every
change of policy needs all jobs to be idle.  That is the whole argument for
`set` and `run`; a rename needs, besides, that no two records go to one place.
For the records the policies are any set: what a rule means is not used, only
that two evaluations under one policy agree.

`RulesMeanWhatTheySay` is about the loop of `evaluateAuthorizationRules`, for any
number of rules.  Its invariant (`LoopInv`) is that the state after n rounds is
the highest specificity that matched so far and whether one of the rules that
have it locks; it is proved by the least n at which it would fail
(`LeastNumber`, from the library's well-founded induction), which needs no
operator parameter.  That the recursive function has a value at every n is
proved in the same way (`RoundsAre`).  `ChangesHaveTheirKeys` rests on it: a
change that was previewed as needing no key puts another default than the
interactive one under the same rules, so what it locks was locked before, and
no record changes between preview and commit, because the command is alone
(`KeysInv`).

For the guarded run the invariant is about what is held back: the text between
`flushed` and `read` is as long as the longest beginning of a secret that the
text read so far ends with, so a secret that is completed later starts at or
after `flushed`.  Where a match would start earlier, its beginning would have
been a longer carry.  At the close nothing is left over: all is forwarded and
matches nothing, or a leak is recorded.  That a leak is also reported needs
that the outcome comes last: no stream, leak or termination changes after it,
and a child that refused a signal still does (`OutcomeInv`).  For the look at
the group it says that a live member not yet read is in `left`, or was forked
since the list was made (`missed`).

For the upgrade the invariant says that the journal holds both versions of the
key file and the database is of one of them, that a bundle never opens a backup
(so the key file it replaces must be backed up, and is), and what each program
point has already written.

The assumptions are those of the modules: `RestoreAssumption` (the managed
names are among the files, and no content is the mark of an absent file),
`SizeAssumption` (there is a number of managed files),
`KeyBundleAssumption` and `PolicyAssumption` (`None` is none of the values it
stands beside), `UpgradeAssumption` (`None` is no journal),
`CommandsAssumption` (an open part of a rule is no project, environment or
name; a default is one of three and the rules of a policy are a sequence of
rules), `RedactorAssumption` (secrets are strings and
the shortest that is looked for has a character) and `GuardedRunAssumption`.

Model-checked only: the liveness properties (`Converges`,
`SanitizationCompletes`, `WriterIsServed`, `UpgradeCompletes`,
`TerminationEnds`), which are beyond the prover.  Every invariant and every
other action property of a passing run is a theorem.

## Plan

What is left, in this order.

1. `VaultStartup`: the five recoveries in the order of `recoverAndMigrateVault`,
   composed over the files they share, with an interrupted initialization and
   the upgrade of a vault that has a pending policy.
2. `KeyTransaction`: the native core's creation and recovery of a key.

## Not modelled

Cryptography, encodings and parsing (a message authentication code is taken to
work); permission bits and ACLs; prompts, the biometric helper and output
wording; the audit log, whose failure changes nothing else; the release
scripts; the creation of a backup, whose only concurrency is SQLite's own; the
C and Swift backends of the native core, which are calls to the operating
system.
