---------------------------- MODULE VaultUpgrade ----------------------------
(***************************************************************************)
(* How a vault comes into being (initializeVault) and how one of an older  *)
(* release is upgraded at startup, in two migrations of the key file and   *)
(* the database together (vault.ts).                                       *)
(*                                                                         *)
(*   - The storage upgrade gives records identities.  The key file is      *)
(*     rewritten twice: marked migration-pending with the vault identifier *)
(*     inside the database transaction, and active after it.               *)
(*   - The dual-key migration replaces the one key by a bundle of two.  A  *)
(*     journal holds the old and the new key file, and the format of the   *)
(*     database is the commit point.                                       *)
(*                                                                         *)
(* Each database change is one SQLite transaction, and each key file is    *)
(* renamed into place.  One process is modelled, the one that holds the    *)
(* lifecycle lock exclusively.  It may die anywhere; loss of power is left *)
(* out, because these migrations do not flush all that they write.         *)
(***************************************************************************)
CONSTANTS
    Ids,    \* vault identifiers, drawn at random
    Draws,  \* what is drawn at random for a bundle: fresh keys and salts
    None

VARIABLES
    keyFile,            \* .keyclasp.key
    database,           \* vault.db
    journal,            \* .dual-key-migration.v1.json
    journalKey,         \* .dual-key-migration.key
    keyBackups,         \* .keyclasp.key.<n>.bak
    databaseBackups,    \* vault.db.v<n>.<pid>.<random>.bak
    pc,
    refusal             \* why the last start gave up

disk == <<keyFile, database, journal, journalKey, keyBackups, databaseBackups>>
backups == <<keyBackups, databaseBackups>>
vars == <<disk, pc, refusal>>

Sealed(format, id, draw) == [format |-> format, id |-> id, draw |-> draw]

Absent == Sealed("absent", None, None)
V3 == Sealed("v3", None, None)
Pending(id) == Sealed("pending", id, None)
Single(id) == Sealed("single", id, None)
Dual(id, draw) == Sealed("dual", id, draw)

KeyFiles == {Absent, V3} \cup {Pending(id) : id \in Ids} \cup {Single(id) : id \in Ids}
            \cup {Dual(id, draw) : id \in Ids, draw \in Draws}

Journals == [previous : KeyFiles, next : KeyFiles]

ASSUME UpgradeAssumption == None \notin Journals

Empty == Sealed("empty", None, None)
Legacy == Sealed("legacy", None, None)

Databases == {Absent, Empty, Legacy} \cup {Single(id) : id \in Ids}
             \cup {Dual(id, draw) : id \in Ids, draw \in Draws}

\* validateDatabaseStateForKeyFile, validateBundleAgainstDatabase: the key
\* file is the one the database was last written with.
Opens(key, db) ==
    \/ key.format = "v3" /\ db = Legacy
    \/ key.format = "pending" /\ (db = Legacy \/ db = Single(key.id))
    \/ key.format \in {"single", "dual"} /\ db = key

Steps == {"none", "startup", "unlinkRecovered", "markPending", "commitUpgrade",
          "activate", "backupKey", "journalKey", "fillJournalKey", "writeBundle",
          "commitMigration", "unlinkJournal", "caught", "unlinkCaught",
          "openDatabase", "createVault"}

TypeOK ==
    /\ keyFile \in KeyFiles
    /\ database \in Databases
    /\ journal \in Journals \cup {None}
    /\ journalKey \in {"absent", "torn", "whole"}
    /\ keyBackups \subseteq KeyFiles
    /\ databaseBackups \subseteq Databases
    /\ pc \in Steps
    /\ refusal \in {"none", "storage", "journalKey", "database", "died"}

\* No vault yet, one without identities, or one with a single key.
Init ==
    /\ \/ keyFile = Absent /\ database = Absent
       \/ keyFile = V3 /\ database = Legacy
       \/ \E id \in Ids : keyFile = Single(id) /\ database = Single(id)
    /\ journal = None /\ journalKey = "absent"
    /\ keyBackups = {} /\ databaseBackups = {}
    /\ pc = "none" /\ refusal = "none"

Goto(next) == pc' = next /\ UNCHANGED refusal

----------------------------------------------------------------------------
(* Startup: recoverAndMigrateVault                                         *)

Start ==
    /\ pc = "none"
    /\ pc' = "startup" /\ refusal' = "none"
    /\ UNCHANGED disk

AtStartup == pc = "startup" /\ journal = None

\* needsDualKeyMigration is false, and the vault opens.
Dispatch ==
    /\ AtStartup /\ keyFile.format = "dual" /\ Opens(keyFile, database)
    /\ Goto("none") /\ UNCHANGED disk

Refuse(reason) ==
    /\ pc' = "none" /\ refusal' = reason
    /\ UNCHANGED disk

\* getDb: the database is missing, empty or replaced.
RefuseDatabase ==
    /\ AtStartup /\ keyFile # Absent /\ ~Opens(keyFile, database)
    /\ Refuse("database")

\* migrateLegacyVaultToDualKey: "Complete the existing storage migration ..."
RefuseStorage ==
    /\ AtStartup /\ keyFile.format = "pending" /\ Opens(keyFile, database)
    /\ Refuse("storage")

----------------------------------------------------------------------------
(* initializeVault                                                         *)

CreateKeyFile(id, draw) ==
    /\ AtStartup /\ keyFile = Absent /\ database = Absent
    /\ keyFile' = Dual(id, draw)
    /\ Goto("openDatabase")
    /\ UNCHANGED <<database, journal, journalKey, backups>>

OpenDatabase ==
    /\ pc = "openDatabase"
    /\ database' = Empty
    /\ Goto("createVault")
    /\ UNCHANGED <<keyFile, journal, journalKey, backups>>

CreateVault ==
    /\ pc = "createVault"
    /\ database' = keyFile
    /\ Goto("none")
    /\ UNCHANGED <<keyFile, journal, journalKey, backups>>

----------------------------------------------------------------------------
(* The storage upgrade: ensureCurrentVaultFormat in completeVaultOpen      *)

BackupLegacy ==
    /\ AtStartup /\ keyFile = V3 /\ Opens(keyFile, database)
    /\ databaseBackups' = databaseBackups \cup {database}
    /\ Goto("markPending")
    /\ UNCHANGED <<keyFile, database, journal, journalKey, keyBackups>>

\* writeKeyFile: backupExistingKeyFile, then the rename
WriteKeyFile(file) ==
    /\ keyBackups' = keyBackups \cup {keyFile}
    /\ keyFile' = file
    /\ UNCHANGED <<database, journal, journalKey, databaseBackups>>

\* Mutant: the key file is active before the transaction commits.
MarkActive(id) ==
    /\ pc = "markPending" /\ WriteKeyFile(Single(id)) /\ Goto("commitUpgrade")

MarkPending(id) ==
    /\ pc = "markPending" /\ WriteKeyFile(Pending(id)) /\ Goto("commitUpgrade")

CommitUpgrade ==
    /\ pc = "commitUpgrade"
    /\ database' = Single(keyFile.id)
    /\ Goto("activate")
    /\ UNCHANGED <<keyFile, journal, journalKey, backups>>

Activate ==
    /\ pc = "activate" /\ WriteKeyFile(Single(keyFile.id)) /\ Goto("startup")

----------------------------------------------------------------------------
(* The dual-key migration: migrateLegacyVaultToDualKey                     *)

\* Mutant: the database is not backed up.
BackupDatabaseSkipped ==
    /\ AtStartup /\ keyFile.format = "single" /\ Opens(keyFile, database)
    /\ Goto("backupKey") /\ UNCHANGED disk

BackupDatabase ==
    /\ AtStartup /\ keyFile.format = "single" /\ Opens(keyFile, database)
    /\ databaseBackups' = databaseBackups \cup {database}
    /\ Goto("backupKey")
    /\ UNCHANGED <<keyFile, database, journal, journalKey, keyBackups>>

\* Mutant: the key file is not backed up.
BackupKeySkipped == pc = "backupKey" /\ Goto("journalKey") /\ UNCHANGED disk

BackupKey ==
    /\ pc = "backupKey"
    /\ keyBackups' = keyBackups \cup {keyFile}
    /\ Goto("journalKey")
    /\ UNCHANGED <<keyFile, database, journal, journalKey, databaseBackups>>

\* dualMigrationJournalKey creates the file and then fills it.
CreateJournalKey ==
    /\ pc = "journalKey" /\ journalKey = "absent"
    /\ journalKey' = "torn"
    /\ Goto("fillJournalKey")
    /\ UNCHANGED <<keyFile, database, journal, backups>>

FillJournalKey ==
    /\ pc = "fillJournalKey"
    /\ journalKey' = "whole"
    /\ Goto("journalKey")
    /\ UNCHANGED <<keyFile, database, journal, backups>>

RefuseJournalKey ==
    /\ pc = "journalKey" /\ journalKey = "torn"
    /\ Refuse("journalKey")

WriteJournal(draw) ==
    /\ pc = "journalKey" /\ journalKey = "whole"
    /\ journal' = [previous |-> keyFile, next |-> Dual(keyFile.id, draw)]
    /\ Goto("writeBundle")
    /\ UNCHANGED <<keyFile, database, journalKey, backups>>

\* Mutant: the bundle is built again, so it is not the one of the journal.
WriteOtherBundle ==
    /\ pc = "writeBundle"
    /\ \E draw \in Draws : keyFile' = Dual(keyFile.id, draw)
    /\ Goto("commitMigration")
    /\ UNCHANGED <<database, journal, journalKey, backups>>

WriteBundle ==
    /\ pc = "writeBundle"
    /\ keyFile' = journal.next
    /\ Goto("commitMigration")
    /\ UNCHANGED <<database, journal, journalKey, backups>>

CommitMigration ==
    /\ pc = "commitMigration"
    /\ database' = keyFile
    /\ Goto("unlinkJournal")
    /\ UNCHANGED <<keyFile, journal, journalKey, backups>>

Unlink(step, next) ==
    /\ pc = step
    /\ journal' = None
    /\ Goto(next)
    /\ UNCHANGED <<keyFile, database, journalKey, backups>>

UnlinkJournal == Unlink("unlinkJournal", "startup")

\* A step of the migration throws, whether or not it took effect.
Throw ==
    /\ pc \in {"writeBundle", "commitMigration", "unlinkJournal"}
    /\ pc' = "caught" /\ refusal' = "died"
    /\ UNCHANGED disk

----------------------------------------------------------------------------
(* recoverInterruptedDualKeyMigration, at startup or after an error        *)

\* Only the format of the database decides.
RecoveredKey == IF database.format = "dual" THEN journal.next ELSE journal.previous

Recover ==
    /\ journal # None /\ journalKey = "whole"
    /\ database.format \in {"single", "dual"}
    /\ keyFile' = RecoveredKey
    /\ \/ pc = "startup" /\ Goto("unlinkRecovered")
       \/ pc = "caught" /\ Goto("unlinkCaught")
    /\ UNCHANGED <<database, journal, journalKey, backups>>

\* Mutant: the journal stays.
UnlinkRecoveredKept == pc = "unlinkRecovered" /\ Goto("startup") /\ UNCHANGED disk

UnlinkRecovered == Unlink("unlinkRecovered", "startup")

UnlinkCaught == Unlink("unlinkCaught", "none")

\* The process dies, or a step throws and leaves everything as it is.
Die ==
    /\ pc # "none"
    /\ Refuse("died")

----------------------------------------------------------------------------
Initialization ==
    \/ \E id \in Ids, draw \in Draws : CreateKeyFile(id, draw)
    \/ OpenDatabase \/ CreateVault

StorageUpgrade ==
    \/ BackupLegacy \/ (\E id \in Ids : MarkPending(id)) \/ CommitUpgrade \/ Activate

DualKeyMigration ==
    \/ BackupDatabase \/ BackupKey \/ CreateJournalKey \/ FillJournalKey
    \/ RefuseJournalKey \/ (\E draw \in Draws : WriteJournal(draw))
    \/ WriteBundle \/ CommitMigration \/ UnlinkJournal

Recovery == Recover \/ UnlinkRecovered \/ UnlinkCaught

ProgramStep ==
    \/ Dispatch \/ RefuseDatabase \/ RefuseStorage
    \/ Initialization \/ StorageUpgrade \/ DualKeyMigration \/ Recovery

Next == Start \/ ProgramStep \/ Throw \/ Die

Spec == Init /\ [][Next]_vars

\* A start runs on, and its owner starts another when it ends.
FairSpec == Spec /\ WF_vars(ProgramStep) /\ WF_vars(Start)

----------------------------------------------------------------------------
(* Properties                                                              *)

(* With no journal the key file opens the database, wherever an upgrade    *)
(* was interrupted or failed: no start finds a vault it takes for          *)
(* replaced.  Only initialization leaves one without a database, and that  *)
(* one holds no records yet.                                               *)
KeyOpensDatabase ==
    journal = None =>
        Opens(keyFile, database) \/ database \in {Absent, Empty}

(* Nor does recovery: with a journal the key file it puts back opens the   *)
(* database.                                                               *)
(* ("Dual-key migration journal does not match the vault database format") *)
RecoveryDecides ==
    /\ KeyOpensDatabase
    /\ journal # None => Opens(RecoveredKey, database) /\ journalKey = "whole"

(* "One-key vault migration creates a consistent backup before mutation."  *)
(* (docs/security.md:52)  The database a migration is about to rewrite is  *)
(* among the backups, and a key file that opens it stays beside it.        *)
BackupsOpen ==
    \A db \in databaseBackups : \E key \in keyBackups \cup {keyFile} : Opens(key, db)

MutationBackedUp ==
    [][database' # database /\ database \notin {Absent, Empty} =>
          database \in databaseBackups]_vars

(* A vault of an older release is upgraded sooner or later, unless starts  *)
(* die or fail for ever, or one died where later ones give up: between the *)
(* two writes of the key file in the storage upgrade, or of the journal    *)
(* key.                                                                    *)
UpgradeCompletes ==
    <>[][~Die /\ ~Throw]_vars =>
        (keyFile.format \in {"v3", "single"} ~>
            \/ keyFile.format = "dual" /\ journal = None
            \/ refusal \in {"storage", "journalKey"})

(* "retries safely after an interruption ${boundary}"                      *)
(* (tests/vault-format.test.ts:208)  No start gives up because an earlier  *)
(* one was interrupted in the storage upgrade.                             *)
UpgradeIsRetried == refusal # "storage"
============================================================================
