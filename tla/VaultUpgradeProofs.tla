------------------------- MODULE VaultUpgradeProofs -------------------------
(***************************************************************************)
(* Safety of vault initialization, of the storage upgrade and of the       *)
(* dual-key migration, for all identifiers and whatever is drawn at        *)
(* random.  The inductive invariant says how key file, database, journal   *)
(* and backups are related at every program point; at rest it is only that *)
(* the key file, or the one of the journal, opens the database.            *)
(***************************************************************************)
EXTENDS VaultUpgrade, TLAPS

IsSingle(file) == \E id \in Ids : file = Single(id)
IsDual(file) == \E id \in Ids, draw \in Draws : file = Dual(id, draw)

\* The journal holds both versions of the key file, and the database is of
\* one of them.
JournalSound ==
    journal # None =>
        /\ IsSingle(journal.previous) /\ IsDual(journal.next)
        /\ \/ database = journal.previous /\ database \in databaseBackups
           \/ database = journal.next
        /\ keyFile \in {journal.previous, journal.next}
        /\ journal.previous \in keyBackups
        /\ journalKey = "whole"

BackupsAreOld == \A db \in databaseBackups : db = Legacy \/ IsSingle(db)

InitializationPoints ==
    pc \in {"openDatabase", "createVault"} =>
        journal = None /\ IsDual(keyFile) /\ database \in {Absent, Empty}

StoragePoints ==
    /\ pc \in {"markPending", "commitUpgrade"} =>
          journal = None /\ database = Legacy /\ database \in databaseBackups
    /\ pc = "markPending" => keyFile = V3
    /\ pc = "commitUpgrade" => \E id \in Ids : keyFile = Pending(id)
    /\ pc = "activate" =>
          /\ journal = None
          /\ \E id \in Ids : keyFile = Pending(id) /\ database = Single(id)

MigrationPoints ==
    /\ pc \in {"backupKey", "journalKey", "fillJournalKey"} =>
          /\ journal = None /\ IsSingle(keyFile)
          /\ database = keyFile /\ database \in databaseBackups
    /\ pc \in {"journalKey", "fillJournalKey"} => keyFile \in keyBackups
    /\ pc \in {"writeBundle", "commitMigration", "unlinkJournal", "caught"} =>
          journal # None
    /\ pc \in {"writeBundle", "commitMigration"} => database = journal.previous
    /\ pc = "commitMigration" => keyFile = journal.next
    /\ pc = "unlinkJournal" => keyFile = journal.next /\ database = journal.next
    /\ pc \in {"unlinkRecovered", "unlinkCaught"} =>
          journal # None /\ keyFile = RecoveredKey

UpgradeInv ==
    /\ TypeOK
    /\ KeyOpensDatabase
    /\ JournalSound
    /\ BackupsAreOld /\ BackupsOpen
    /\ InitializationPoints /\ StoragePoints /\ MigrationPoints

----------------------------------------------------------------------------
LEMMA FileTypes ==
    /\ \A id \in Ids : Single(id) \in KeyFiles \cap Databases
    /\ \A id \in Ids : Pending(id) \in KeyFiles
    /\ \A id \in Ids, draw \in Draws : Dual(id, draw) \in KeyFiles \cap Databases
    /\ Absent \in KeyFiles \cap Databases /\ V3 \in KeyFiles
    /\ Empty \in Databases /\ Legacy \in Databases
BY DEF KeyFiles, Databases

\* The format of a key file or a database says what it is.
LEMMA Formats ==
    /\ \A file \in KeyFiles :
          /\ file.format = "v3" => file = V3
          /\ file.format = "pending" => \E id \in Ids : file = Pending(id)
          /\ file.format = "single" => IsSingle(file)
          /\ file.format = "dual" => IsDual(file)
    /\ \A db \in Databases :
          /\ db.format = "single" => IsSingle(db)
          /\ db.format = "dual" => IsDual(db)
BY DEF KeyFiles, Databases, Sealed, Absent, V3, Pending, Single, Dual, Empty, Legacy,
       IsSingle, IsDual

\* Which key file opens which database
LEMMA WhatOpens ==
    /\ Opens(V3, Legacy)
    /\ \A id \in Ids : Opens(Pending(id), Legacy) /\ Opens(Pending(id), Single(id))
    /\ \A file : IsSingle(file) \/ IsDual(file) => Opens(file, file)
    /\ \A file, db : IsDual(file) /\ (db = Legacy \/ IsSingle(db)) => ~Opens(file, db)
BY DEF Opens, Sealed, V3, Legacy, Pending, Single, Dual, IsSingle, IsDual

LEMMA SinglesAndDuals ==
    /\ \A file : IsSingle(file) => file.format = "single" /\ file \in KeyFiles \cap Databases
    /\ \A file : IsDual(file) => file.format = "dual" /\ file \in KeyFiles \cap Databases
    /\ V3.format = "v3" /\ Legacy.format = "legacy" /\ Absent.format = "absent"
    /\ Empty.format = "empty"
    /\ \A id \in Ids : Pending(id).format = "pending" /\ Pending(id).id = id
    /\ \A id \in Ids : Single(id).id = id
BY FileTypes
   DEF IsSingle, IsDual, Sealed, Single, Dual, V3, Legacy, Absent, Empty, Pending

LEMMA UpgradeInitially == Init => UpgradeInv
<1> SUFFICES ASSUME Init PROVE UpgradeInv
  OBVIOUS
<1>1. TypeOK
  BY FileTypes DEF Init, TypeOK, Steps
<1>2. KeyOpensDatabase
  BY WhatOpens DEF Init, KeyOpensDatabase, IsSingle
<1> QED
  BY <1>1, <1>2
     DEF UpgradeInv, Init, JournalSound, BackupsAreOld, BackupsOpen,
         InitializationPoints, StoragePoints, MigrationPoints

LEMMA RecoveredKeyOpens ==
    ASSUME TypeOK, JournalSound, journal # None
    PROVE  /\ Opens(RecoveredKey, database)
           /\ RecoveredKey \in KeyFiles
<1>1. IsSingle(journal.previous) /\ IsDual(journal.next)
      /\ (database = journal.previous \/ database = journal.next)
  BY DEF JournalSound
<1>2. CASE database = journal.previous
  <2>1. RecoveredKey = journal.previous
    BY <1>1, <1>2, SinglesAndDuals DEF RecoveredKey
  <2> QED  BY <1>1, <1>2, <2>1, WhatOpens, SinglesAndDuals
<1>3. CASE database = journal.next
  <2>1. RecoveredKey = journal.next
    BY <1>1, <1>3, SinglesAndDuals DEF RecoveredKey
  <2> QED  BY <1>1, <1>3, <2>1, WhatOpens, SinglesAndDuals
<1> QED  BY <1>1, <1>2, <1>3

----------------------------------------------------------------------------
(* Steps that leave the disk as it is                                      *)

LEMMA DiskAtRest ==
    ASSUME UpgradeInv, UNCHANGED disk, pc' \in {"none", "startup"},
           refusal' \in {"none", "storage", "journalKey", "database", "died"}
    PROVE  UpgradeInv'
<1> USE DEF disk, backups, UpgradeInv
<1>1. TypeOK'
  BY DEF TypeOK, Steps
<1>2. KeyOpensDatabase'
  BY DEF KeyOpensDatabase
<1>3. JournalSound' /\ BackupsAreOld' /\ BackupsOpen'
  BY DEF JournalSound, BackupsAreOld, BackupsOpen
<1>4. InitializationPoints' /\ StoragePoints' /\ MigrationPoints'
  BY DEF InitializationPoints, StoragePoints, MigrationPoints
<1> QED  BY <1>1, <1>2, <1>3, <1>4

LEMMA StartsAndEnds ==
    ASSUME UpgradeInv,
           Start \/ Dispatch \/ RefuseDatabase \/ RefuseStorage \/ RefuseJournalKey \/ Die
    PROVE  UpgradeInv'
<1>1. refusal \in {"none", "storage", "journalKey", "database", "died"}
  BY DEF UpgradeInv, TypeOK
<1>2. CASE Start
  BY <1>1, <1>2, DiskAtRest DEF Start
<1>3. CASE Dispatch
  BY <1>1, <1>3, DiskAtRest DEF Dispatch, Goto
<1>4. CASE RefuseDatabase \/ RefuseStorage \/ RefuseJournalKey \/ Die
  BY <1>1, <1>4, DiskAtRest DEF RefuseDatabase, RefuseStorage, RefuseJournalKey, Die, Refuse
<1> QED  BY <1>2, <1>3, <1>4

LEMMA Throws ==
    ASSUME UpgradeInv, Throw
    PROVE  UpgradeInv'
<1> USE DEF disk, backups, UpgradeInv, Throw
<1>1. TypeOK'
  BY DEF TypeOK, Steps
<1>2. KeyOpensDatabase' /\ JournalSound' /\ BackupsAreOld' /\ BackupsOpen'
  BY DEF KeyOpensDatabase, JournalSound, BackupsAreOld, BackupsOpen
<1>3. InitializationPoints' /\ StoragePoints' /\ MigrationPoints'
  BY DEF InitializationPoints, StoragePoints, MigrationPoints
<1> QED  BY <1>1, <1>2, <1>3

----------------------------------------------------------------------------
(* Initialization                                                          *)

LEMMA InitializationSteps ==
    ASSUME UpgradeInv, Initialization
    PROVE  UpgradeInv'
<1> USE DEF disk, backups, UpgradeInv, Goto
<1>1. ASSUME NEW id \in Ids, NEW draw \in Draws, CreateKeyFile(id, draw)
      PROVE  UpgradeInv'
  <2> USE <1>1 DEF CreateKeyFile, AtStartup
  <2>1. IsDual(keyFile') /\ keyFile' \in KeyFiles
    BY FileTypes DEF IsDual
  <2>2. TypeOK'
    BY <2>1 DEF TypeOK, Steps
  <2>3. KeyOpensDatabase' /\ JournalSound' /\ BackupsAreOld'
    BY DEF KeyOpensDatabase, JournalSound, BackupsAreOld
  <2>4. BackupsOpen'
    BY SinglesAndDuals DEF BackupsOpen, Opens
  <2>5. InitializationPoints' /\ StoragePoints' /\ MigrationPoints'
    BY <2>1 DEF InitializationPoints, StoragePoints, MigrationPoints
  <2> QED  BY <2>2, <2>3, <2>4, <2>5
<1>2. CASE OpenDatabase
  <2> USE <1>2 DEF OpenDatabase
  <2>1. TypeOK'
    BY FileTypes DEF TypeOK, Steps
  <2>2. KeyOpensDatabase' /\ JournalSound' /\ BackupsAreOld' /\ BackupsOpen'
    BY DEF KeyOpensDatabase, JournalSound, BackupsAreOld, BackupsOpen, InitializationPoints
  <2>3. InitializationPoints' /\ StoragePoints' /\ MigrationPoints'
    BY DEF InitializationPoints, StoragePoints, MigrationPoints, IsDual
  <2> QED  BY <2>1, <2>2, <2>3
<1>3. CASE CreateVault
  <2> USE <1>3 DEF CreateVault
  <2>1. journal = None /\ IsDual(keyFile)
    BY DEF InitializationPoints
  <2>2. TypeOK'
    BY <2>1, SinglesAndDuals DEF TypeOK, Steps
  <2>3. KeyOpensDatabase'
    BY <2>1, WhatOpens DEF KeyOpensDatabase
  <2>4. JournalSound' /\ BackupsAreOld' /\ BackupsOpen'
    BY <2>1 DEF JournalSound, BackupsAreOld, BackupsOpen
  <2>5. InitializationPoints' /\ StoragePoints' /\ MigrationPoints'
    BY DEF InitializationPoints, StoragePoints, MigrationPoints
  <2> QED  BY <2>2, <2>3, <2>4, <2>5
<1> QED  BY <1>1, <1>2, <1>3 DEF Initialization

----------------------------------------------------------------------------
(* The storage upgrade                                                     *)

\* The old key file is kept as a backup, so every backup still opens.
LEMMA KeyFileRewritten ==
    ASSUME BackupsOpen, NEW file, WriteKeyFile(file)
    PROVE  BackupsOpen'
BY DEF BackupsOpen, WriteKeyFile

LEMMA StorageUpgradeSteps ==
    ASSUME UpgradeInv, StorageUpgrade
    PROVE  UpgradeInv'
<1> USE DEF disk, backups, UpgradeInv, Goto
<1>1. CASE BackupLegacy
  <2> USE <1>1 DEF BackupLegacy, AtStartup
  <2>1. database = Legacy
    BY SinglesAndDuals DEF Opens
  <2>2. TypeOK'
    BY <2>1 DEF TypeOK, Steps
  <2>3. KeyOpensDatabase' /\ JournalSound' /\ BackupsAreOld'
    BY <2>1 DEF KeyOpensDatabase, JournalSound, BackupsAreOld
  <2>4. BackupsOpen'
    BY <2>1 DEF BackupsOpen
  <2>5. InitializationPoints' /\ StoragePoints' /\ MigrationPoints'
    BY <2>1 DEF InitializationPoints, StoragePoints, MigrationPoints
  <2> QED  BY <2>2, <2>3, <2>4, <2>5
<1>2. ASSUME NEW id \in Ids, MarkPending(id)
      PROVE  UpgradeInv'
  <2> USE <1>2 DEF MarkPending, WriteKeyFile
  <2>1. journal = None /\ database = Legacy /\ database \in databaseBackups
    BY DEF StoragePoints
  <2>2. TypeOK'
    BY FileTypes DEF TypeOK, Steps
  <2>3. KeyOpensDatabase'
    BY <2>1, WhatOpens DEF KeyOpensDatabase
  <2>4. JournalSound' /\ BackupsAreOld'
    BY <2>1 DEF JournalSound, BackupsAreOld
  <2>5. BackupsOpen'
    BY KeyFileRewritten
  <2>6. InitializationPoints' /\ StoragePoints' /\ MigrationPoints'
    BY <2>1 DEF InitializationPoints, StoragePoints, MigrationPoints
  <2> QED  BY <2>2, <2>3, <2>4, <2>5, <2>6
<1>3. CASE CommitUpgrade
  <2> USE <1>3 DEF CommitUpgrade
  <2>1. PICK id \in Ids : keyFile = Pending(id)
    BY DEF StoragePoints
  <2>2. journal = None /\ database' = Single(id)
    BY <2>1, SinglesAndDuals DEF StoragePoints
  <2>3. TypeOK'
    BY <2>2, FileTypes DEF TypeOK, Steps
  <2>4. KeyOpensDatabase'
    BY <2>1, <2>2, WhatOpens DEF KeyOpensDatabase
  <2>5. JournalSound' /\ BackupsAreOld' /\ BackupsOpen'
    BY <2>2 DEF JournalSound, BackupsAreOld, BackupsOpen
  <2>6. InitializationPoints' /\ StoragePoints' /\ MigrationPoints'
    BY <2>1, <2>2 DEF InitializationPoints, StoragePoints, MigrationPoints
  <2> QED  BY <2>3, <2>4, <2>5, <2>6
<1>4. CASE Activate
  <2> USE <1>4 DEF Activate, WriteKeyFile
  <2>1. PICK id \in Ids : keyFile = Pending(id) /\ database = Single(id)
    BY DEF StoragePoints
  <2>2. journal = None /\ keyFile' = Single(id)
    BY <2>1, SinglesAndDuals DEF StoragePoints
  <2>3. TypeOK'
    BY <2>2, FileTypes DEF TypeOK, Steps
  <2>4. KeyOpensDatabase'
    BY <2>1, <2>2, WhatOpens DEF KeyOpensDatabase, IsSingle
  <2>5. JournalSound' /\ BackupsAreOld'
    BY <2>2 DEF JournalSound, BackupsAreOld
  <2>6. BackupsOpen'
    BY KeyFileRewritten
  <2>7. InitializationPoints' /\ StoragePoints' /\ MigrationPoints'
    BY DEF InitializationPoints, StoragePoints, MigrationPoints
  <2> QED  BY <2>3, <2>4, <2>5, <2>6, <2>7
<1> QED  BY <1>1, <1>2, <1>3, <1>4 DEF StorageUpgrade

----------------------------------------------------------------------------
(* The dual-key migration                                                  *)

LEMMA MigrationPreparation ==
    ASSUME UpgradeInv,
           \/ BackupDatabase \/ BackupKey \/ CreateJournalKey \/ FillJournalKey
           \/ \E draw \in Draws : WriteJournal(draw)
    PROVE  UpgradeInv'
<1> USE DEF disk, backups, UpgradeInv, Goto
<1>1. CASE BackupDatabase
  <2> USE <1>1 DEF BackupDatabase, AtStartup
  <2>1. IsSingle(keyFile) /\ database = keyFile
    BY Formats DEF TypeOK, Opens
  <2>2. TypeOK'
    BY DEF TypeOK, Steps
  <2>3. KeyOpensDatabase' /\ JournalSound' /\ BackupsAreOld'
    BY <2>1 DEF KeyOpensDatabase, JournalSound, BackupsAreOld, IsSingle
  <2>4. BackupsOpen'
    BY DEF BackupsOpen
  <2>5. InitializationPoints' /\ StoragePoints' /\ MigrationPoints'
    BY <2>1 DEF InitializationPoints, StoragePoints, MigrationPoints, IsSingle
  <2> QED  BY <2>2, <2>3, <2>4, <2>5
<1>2. CASE BackupKey
  <2> USE <1>2 DEF BackupKey
  <2>1. TypeOK'
    BY DEF TypeOK, Steps
  <2>2. KeyOpensDatabase' /\ JournalSound' /\ BackupsAreOld' /\ BackupsOpen'
    BY DEF KeyOpensDatabase, JournalSound, BackupsAreOld, BackupsOpen
  <2>3. InitializationPoints' /\ StoragePoints' /\ MigrationPoints'
    BY DEF InitializationPoints, StoragePoints, MigrationPoints, IsSingle
  <2> QED  BY <2>1, <2>2, <2>3
<1>3. CASE CreateJournalKey \/ FillJournalKey
  <2> USE <1>3 DEF CreateJournalKey, FillJournalKey
  <2>1. TypeOK'
    BY DEF TypeOK, Steps
  <2>2. KeyOpensDatabase' /\ JournalSound' /\ BackupsAreOld' /\ BackupsOpen'
    BY DEF KeyOpensDatabase, JournalSound, BackupsAreOld, BackupsOpen, MigrationPoints
  <2>3. InitializationPoints' /\ StoragePoints' /\ MigrationPoints'
    BY DEF InitializationPoints, StoragePoints, MigrationPoints, IsSingle
  <2> QED  BY <2>1, <2>2, <2>3
<1>4. ASSUME NEW draw \in Draws, WriteJournal(draw)
      PROVE  UpgradeInv'
  <2> USE <1>4 DEF WriteJournal
  <2>1. PICK id \in Ids : keyFile = Single(id)
    BY DEF MigrationPoints, IsSingle
  <2>2. /\ database = keyFile /\ database \in databaseBackups
        /\ keyFile \in keyBackups
    BY DEF MigrationPoints
  <2>3. journal' = [previous |-> Single(id), next |-> Dual(id, draw)]
    BY <2>1, SinglesAndDuals
  <2>4. journal' \in Journals /\ journal' # None
    BY <2>3, FileTypes, UpgradeAssumption DEF Journals
  <2>5. TypeOK'
    BY <2>4 DEF TypeOK, Steps
  <2>6. journal'.previous = Single(id) /\ journal'.next = Dual(id, draw)
    BY <2>3
  <2>7. JournalSound'
    BY <2>1, <2>2, <2>6 DEF JournalSound, IsSingle, IsDual
  <2>8. KeyOpensDatabase' /\ BackupsAreOld' /\ BackupsOpen'
    BY <2>4 DEF KeyOpensDatabase, BackupsAreOld, BackupsOpen
  <2>9. InitializationPoints' /\ StoragePoints' /\ MigrationPoints'
    BY <2>1, <2>2, <2>4, <2>6 DEF InitializationPoints, StoragePoints, MigrationPoints
  <2> QED  BY <2>5, <2>7, <2>8, <2>9
<1> QED  BY <1>1, <1>2, <1>3, <1>4

\* A bundle opens no backup, so the file it makes way for need not be its
\* witness: the journal's previous key file is a backup itself.
LEMMA JournaledKeyReplaced ==
    ASSUME UpgradeInv, journal # None,
           keyBackups' = keyBackups, databaseBackups' = databaseBackups
    PROVE  BackupsOpen'
<1> SUFFICES ASSUME NEW db \in databaseBackups
             PROVE  \E key \in keyBackups : Opens(key, db)
  BY DEF BackupsOpen
<1>1. PICK key \in keyBackups \cup {keyFile} : Opens(key, db)
  BY DEF UpgradeInv, BackupsOpen
<1>2. ~IsDual(key)
  BY <1>1, WhatOpens DEF UpgradeInv, BackupsAreOld
<1>3. journal.previous \in keyBackups /\ IsDual(journal.next)
      /\ keyFile \in {journal.previous, journal.next}
  BY DEF UpgradeInv, JournalSound
<1> QED  BY <1>1, <1>2, <1>3

LEMMA MigrationCommit ==
    ASSUME UpgradeInv, WriteBundle \/ CommitMigration \/ UnlinkJournal
    PROVE  UpgradeInv'
<1> USE DEF disk, backups, UpgradeInv, Goto
<1>1. journal # None /\ IsDual(journal.next)
  BY DEF MigrationPoints, JournalSound, WriteBundle, CommitMigration, UnlinkJournal, Unlink
<1>2. CASE WriteBundle
  <2> USE <1>2 DEF WriteBundle
  <2>1. TypeOK'
    BY <1>1, SinglesAndDuals DEF TypeOK, Steps
  <2>2. KeyOpensDatabase' /\ JournalSound' /\ BackupsAreOld'
    BY <1>1 DEF KeyOpensDatabase, JournalSound, BackupsAreOld
  <2>3. BackupsOpen'
    BY <1>1, JournaledKeyReplaced
  <2>4. InitializationPoints' /\ StoragePoints' /\ MigrationPoints'
    BY <1>1 DEF InitializationPoints, StoragePoints, MigrationPoints
  <2> QED  BY <2>1, <2>2, <2>3, <2>4
<1>3. CASE CommitMigration
  <2> USE <1>3 DEF CommitMigration
  <2>1. keyFile = journal.next
    BY DEF MigrationPoints
  <2>2. TypeOK'
    BY <1>1, <2>1, SinglesAndDuals DEF TypeOK, Steps
  <2>3. KeyOpensDatabase' /\ JournalSound' /\ BackupsAreOld' /\ BackupsOpen'
    BY <1>1, <2>1 DEF KeyOpensDatabase, JournalSound, BackupsAreOld, BackupsOpen
  <2>4. InitializationPoints' /\ StoragePoints' /\ MigrationPoints'
    BY <1>1, <2>1 DEF InitializationPoints, StoragePoints, MigrationPoints
  <2> QED  BY <2>2, <2>3, <2>4
<1>4. CASE UnlinkJournal
  <2> USE <1>4 DEF UnlinkJournal, Unlink
  <2>1. keyFile = journal.next /\ database = journal.next
    BY DEF MigrationPoints
  <2>2. TypeOK'
    BY DEF TypeOK, Steps
  <2>3. KeyOpensDatabase'
    BY <1>1, <2>1, WhatOpens DEF KeyOpensDatabase
  <2>4. JournalSound' /\ BackupsAreOld' /\ BackupsOpen'
    BY DEF JournalSound, BackupsAreOld, BackupsOpen
  <2>5. InitializationPoints' /\ StoragePoints' /\ MigrationPoints'
    BY DEF InitializationPoints, StoragePoints, MigrationPoints
  <2> QED  BY <2>2, <2>3, <2>4, <2>5
<1> QED  BY <1>2, <1>3, <1>4

LEMMA RecoverySteps ==
    ASSUME UpgradeInv, Recovery
    PROVE  UpgradeInv'
<1> USE DEF disk, backups, UpgradeInv, Goto
<1>1. CASE Recover
  <2> USE <1>1 DEF Recover
  <2>1. RecoveredKey \in KeyFiles
    BY RecoveredKeyOpens
  <2>2. RecoveredKey' = RecoveredKey
    BY DEF RecoveredKey
  <2>3. TypeOK'
    BY <2>1 DEF TypeOK, Steps
  <2>4. KeyOpensDatabase' /\ BackupsAreOld'
    BY DEF KeyOpensDatabase, BackupsAreOld
  <2>5. JournalSound'
    BY DEF JournalSound, RecoveredKey
  <2>6. BackupsOpen'
    BY JournaledKeyReplaced
  <2>7. InitializationPoints' /\ StoragePoints' /\ MigrationPoints'
    BY <2>2 DEF InitializationPoints, StoragePoints, MigrationPoints
  <2> QED  BY <2>3, <2>4, <2>5, <2>6, <2>7
<1>2. CASE UnlinkRecovered \/ UnlinkCaught
  <2> USE <1>2 DEF UnlinkRecovered, UnlinkCaught, Unlink
  <2>1. journal # None /\ keyFile = RecoveredKey
    BY DEF MigrationPoints
  <2>2. TypeOK'
    BY DEF TypeOK, Steps
  <2>3. KeyOpensDatabase'
    BY <2>1, RecoveredKeyOpens DEF KeyOpensDatabase, Opens
  <2>4. JournalSound' /\ BackupsAreOld' /\ BackupsOpen'
    BY DEF JournalSound, BackupsAreOld, BackupsOpen
  <2>5. InitializationPoints' /\ StoragePoints' /\ MigrationPoints'
    BY DEF InitializationPoints, StoragePoints, MigrationPoints
  <2> QED  BY <2>2, <2>3, <2>4, <2>5
<1> QED  BY <1>1, <1>2 DEF Recovery

----------------------------------------------------------------------------
(* The theorems                                                            *)

LEMMA Stutters ==
    ASSUME UpgradeInv, UNCHANGED vars
    PROVE  UpgradeInv'
<1> USE DEF vars, disk
<1>1. TypeOK'
  BY DEF UpgradeInv, TypeOK
<1>2. KeyOpensDatabase' /\ JournalSound' /\ BackupsAreOld' /\ BackupsOpen'
  BY DEF UpgradeInv, KeyOpensDatabase, JournalSound, BackupsAreOld, BackupsOpen
<1>3. InitializationPoints' /\ StoragePoints' /\ MigrationPoints'
  BY DEF UpgradeInv, InitializationPoints, StoragePoints, MigrationPoints, RecoveredKey
<1> QED  BY <1>1, <1>2, <1>3 DEF UpgradeInv

LEMMA UpgradeInductive == UpgradeInv /\ [Next]_vars => UpgradeInv'
<1> SUFFICES ASSUME UpgradeInv, [Next]_vars PROVE UpgradeInv'
  OBVIOUS
<1>1. CASE Start \/ Dispatch \/ RefuseDatabase \/ RefuseStorage \/ RefuseJournalKey \/ Die
  BY <1>1, StartsAndEnds
<1>2. CASE Throw
  BY <1>2, Throws
<1>3. CASE Initialization
  BY <1>3, InitializationSteps
<1>4. CASE StorageUpgrade
  BY <1>4, StorageUpgradeSteps
<1>5. CASE DualKeyMigration
  BY <1>5, MigrationPreparation, MigrationCommit, StartsAndEnds DEF DualKeyMigration
<1>6. CASE Recovery
  BY <1>6, RecoverySteps
<1>7. CASE UNCHANGED vars
  BY <1>7, Stutters
<1> QED  BY <1>1, <1>2, <1>3, <1>4, <1>5, <1>6, <1>7 DEF Next, ProgramStep

(* The inductive invariant of initialization and upgrade: what every       *)
(* program point of vault.ts:1561-1690 knows about the files.              *)
THEOREM UpgradeInvariance == Spec => []UpgradeInv
BY UpgradeInitially, UpgradeInductive, PTL DEF Spec

(* Every state of initialization and upgrade is well typed.                *)
THEOREM UpgradeTypeCorrect == Spec => []TypeOK
<1>1. UpgradeInv => TypeOK
  BY DEF UpgradeInv
<1> QED  BY <1>1, UpgradeInvariance, PTL

(* With no journal the key file opens the database, or the database was    *)
(* never filled.                                                           *)
THEOREM UpgradeKeyOpens == Spec => []KeyOpensDatabase
<1>1. UpgradeInv => KeyOpensDatabase
  BY DEF UpgradeInv
<1> QED  BY <1>1, UpgradeInvariance, PTL

(* The key file recoverInterruptedDualKeyMigration puts back opens the     *)
(* database.                                                               *)
THEOREM UpgradeRecoveryDecides == Spec => []RecoveryDecides
<1>1. UpgradeInv => RecoveryDecides
  BY RecoveredKeyOpens DEF UpgradeInv, RecoveryDecides, JournalSound
<1> QED  BY <1>1, UpgradeInvariance, PTL

(* A backup of the database has a key file that opens it.                  *)
THEOREM UpgradeBackupsOpen == Spec => []BackupsOpen
<1>1. UpgradeInv => BackupsOpen
  BY DEF UpgradeInv
<1> QED  BY <1>1, UpgradeInvariance, PTL

(* A migration rewrites no database it has not backed up.                  *)
THEOREM UpgradeBacksUp == Spec => MutationBackedUp
<1>1. ASSUME UpgradeInv, Next,
             database' # database, database \notin {Absent, Empty}
      PROVE  database \in databaseBackups
  <2>1. CASE CommitUpgrade
    BY <1>1, <2>1 DEF CommitUpgrade, UpgradeInv, StoragePoints
  <2>2. CASE CommitMigration
    <3>1. /\ journal # None /\ database = journal.previous
          /\ keyFile = journal.next /\ database' = keyFile
      BY <1>1, <2>2 DEF CommitMigration, UpgradeInv, MigrationPoints
    <3> QED  BY <1>1, <3>1 DEF UpgradeInv, JournalSound
  <2>3. CASE OpenDatabase \/ CreateVault
    BY <1>1, <2>3 DEF OpenDatabase, CreateVault, UpgradeInv, InitializationPoints
  <2> QED
    BY <1>1, <2>1, <2>2, <2>3
       DEF Next, ProgramStep, Initialization, StorageUpgrade, DualKeyMigration, Recovery,
           Start, Throw, Die, Dispatch, RefuseDatabase, RefuseStorage, RefuseJournalKey,
           Refuse, CreateKeyFile, BackupLegacy, MarkPending, Activate, WriteKeyFile,
           BackupDatabase, BackupKey, CreateJournalKey, FillJournalKey, WriteJournal,
           WriteBundle, UnlinkJournal, Unlink, Recover, UnlinkRecovered, UnlinkCaught,
           disk
<1>2. UpgradeInv /\ [Next]_vars =>
          [database' # database /\ database \notin {Absent, Empty} =>
              database \in databaseBackups]_vars
  BY <1>1
<1> QED  BY <1>2, UpgradeInvariance, PTL DEF Spec, MutationBackedUp

============================================================================
