----------------------- MODULE ManagedRestoreProofs -----------------------
(***************************************************************************)
(* What ManagedRestore promises, proved for every set of files and         *)
(* contents.  The invariant has three parts: the types, the control (which *)
(* journal phase is on disk at each step, and what the process remembers), *)
(* and the data (where the old and the new content of each file are in     *)
(* each phase).  Three more say what a transaction leaves beside the live  *)
(* files, that files are as its journal says, and what is kept as          *)
(* evidence.  The last part is the refinement of AtomicReplace.            *)
(***************************************************************************)
EXTENDS ManagedRestore, TLAPS

----------------------------------------------------------------------------
(* Control                                                                 *)

Writing == pc \in {"persist", "publishJournal"}

\* The step the process is at, or will be once the journal is written.
At == IF Writing THEN after ELSE pc

StagingSteps == {"mkdir", "classify", "quiesce", "quiesced", "dropCopy",
                 "stage", "portableCopy", "portableRename", "seal"}
PublishingSteps == {"guard", "preserve", "publish", "validate"}
RestoreSteps == StagingSteps \cup PublishingSteps \cup {"finish"}
CleanupSteps == {"cleanup", "rmdir", "unlinkJournal"}

\* The steps a journal is written before.
Resumptions == {"mkdir", "stage", "guard", "preserve", "publish", "finish",
                "unpublish", "unpreserve", "cleanup"}

\* The phases the process may remember at a step.
PhasesAt(s) ==
    CASE s \in StagingSteps -> {"staging"}
      [] s \in PublishingSteps -> {"publishing"}
      [] s = "finish" -> {"committed"}
      [] s = "rollback" -> {"staging", "publishing", "rollback", "committed"}
      [] s \in {"unpublish", "unpreserve"} -> {"rollback"}
      [] s \in CleanupSteps \cup {"unlinkKey"} -> CleanupPhases
      [] OTHER -> {"none"}

\* The phases on disk while a phase is being written.
PhasesBefore(s, p) ==
    CASE s = "mkdir" -> {"none"}
      [] s \in {"stage", "guard"} -> {"staging"}
      [] s \in {"preserve", "publish", "finish"} -> {"publishing"}
      [] s = "unpublish" -> {"publishing", "rollback", "committed"}
      [] s = "unpreserve" -> {"rollback"}
      [] p = "staging-cleanup" -> {"staging", "staging-cleanup"}
      [] p = "rollback-cleanup" -> {"rollback", "rollback-cleanup"}
      [] p = "committed-cleanup" -> {"committed", "committed-cleanup"}
      [] OTHER -> {}

Control ==
    /\ mem.phase \in PhasesAt(At)
    /\ Writing => after \in Resumptions /\ journal.phase \in PhasesBefore(after, mem.phase)
    /\ pc \in {"sweep", "readJournal"} => command = "recover"
    /\ pc \in {"sweep", "unlinkKey"} => journal.phase = "none"
    /\ pc = "readJournal" => journal.phase # "none"
    /\ ~Writing /\ pc \notin {"idle", "sweep", "readJournal", "unlinkKey"} =>
          journal.phase = mem.phase
    /\ mem.phase # "none" /\ journal.phase # "none" =>
          /\ mem.previous = journal.previous
          /\ (Writing /\ after = "guard") \/ mem.staged = journal.staged
    /\ command = "restore" /\ outcome = "none" => At \in RestoreSteps
    /\ command = "catch" =>
          At \notin RestoreSteps /\ mem.phase # "committed-cleanup" /\ outcome = "none"
    /\ outcome \in {"failed", "failed-after-commit"} => command # "restore"
    /\ At \in StagingSteps \cup PublishingSteps => outcome = "none"
    /\ pc = "idle" => command = "none"

----------------------------------------------------------------------------
(* Data                                                                    *)

\* Where the contents of one file are while the outcome is open.
Original(f) == live[f] = before[f] /\ previous[f] = Absent /\ staging[f] = target[f]
Moved(f) == live[f] = Absent /\ previous[f] = before[f] /\ staging[f] = target[f]
Replaced(f) == live[f] = target[f] /\ previous[f] = before[f] /\ staging[f] = Absent

AllOriginal == \A f \in Files : Original(f)
NoneReplaced == \A f \in Files : Original(f) \/ Moved(f)
NoneOriginal == \A f \in Files : Moved(f) \/ Replaced(f)
AllReplaced == \A f \in Files : Replaced(f)
InFlight == \A f \in Files : Original(f) \/ Moved(f) \/ Replaced(f)

\* A journal records the endpoints of every file, except those of a
\* database an external client has written since.
RecordAgrees(record) ==
    /\ \A f \in Files :
          \/ record.staged[f] = target[f]
          \/ /\ f = Database /\ Replaced(f)
             /\ live[f] # record.staged[f]
    /\ \A f \in Files :
          \/ record.previous[f] = before[f]
          \/ /\ f = Database /\ Original(f)
             /\ record.previous[f] # Absent /\ before[f] # Absent
    /\ target[Database] # Absent

PhaseData ==
    /\ journal.phase = "none" =>
          /\ staging = Empty /\ previous = Empty
          /\ live = before \/ live = target
          /\ mem.phase \in {"staging", "staging-cleanup", "rollback-cleanup"} => live = before
          /\ mem.phase = "committed-cleanup" => live = target
    /\ journal.phase \in {"staging", "staging-cleanup", "rollback-cleanup"} =>
          live = before /\ previous = Empty
    /\ journal.phase \in {"publishing", "rollback"} => InFlight /\ RecordAgrees(journal)
    /\ journal.phase = "committed" => AllReplaced /\ RecordAgrees(journal)
    /\ journal.phase = "committed-cleanup" => live = target /\ staging = Empty

StepData ==
    /\ journal.phase # "none" => journal.staged[Database] # Absent
    /\ mem.phase # "none" => mem.staged[Database] # Absent
    /\ At \in {"portableCopy", "portableRename", "seal"} => staging[Database] # Absent
    /\ Writing /\ after = "guard" => AllOriginal /\ RecordAgrees(mem)
    /\ At \in {"preserve", "unpreserve"} => NoneReplaced
    /\ At = "guard" => AllOriginal
    /\ At = "publish" => NoneOriginal
    /\ At \in {"validate", "finish"} => AllReplaced
    /\ mem.phase = "rollback-cleanup" /\ journal.phase = "rollback" => AllOriginal
    /\ pc = "unlinkJournal" => staging = Empty /\ (RemovesPrevious => previous = Empty)

OutcomeData ==
    /\ outcome \in {"restored", "failed-after-commit"} =>
          /\ pc # "rollback"
          /\ journal.phase \in {"none", "committed", "committed-cleanup"}
          /\ journal.phase = "none" => live = target
          /\ mem.phase \in {"none", "committed", "committed-cleanup"}
    /\ outcome = "failed" =>
          /\ journal.phase \notin {"committed", "committed-cleanup"}
          /\ journal.phase = "none" => live = before
          /\ mem.phase \notin {"committed", "committed-cleanup"}

Core == Control /\ PhaseData /\ StepData /\ OutcomeData

Inv == TypeOK /\ Core

----------------------------------------------------------------------------
(* Theorems                                                                *)

\* The vocabulary of the steps: types, ways to go on, and which steps and
\* contents belong together.
USE RestoreAssumption
    DEF Image, Journal, Phases, CleanupPhases, Empty, NoJournal, Steps,
        ClassificationFiles, directory, ledger, process, history, Goto,
        Persist, Refuse, End, BeginCleanup

\* Every action keeps every variable in its type.
LEMMA TypeStep == TypeOK /\ [Next]_vars => TypeOK'
<1> SUFFICES ASSUME TypeOK, [Next]_vars PROVE TypeOK'
  OBVIOUS
<1> USE DEF TypeOK
<1>1. CASE CreateKey
  BY <1>1 DEF CreateKey
<1>2. CASE FillKey
  BY <1>2 DEF FillKey
<1>3. CASE WriteTemporary
  BY <1>3 DEF WriteTemporary
<1>4. CASE PublishJournal
  BY <1>4 DEF PublishJournal
<1>5. CASE MakeStagingDirectory
  BY <1>5 DEF MakeStagingDirectory
<1>6. CASE MakePreviousDirectory
  BY <1>6 DEF MakePreviousDirectory
<1>7. CASE ClassifyDamaged
  BY <1>7 DEF ClassifyDamaged
<1>8. CASE CopyForClassification
  BY <1>8 DEF CopyForClassification
<1>9. CASE FindDamage
  BY <1>9 DEF FindDamage
<1>10. CASE Quiesce
  BY <1>10 DEF Quiesce
<1>11. CASE Quiesced
  BY <1>11 DEF Quiesced
<1>12. CASE DropCopy
  BY <1>12 DEF DropCopy
<1>13. CASE StageDone
  BY <1>13 DEF StageDone
<1>14. CASE PortableCopy
  <2>1. portable' \subseteq Files
    BY <1>14 DEF PortableCopy, PortableFiles
  <2> QED
    BY <1>14, <2>1 DEF PortableCopy
<1>15. CASE Seal
  <2>1. mem' = [mem EXCEPT !.phase = "publishing", !.staged = staging]
    BY <1>15 DEF Seal
  <2>2. mem' \in Journal
    BY <2>1
  <2> QED
    BY <1>15, <2>2 DEF Seal
<1>16. CASE Guard
  BY <1>16 DEF Guard
<1>17. CASE PreserveDone
  BY <1>17 DEF PreserveDone
<1>18. CASE PublishDone
  BY <1>18 DEF PublishDone
<1>19. CASE Validate
  BY <1>19 DEF Validate
<1>20. CASE Finish
  BY <1>20 DEF Finish
<1>21. CASE FinishRefused
  BY <1>21 DEF FinishRefused, Report
<1>22. CASE RollbackStaging
  BY <1>22 DEF RollbackStaging
<1>23. CASE RollbackPublished
  BY <1>23 DEF RollbackPublished
<1>24. CASE RollbackRefused
  BY <1>24 DEF RollbackRefused, Report
<1>25. CASE UnpublishDone
  BY <1>25 DEF UnpublishDone
<1>26. CASE UnpreserveDone
  BY <1>26 DEF UnpreserveDone
<1>27. CASE ReverseRefused
  BY <1>27 DEF ReverseRefused, Report
<1>28. CASE CleanupCopy
  BY <1>28 DEF CleanupCopy
<1>29. CASE CleanupDone
  BY <1>29 DEF CleanupDone
<1>30. CASE CleanupRefused
  BY <1>30 DEF CleanupRefused, Report
<1>31. CASE RemoveDirectories
  BY <1>31 DEF RemoveDirectories
<1>32. CASE UnlinkJournal
  <2>1. {previous', evidence'} \subseteq Image /\ dirs' \subseteq {"staging", "previous"}
    <3>1. CASE RemovesPrevious
      BY <1>32, <3>1 DEF UnlinkJournal
    <3>2. CASE ~RemovesPrevious
      BY <1>32, <3>2 DEF UnlinkJournal
    <3> QED
      BY <3>1, <3>2
  <2>2. NoJournal \in Journal
    OBVIOUS
  <2>3. pc' = "unlinkKey"
    BY <1>32 DEF UnlinkJournal
  <2> QED
    BY <1>32, <2>1, <2>2, <2>3 DEF UnlinkJournal
<1>33. CASE UnlinkKey
  BY <1>33 DEF UnlinkKey, Report
<1>34. CASE StartRecovery
  BY <1>34 DEF StartRecovery
<1>35. CASE SweepTemporary
  BY <1>35 DEF SweepTemporary
<1>36. CASE SweepKey
  BY <1>36 DEF SweepKey
<1>37. CASE SweepRefused
  BY <1>37 DEF SweepRefused, Report
<1>38. CASE SweepDone
  BY <1>38 DEF SweepDone
<1>39. CASE ReadJournal
  BY <1>39 DEF ReadJournal
<1>40. CASE Fail
  <2>1. NoJournal \in Journal
    OBVIOUS
  <2>2. CASE journal.phase # "none"
    <3>1. /\ temporary' \in BOOLEAN /\ classification' = classification \ {"journal"}
          /\ command' = "catch" /\ pc' = "rollback" /\ mem' = journal
          /\ UNCHANGED <<after, key, outcome, live, staging, partial, portable, previous,
                          dirs, journal, evidence, before, target, refusal, touched>>
      BY <1>40, <2>2 DEF Fail, TemporaryMayGo
    <3> QED
      BY <3>1
  <2>3. CASE journal.phase = "none"
    BY <1>40, <2>1, <2>3 DEF Fail, TemporaryMayGo
  <2> QED
    BY <2>2, <2>3
<1>41. CASE Crash
  BY <1>41 DEF Crash
<1>42. ASSUME NEW f \in Files, StageCopy(f) PROVE TypeOK'
  BY <1>42 DEF StageCopy
<1>43. ASSUME NEW f \in Files, StageRename(f) PROVE TypeOK'
  BY <1>43 DEF StageRename
<1>44. ASSUME NEW f \in Files, Preserve(f) PROVE TypeOK'
  BY <1>44 DEF Preserve
<1>45. ASSUME NEW f \in Files, Publish(f) PROVE TypeOK'
  BY <1>45 DEF Publish
<1>46. ASSUME NEW f \in Files, Unpublish(f) PROVE TypeOK'
  BY <1>46 DEF Unpublish
<1>47. ASSUME NEW f \in Files, Unpreserve(f) PROVE TypeOK'
  BY <1>47 DEF Unpreserve
<1>48. ASSUME NEW f \in Files, CleanupPartial(f) PROVE TypeOK'
  BY <1>48 DEF CleanupPartial
<1>49. ASSUME NEW f \in Files, CleanupPortable(f) PROVE TypeOK'
  BY <1>49 DEF CleanupPortable
<1>50. ASSUME NEW f \in Files, CleanupStaged(f) PROVE TypeOK'
  BY <1>50 DEF CleanupStaged
<1>51. ASSUME NEW f \in Files, CleanupPrevious(f) PROVE TypeOK'
  BY <1>51 DEF CleanupPrevious
<1>52. ASSUME NEW c \in Content, PortableRename(c) PROVE TypeOK'
  BY <1>52 DEF PortableRename
<1>53. ASSUME NEW c \in Content, ExternalWrite(c) PROVE TypeOK'
  BY <1>53 DEF ExternalWrite
<1>54. ASSUME NEW image \in Image, Begin(image) PROVE TypeOK'
  <2>1. mem' = [phase |-> "staging", branch |-> "damaged", staged |-> image, previous |-> live]
    BY <1>54 DEF Begin
  <2>2. mem' \in Journal
    BY <2>1
  <2>3. /\ command' = "restore" /\ pc' = "persist" /\ after' = "mkdir"
        /\ before' = live /\ target' = live
        /\ outcome' = "none" /\ refusal' = "none" /\ touched' = FALSE
        /\ UNCHANGED <<directory, ledger>>
    BY <1>54 DEF Begin
  <2>4. {live', staging', previous', evidence', before', target'} \subseteq Image
    BY <2>3
  <2> QED
    BY <2>2, <2>3, <2>4
<1>55. CASE GiveUp
  <2>1. /\ outcome' \in {"restored", "failed", "failed-after-commit", outcome}
        /\ temporary' \in BOOLEAN
    BY <1>55 DEF GiveUp, Report, TemporaryMayGo
  <2>2. NoJournal \in Journal
    OBVIOUS
  <2> QED
    BY <1>55, <2>1, <2>2 DEF GiveUp
<1>56. CASE UNCHANGED vars
  BY <1>56 DEF vars
<1> QED
  BY <1>1, <1>2, <1>3, <1>4, <1>5, <1>6, <1>7, <1>8, <1>9, <1>10, <1>11,
     <1>12, <1>13, <1>14, <1>15, <1>16, <1>17, <1>18, <1>19, <1>20, <1>21,
     <1>22, <1>23, <1>24, <1>25, <1>26, <1>27, <1>28, <1>29, <1>30, <1>31,
     <1>32, <1>33, <1>34, <1>35, <1>36, <1>37, <1>38, <1>39, <1>40, <1>41,
     <1>42, <1>43, <1>44, <1>45, <1>46, <1>47, <1>48, <1>49, <1>50, <1>51,
     <1>52, <1>53, <1>54, <1>55, <1>56
  DEF Next, ProgramStep, PersistStep, RestoreStep, SettleStep, RecoveryStep,
      Interruption

USE DEF Writing, At, Resumptions, PhasesAt, PhasesBefore, StagingSteps,
        PublishingSteps, RestoreSteps, CleanupSteps, RemovesPrevious, Original,
        Moved, Replaced, AllOriginal, NoneReplaced, NoneOriginal, AllReplaced,
        InFlight, RecordAgrees, TypeOK

\* Every action keeps the control and the data in step.
LEMMA CoreStep == Inv /\ [Next]_vars /\ TypeOK' => Core'
<1> SUFFICES ASSUME Inv, [Next]_vars, TypeOK' PROVE Core'
  OBVIOUS
<1> USE DEF Inv, Core, Control, PhaseData, StepData, OutcomeData
<1>1. CASE CreateKey
  BY <1>1 DEF CreateKey
<1>2. CASE FillKey
  BY <1>2 DEF FillKey
<1>3. CASE WriteTemporary
  BY <1>3 DEF WriteTemporary
<1>4. CASE PublishJournal
  <2>1. Control'
    BY <1>4 DEF PublishJournal
  <2>2. PhaseData'
    BY <1>4 DEF PublishJournal
  <2>3. StepData'
    BY <1>4 DEF PublishJournal
  <2>4. OutcomeData'
    BY <1>4 DEF PublishJournal
  <2> QED
    BY <2>1, <2>2, <2>3, <2>4
<1>5. CASE MakeStagingDirectory
  BY <1>5 DEF MakeStagingDirectory
<1>6. CASE MakePreviousDirectory
  BY <1>6 DEF MakePreviousDirectory
<1>7. CASE ClassifyDamaged
  BY <1>7 DEF ClassifyDamaged
<1>8. CASE CopyForClassification
  BY <1>8 DEF CopyForClassification
<1>9. CASE FindDamage
  BY <1>9 DEF FindDamage
<1>10. CASE Quiesce
  BY <1>10 DEF Quiesce
<1>11. CASE Quiesced
  BY <1>11 DEF Quiesced
<1>12. CASE DropCopy
  BY <1>12 DEF DropCopy
<1>13. CASE StageDone
  <2>1. Control'
    BY <1>13 DEF StageDone, Names
  <2>2. PhaseData'
    BY <1>13 DEF StageDone, Names
  <2>3. StepData'
    BY <1>13 DEF StageDone, Names
  <2>4. OutcomeData'
    BY <1>13 DEF StageDone, Names
  <2> QED
    BY <2>1, <2>2, <2>3, <2>4
<1>14. CASE PortableCopy
  BY <1>14 DEF PortableCopy
<1>15. CASE Seal
  <2>1. Control'
    BY <1>15 DEF Seal, Unchanged
  <2>2. PhaseData'
    BY <1>15 DEF Seal, Unchanged
  <2>3. StepData'
    BY <1>15 DEF Seal, Unchanged
  <2>4. OutcomeData'
    BY <1>15 DEF Seal, Unchanged
  <2> QED
    BY <2>1, <2>2, <2>3, <2>4
<1>16. CASE Guard
  BY <1>16 DEF Guard
<1>17. CASE PreserveDone
  <2>1. Control'
    BY <1>17 DEF PreserveDone, Names
  <2>2. PhaseData'
    BY <1>17 DEF PreserveDone, Names
  <2>3. StepData'
    BY <1>17 DEF PreserveDone, Names
  <2>4. OutcomeData'
    BY <1>17 DEF PreserveDone, Names
  <2> QED
    BY <2>1, <2>2, <2>3, <2>4
<1>18. CASE PublishDone
  BY <1>18 DEF PublishDone
<1>19. CASE Validate
  <2>1. Control'
    BY <1>19 DEF Validate
  <2>2. PhaseData'
    BY <1>19 DEF Validate
  <2>3. StepData'
    BY <1>19 DEF Validate
  <2>4. OutcomeData'
    BY <1>19 DEF Validate
  <2> QED
    BY <2>1, <2>2, <2>3, <2>4
<1>20. CASE Finish
  BY <1>20 DEF Finish
<1>21. CASE FinishRefused
  BY <1>21 DEF FinishRefused, Report
<1>22. CASE RollbackStaging
  BY <1>22 DEF RollbackStaging
<1>23. CASE RollbackPublished
  <2>1. Control'
    BY <1>23 DEF RollbackPublished
  <2>2. PhaseData'
    BY <1>23 DEF RollbackPublished
  <2>3. StepData'
    BY <1>23 DEF RollbackPublished
  <2>4. OutcomeData'
    BY <1>23 DEF RollbackPublished
  <2> QED
    BY <2>1, <2>2, <2>3, <2>4
<1>24. CASE RollbackRefused
  BY <1>24 DEF RollbackRefused, Report
<1>25. CASE UnpublishDone
  <2>1. Control'
    BY <1>25 DEF UnpublishDone, Names, UnpublishVerdict, Observed
  <2>2. PhaseData'
    BY <1>25 DEF UnpublishDone, Names, UnpublishVerdict, Observed
  <2>3. StepData'
    BY <1>25 DEF UnpublishDone, Names, UnpublishVerdict, Observed
  <2>4. OutcomeData'
    BY <1>25 DEF UnpublishDone, Names, UnpublishVerdict, Observed
  <2> QED
    BY <2>1, <2>2, <2>3, <2>4
<1>26. CASE UnpreserveDone
  <2>1. Control'
    BY <1>26 DEF UnpreserveDone, Names, UnpreserveVerdict, Observed
  <2>2. PhaseData'
    BY <1>26 DEF UnpreserveDone, Names, UnpreserveVerdict, Observed
  <2>3. StepData'
    BY <1>26 DEF UnpreserveDone, Names, UnpreserveVerdict, Observed
  <2>4. OutcomeData'
    BY <1>26 DEF UnpreserveDone, Names, UnpreserveVerdict, Observed
  <2> QED
    BY <2>1, <2>2, <2>3, <2>4
<1>27. CASE ReverseRefused
  BY <1>27 DEF ReverseRefused, Report
<1>28. CASE CleanupCopy
  BY <1>28 DEF CleanupCopy
<1>29. CASE CleanupDone
  BY <1>29 DEF CleanupDone
<1>30. CASE CleanupRefused
  <2>1. Control'
    BY <1>30 DEF CleanupRefused, Report
  <2>2. PhaseData'
    BY <1>30 DEF CleanupRefused, Report
  <2>3. StepData'
    BY <1>30 DEF CleanupRefused, Report
  <2>4. OutcomeData'
    <3>1. pc \in {"cleanup", "rmdir"}
      BY <1>30 DEF CleanupRefused, CleanupBlocked
    <3> QED
      BY <1>30, <3>1 DEF CleanupRefused, Report
  <2> QED
    BY <2>1, <2>2, <2>3, <2>4
<1>31. CASE RemoveDirectories
  <2>1. Control'
    BY <1>31 DEF RemoveDirectories, StagingEmpty
  <2>2. PhaseData'
    BY <1>31 DEF RemoveDirectories, StagingEmpty
  <2>3. StepData'
    BY <1>31 DEF RemoveDirectories, StagingEmpty
  <2>4. OutcomeData'
    BY <1>31 DEF RemoveDirectories, StagingEmpty
  <2> QED
    BY <2>1, <2>2, <2>3, <2>4
<1>32. CASE UnlinkJournal
  BY <1>32 DEF UnlinkJournal
<1>33. CASE UnlinkKey
  BY <1>33 DEF UnlinkKey, Report
<1>34. CASE StartRecovery
  BY <1>34 DEF StartRecovery
<1>35. CASE SweepTemporary
  BY <1>35 DEF SweepTemporary
<1>36. CASE SweepKey
  BY <1>36 DEF SweepKey
<1>37. CASE SweepRefused
  BY <1>37 DEF SweepRefused, Report
<1>38. CASE SweepDone
  BY <1>38 DEF SweepDone
<1>39. CASE ReadJournal
  <2>1. Control'
    BY <1>39 DEF ReadJournal
  <2>2. PhaseData'
    BY <1>39 DEF ReadJournal
  <2>3. StepData'
    BY <1>39 DEF ReadJournal
  <2>4. OutcomeData'
    BY <1>39 DEF ReadJournal
  <2> QED
    BY <2>1, <2>2, <2>3, <2>4
<1>40. CASE Fail
  BY <1>40 DEF Fail
<1>41. CASE Crash
  BY <1>41 DEF Crash
<1>42. ASSUME NEW f \in Files, StageCopy(f) PROVE Core'
  BY <1>42 DEF StageCopy
<1>43. ASSUME NEW f \in Files, StageRename(f) PROVE Core'
  BY <1>43 DEF StageRename
<1>44. ASSUME NEW f \in Files, Preserve(f) PROVE Core'
  BY <1>44 DEF Preserve
<1>45. ASSUME NEW f \in Files, Publish(f) PROVE Core'
  <2>1. Control'
    BY <1>45 DEF Publish
  <2>2. PhaseData'
    BY <1>45 DEF Publish
  <2>3. StepData'
    BY <1>45 DEF Publish
  <2>4. OutcomeData'
    BY <1>45 DEF Publish
  <2> QED
    BY <2>1, <2>2, <2>3, <2>4
<1>46. ASSUME NEW f \in Files, Unpublish(f) PROVE Core'
  <2>1. Control'
    BY <1>46 DEF Unpublish, Names, UnpublishVerdict, Observed
  <2>2. PhaseData'
    BY <1>46 DEF Unpublish, Names, UnpublishVerdict, Observed
  <2>3. StepData'
    BY <1>46 DEF Unpublish, Names, UnpublishVerdict, Observed
  <2>4. OutcomeData'
    BY <1>46 DEF Unpublish, Names, UnpublishVerdict, Observed
  <2> QED
    BY <2>1, <2>2, <2>3, <2>4
<1>47. ASSUME NEW f \in Files, Unpreserve(f) PROVE Core'
  <2>1. Control'
    BY <1>47 DEF Unpreserve, Names, UnpreserveVerdict, Observed
  <2>2. PhaseData'
    BY <1>47 DEF Unpreserve, Names, UnpreserveVerdict, Observed
  <2>3. StepData'
    BY <1>47 DEF Unpreserve, Names, UnpreserveVerdict, Observed
  <2>4. OutcomeData'
    BY <1>47 DEF Unpreserve, Names, UnpreserveVerdict, Observed
  <2> QED
    BY <2>1, <2>2, <2>3, <2>4
<1>48. ASSUME NEW f \in Files, CleanupPartial(f) PROVE Core'
  BY <1>48 DEF CleanupPartial
<1>49. ASSUME NEW f \in Files, CleanupPortable(f) PROVE Core'
  BY <1>49 DEF CleanupPortable
<1>50. ASSUME NEW f \in Files, CleanupStaged(f) PROVE Core'
  <2>1. Control'
    BY <1>50 DEF CleanupStaged, Names
  <2>2. PhaseData'
    BY <1>50 DEF CleanupStaged, Names
  <2>3. StepData'
    BY <1>50 DEF CleanupStaged, Names
  <2>4. OutcomeData'
    BY <1>50 DEF CleanupStaged, Names
  <2> QED
    BY <2>1, <2>2, <2>3, <2>4
<1>51. ASSUME NEW f \in Files, CleanupPrevious(f) PROVE Core'
  <2>1. Control'
    BY <1>51 DEF CleanupPrevious, CoversPrevious
  <2>2. PhaseData'
    BY <1>51 DEF CleanupPrevious, CoversPrevious
  <2>3. StepData'
    BY <1>51 DEF CleanupPrevious, CoversPrevious
  <2>4. OutcomeData'
    BY <1>51 DEF CleanupPrevious, CoversPrevious
  <2> QED
    BY <2>1, <2>2, <2>3, <2>4
<1>52. ASSUME NEW c \in Content, PortableRename(c) PROVE Core'
  BY <1>52 DEF PortableRename
<1>53. ASSUME NEW c \in Content, ExternalWrite(c) PROVE Core'
  <2>1. Control'
    BY <1>53 DEF ExternalWrite, DatabaseReplaced, InForce
  <2>2. PhaseData'
    BY <1>53 DEF ExternalWrite, DatabaseReplaced, InForce
  <2>3. StepData'
    BY <1>53 DEF ExternalWrite, DatabaseReplaced, InForce
  <2>4. OutcomeData'
    BY <1>53 DEF ExternalWrite, DatabaseReplaced, InForce
  <2> QED
    BY <2>1, <2>2, <2>3, <2>4
<1>54. ASSUME NEW image \in Image, Begin(image) PROVE Core'
  <2>1. Control'
    BY <1>54 DEF Begin, Pending, Names, PortableFiles
  <2>2. PhaseData'
    BY <1>54 DEF Begin, Pending, Names, PortableFiles
  <2>3. StepData'
    BY <1>54 DEF Begin, Pending, Names, PortableFiles
  <2>4. OutcomeData'
    BY <1>54 DEF Begin, Pending, Names, PortableFiles
  <2> QED
    BY <2>1, <2>2, <2>3, <2>4
<1>55. CASE GiveUp
  <2>1. Control'
    BY <1>55 DEF GiveUp, Report
  <2>2. PhaseData'
    BY <1>55 DEF GiveUp, Report
  <2>3. StepData'
    BY <1>55 DEF GiveUp, Report
  <2>4. OutcomeData'
    BY <1>55 DEF GiveUp, Report
  <2> QED
    BY <2>1, <2>2, <2>3, <2>4
<1>56. CASE UNCHANGED vars
  BY <1>56 DEF vars
<1> HIDE DEF Inv, Core
<1> QED
  BY <1>1, <1>2, <1>3, <1>4, <1>5, <1>6, <1>7, <1>8, <1>9, <1>10, <1>11,
     <1>12, <1>13, <1>14, <1>15, <1>16, <1>17, <1>18, <1>19, <1>20, <1>21,
     <1>22, <1>23, <1>24, <1>25, <1>26, <1>27, <1>28, <1>29, <1>30, <1>31,
     <1>32, <1>33, <1>34, <1>35, <1>36, <1>37, <1>38, <1>39, <1>40, <1>41,
     <1>42, <1>43, <1>44, <1>45, <1>46, <1>47, <1>48, <1>49, <1>50, <1>51,
     <1>52, <1>53, <1>54, <1>55, <1>56
  DEF Next, ProgramStep, PersistStep, RestoreStep, SettleStep, RecoveryStep,
      Interruption

\* Nothing has happened yet.
LEMMA InvInit == Init => Inv
<1> SUFFICES ASSUME Init PROVE Inv
  OBVIOUS
<1>1. TypeOK
  <2>1. {live, staging, previous, evidence, before, target} \subseteq Image
    BY DEF Init
  <2>2. NoJournal \in Journal
    OBVIOUS
  <2>3. {journal, mem} \subseteq Journal
    BY <2>2 DEF Init
  <2> QED
    BY <2>1, <2>3 DEF Init
<1>2. Control /\ OutcomeData
  BY DEF Init, Control, OutcomeData
<1>3. PhaseData
  BY DEF Init, PhaseData
<1>4. StepData
  BY DEF Init, StepData
<1> QED
  BY <1>1, <1>2, <1>3, <1>4 DEF Inv, Core

\* The inductive invariant, from which everything below follows: the restore
\* (recovery.ts:1059) and the recovery (recovery.ts:644) keep track of where
\* the old and the new content of every file are.
THEOREM RestoreInvariance == Spec => []Inv
<1>1. Init => Inv
  BY InvInit
<1>2. Inv /\ [Next]_vars => Inv'
  BY TypeStep, CoreStep DEF Inv
<1> QED
  BY <1>1, <1>2, PTL DEF Spec

\* Every variable keeps its type.
THEOREM RestoreTypeCorrect == Spec => []TypeOK
<1>1. Inv => TypeOK
  BY DEF Inv
<1> QED
  BY <1>1, RestoreInvariance, PTL

\* No interleaving of renames, crashes and interrupted rollbacks loses the
\* original of a file while the outcome of the restore is open.
THEOREM RestoreRecoverable == Spec => []OriginalRecoverable
<1>1. Inv => OriginalRecoverable
  BY DEF Inv, Core, PhaseData, OriginalRecoverable, Names
<1> QED
  BY <1>1, RestoreInvariance, PTL

\* The phase read back after a crash tells what the live files are, and a
\* vault without a journal is wholly old or wholly new.
THEOREM RestoreAllOrNothing == Spec => []AllOrNothing
<1>1. Inv => AllOrNothing
  BY DEF Inv, Core, PhaseData, AllOrNothing
<1> QED
  BY <1>1, RestoreInvariance, PTL

----------------------------------------------------------------------------
(* What a transaction leaves behind, and why recovery may give up          *)

\* Nothing of a transaction is there before its journal or after it.
ResidueInv ==
    /\ journal.phase = "none" => StagingEmpty /\ previous = Empty /\ dirs = {}
    /\ pc = "unlinkJournal" =>
          StagingEmpty /\ (RemovesPrevious => previous = Empty /\ dirs = {})

\* Until an external client has written, a journal that moves files records
\* exactly what each was and is to be.
Exact(record) ==
    record.phase \in {"publishing", "rollback", "committed"} =>
        record.staged = target /\ record.previous = before

AgreementInv == (~touched => Exact(journal) /\ Exact(mem)) /\ RefusalsExplained

\* What the process remembers of the vault it replaces is in the journal,
\* but for the verdict on it until that is written; and a vault that was
\* found damaged is kept as it was.
EvidenceInv ==
    /\ mem.phase # "none" /\ journal.phase # "none" /\ mem.branch # journal.branch =>
          pc = "dropCopy" \/ (Writing /\ after = "stage")
    /\ journal.phase = "committed-cleanup" /\ journal.branch = "damaged" => previous = before


LEMMA ResidueStep == Inv /\ ResidueInv /\ [Next]_vars => ResidueInv'
<1> SUFFICES ASSUME Inv, ResidueInv, [Next]_vars PROVE ResidueInv'
  OBVIOUS
<1> USE DEF Inv, Core, Control, ResidueInv, StagingEmpty
<1>1. CASE PersistStep \/ RecoveryStep \/ Crash \/ Fail \/ UNCHANGED vars
  BY <1>1 DEF PersistStep, CreateKey, FillKey, WriteTemporary, PublishJournal,
     RecoveryStep, StartRecovery, SweepTemporary, SweepKey, SweepRefused, SweepDone,
     ReadJournal, Crash, Fail, vars
<1>2. CASE RestoreStep
  <2>1. journal.phase # "none" /\ journal' = journal /\ pc' # "unlinkJournal"
    BY <1>2 DEF RestoreStep, MakeStagingDirectory, MakePreviousDirectory, ClassifyDamaged,
       CopyForClassification, FindDamage, Quiesce, Quiesced, DropCopy, StageCopy, StageRename,
       StageDone, PortableCopy, PortableRename, Seal, Guard, Preserve, Publish, PreserveDone,
       PublishDone, Validate
  <2> QED
    BY <2>1
<1>3. CASE SettleStep /\ ~RemoveDirectories /\ ~UnlinkJournal /\ ~UnlinkKey
  <2>1. journal.phase # "none" /\ journal' = journal /\ pc' # "unlinkJournal"
    BY <1>3 DEF SettleStep, Finish, FinishRefused, RollbackStaging, RollbackPublished,
       RollbackRefused, Unpublish, Unpreserve, UnpublishDone, UnpreserveDone, ReverseRefused,
       CleanupPartial, CleanupPortable, CleanupStaged, CleanupPrevious, CleanupCopy, CleanupDone,
       CleanupRefused, CleanupBlocked
  <2> QED
    BY <2>1
<1>4. CASE RemoveDirectories \/ UnlinkJournal \/ UnlinkKey
  BY <1>4 DEF RemoveDirectories, UnlinkJournal, UnlinkKey
<1>5. ASSUME NEW c \in Content, ExternalWrite(c) PROVE ResidueInv'
  BY <1>5 DEF ExternalWrite
<1>6. ASSUME NEW image \in Image, Begin(image) PROVE ResidueInv'
  BY <1>6 DEF Begin
<1>7. CASE GiveUp
  BY <1>7 DEF GiveUp
<1> QED
  BY <1>1, <1>2, <1>3, <1>4, <1>5, <1>6, <1>7 DEF Next, ProgramStep, Interruption

\* A journal is published exact, and stays so until a client writes.
LEMMA AgreementStep == Inv /\ AgreementInv /\ [Next]_vars => AgreementInv'
<1> SUFFICES ASSUME Inv, AgreementInv, [Next]_vars PROVE AgreementInv'
  OBVIOUS
<1> USE DEF Inv, Core, Control, AgreementInv, Exact, RefusalsExplained
<1>1. CASE PersistStep \/ RecoveryStep \/ Crash \/ Fail \/ UNCHANGED vars
  BY <1>1 DEF PersistStep, CreateKey, FillKey, WriteTemporary, PublishJournal,
     RecoveryStep, StartRecovery, SweepTemporary, SweepKey, SweepRefused, SweepDone,
     ReadJournal, Crash, Fail, vars
<1>2. CASE RestoreStep /\ ~Seal
  <2>1. UNCHANGED <<journal, touched, refusal, before, target>>
    BY <1>2 DEF RestoreStep, MakeStagingDirectory, MakePreviousDirectory, ClassifyDamaged,
       CopyForClassification, FindDamage, Quiesce, Quiesced, DropCopy, StageCopy, StageRename,
       StageDone, PortableCopy, PortableRename, Guard, Preserve, Publish, PreserveDone,
       PublishDone, Validate
  <2>2. Exact(mem) => Exact(mem)'
    BY <1>2 DEF RestoreStep, MakeStagingDirectory, MakePreviousDirectory, ClassifyDamaged,
       CopyForClassification, FindDamage, Quiesce, Quiesced, DropCopy, StageCopy, StageRename,
       StageDone, PortableCopy, PortableRename, Guard, Preserve, Publish, PreserveDone,
       PublishDone, Validate
  <2> QED
    BY <2>1, <2>2
<1>3. CASE Seal
  BY <1>3 DEF Seal, Unchanged, PhaseData
<1>4. CASE SettleStep /\ ~FinishRefused /\ ~RollbackRefused /\ ~ReverseRefused
  <2>1. /\ UNCHANGED <<touched, before, target>>
        /\ journal' \in {journal, NoJournal}
        /\ refusal' \in {refusal, "unknown-entry"}
    BY <1>4 DEF SettleStep, Finish, RollbackStaging, RollbackPublished,
       Unpublish, Unpreserve, UnpublishDone, UnpreserveDone, CleanupPartial, CleanupPortable,
       CleanupStaged, CleanupPrevious, CleanupCopy, CleanupDone, CleanupRefused,
       RemoveDirectories, UnlinkJournal, UnlinkKey
  <2>2. Exact(mem) => Exact(mem)'
    BY <1>4 DEF SettleStep, Finish, RollbackStaging, RollbackPublished,
       Unpublish, Unpreserve, UnpublishDone, UnpreserveDone, CleanupPartial, CleanupPortable,
       CleanupStaged, CleanupPrevious, CleanupCopy, CleanupDone, CleanupRefused,
       RemoveDirectories, UnlinkJournal, UnlinkKey
  <2> QED
    BY <2>1, <2>2
<1>5. CASE FinishRefused
  <2>1. AllReplaced /\ mem.phase = "committed"
    BY <1>5 DEF FinishRefused, StepData
  <2>2. touched
    BY <1>5, <2>1 DEF FinishRefused, Names
  <2> QED
    BY <1>5, <2>2 DEF FinishRefused
<1>6. CASE RollbackRefused
  <2>1. InFlight /\ mem.phase \in {"publishing", "rollback", "committed"}
    BY <1>6 DEF RollbackRefused, PhaseData
  <2>2. ASSUME ~touched PROVE Reversible
    <3>1. mem.staged = target /\ mem.previous = before
      BY <2>1, <2>2
    <3>2. \A f \in Names(mem.staged) : PublishReversible(f)
      BY <2>1, <3>1 DEF PublishReversible, Observed, Names
    <3>3. \A f \in Names(mem.previous) : PreserveReversible(f)
      BY <2>1, <3>1 DEF PreserveReversible, Observed, Names
    <3> QED
      BY <3>2, <3>3 DEF Reversible
  <2> QED
    BY <1>6, <2>2 DEF RollbackRefused
<1>7. CASE ReverseRefused
  <2>1. mem.phase = "rollback" /\ InFlight /\ (pc = "unpreserve" => NoneReplaced)
    BY <1>7 DEF ReverseRefused, PhaseData, StepData
  <2>2. ASSUME ~touched
        PROVE  /\ \A f \in Names(mem.staged) : UnpublishVerdict(f) # "stop"
               /\ pc = "unpreserve" =>
                     \A f \in Names(mem.previous) : UnpreserveVerdict(f) # "stop"
    <3>1. mem.staged = target /\ mem.previous = before
      BY <2>1, <2>2
    <3>2. ASSUME NEW f \in Names(mem.staged) PROVE UnpublishVerdict(f) # "stop"
      BY <2>1, <3>1 DEF UnpublishVerdict, Observed, Names
    <3>3. ASSUME pc = "unpreserve", NEW f \in Names(mem.previous)
          PROVE  UnpreserveVerdict(f) # "stop"
      BY <2>1, <3>1, <3>3 DEF UnpreserveVerdict, Observed, Names
    <3> QED
      BY <3>2, <3>3
  <2>3. touched
    BY <1>7, <2>2 DEF ReverseRefused
  <2> QED
    BY <1>7, <2>3 DEF ReverseRefused
<1>8. ASSUME NEW c \in Content, ExternalWrite(c) PROVE AgreementInv'
  <2>1. /\ UNCHANGED <<journal, mem, refusal>>
        /\ touched' = (touched \/ InForce.phase # "staging")
    BY <1>8 DEF ExternalWrite
  <2>2. InForce.phase = "staging" =>
           {journal.phase, mem.phase} \subseteq {"none", "staging"}
    BY DEF InForce
  <2> QED
    BY <2>1, <2>2
<1>9. ASSUME NEW image \in Image, Begin(image) PROVE AgreementInv'
  BY <1>9 DEF Begin, Pending
<1>10. CASE GiveUp
  BY <1>10 DEF GiveUp
<1> QED
  BY <1>1, <1>2, <1>3, <1>4, <1>5, <1>6, <1>7, <1>8, <1>9, <1>10
  DEF Next, ProgramStep, Interruption

\* The verdict on the vault gets into the journal, and what a damaged vault
\* held stays in the previous directory from the commit on.
LEMMA EvidenceStep == Inv /\ EvidenceInv /\ [Next]_vars => EvidenceInv'
<1> SUFFICES ASSUME Inv, EvidenceInv, [Next]_vars PROVE EvidenceInv'
  OBVIOUS
<1> USE DEF Inv, Core, Control, EvidenceInv
<1>1. CASE (PersistStep /\ ~PublishJournal) \/ RecoveryStep \/ Crash \/ Fail \/ UNCHANGED vars
  BY <1>1 DEF PersistStep, CreateKey, FillKey, WriteTemporary,
     RecoveryStep, StartRecovery, SweepTemporary, SweepKey, SweepRefused, SweepDone,
     ReadJournal, Crash, Fail, vars
<1>2. CASE PublishJournal
  <2>1. mem.phase = "committed-cleanup" /\ journal.phase # "committed-cleanup" => previous = before
    BY <1>2 DEF PublishJournal, PhaseData
  <2> QED
    BY <1>2, <2>1 DEF PublishJournal
<1>3. CASE Quiesced \/ DropCopy
  BY <1>3 DEF Quiesced, DropCopy
<1>4. CASE RestoreStep /\ ~Quiesced /\ ~DropCopy
  <2>1. pc \in (StagingSteps \cup PublishingSteps) \ {"quiesced", "dropCopy"}
    BY <1>4 DEF RestoreStep, MakeStagingDirectory, MakePreviousDirectory, ClassifyDamaged,
       CopyForClassification, FindDamage, Quiesce, StageCopy, StageRename,
       StageDone, PortableCopy, PortableRename, Seal, Guard, Preserve, Publish, PreserveDone,
       PublishDone, Validate
  <2>2. UNCHANGED journal
    BY <1>4 DEF RestoreStep, MakeStagingDirectory, MakePreviousDirectory, ClassifyDamaged,
       CopyForClassification, FindDamage, Quiesce, StageCopy, StageRename,
       StageDone, PortableCopy, PortableRename, Seal, Guard, Preserve, Publish, PreserveDone,
       PublishDone, Validate
  <2>3. mem'.branch = mem.branch
    BY <1>4 DEF RestoreStep, MakeStagingDirectory, MakePreviousDirectory, ClassifyDamaged,
       CopyForClassification, FindDamage, Quiesce, StageCopy, StageRename,
       StageDone, PortableCopy, PortableRename, Seal, Guard, Preserve, Publish, PreserveDone,
       PublishDone, Validate
  <2> QED
    BY <2>1, <2>2, <2>3
<1>5. CASE SettleStep
  <2>1. /\ journal' \in {journal, NoJournal} /\ before' = before
        /\ mem'.branch = mem.branch \/ mem'.phase = "none"
        /\ pc # "dropCopy" /\ ~Writing /\ mem.phase # "none"
    BY <1>5 DEF SettleStep, Finish, FinishRefused, RollbackStaging, RollbackPublished,
       RollbackRefused, Unpublish, Unpreserve, UnpublishDone, UnpreserveDone, ReverseRefused,
       CleanupPartial, CleanupPortable, CleanupStaged, CleanupPrevious, CleanupCopy, CleanupDone,
       CleanupRefused, CleanupBlocked, RemoveDirectories, UnlinkJournal, UnlinkKey
  <2>2. journal' = journal /\ journal.phase = "committed-cleanup" /\ journal.branch = "damaged"
           => previous' = previous
    BY <1>5, <2>1 DEF SettleStep, Finish, FinishRefused, RollbackStaging, RollbackPublished,
       RollbackRefused, Unpublish, Unpreserve, UnpublishDone, UnpreserveDone, ReverseRefused,
       CleanupPartial, CleanupPortable, CleanupStaged, CleanupPrevious, CleanupCopy, CleanupDone,
       CleanupRefused, CleanupBlocked, RemoveDirectories, UnlinkJournal, UnlinkKey, CoversPrevious
  <2> QED
    BY <2>1, <2>2
<1>6. ASSUME NEW c \in Content, ExternalWrite(c) PROVE EvidenceInv'
  BY <1>6 DEF ExternalWrite, DatabaseReplaced, PhaseData
<1>7. ASSUME NEW image \in Image, Begin(image) PROVE EvidenceInv'
  BY <1>7 DEF Begin, Pending
<1>8. CASE GiveUp
  BY <1>8 DEF GiveUp
<1> QED
  BY <1>1, <1>2, <1>3, <1>4, <1>5, <1>6, <1>7, <1>8 DEF Next, ProgramStep, Interruption

\* The three hold along with the invariant.
LEMMA RestoreAccounts == Spec => [](Inv /\ ResidueInv /\ AgreementInv /\ EvidenceInv)
<1>1. Init => ResidueInv /\ AgreementInv /\ EvidenceInv
  BY DEF Init, ResidueInv, AgreementInv, EvidenceInv, StagingEmpty, Exact, RefusalsExplained
<1>2. Inv /\ [Next]_vars => Inv'
  BY TypeStep, CoreStep DEF Inv
<1> QED
  BY <1>1, <1>2, InvInit, ResidueStep, AgreementStep, EvidenceStep, PTL DEF Spec

\* The journal on disk changes in two steps only.
LEMMA JournalSteps == [Next]_vars => journal' = journal \/ PublishJournal \/ UnlinkJournal
BY DEF Next, vars, ProgramStep, PersistStep, RestoreStep, SettleStep, RecoveryStep, Interruption,
   CreateKey, FillKey, WriteTemporary, MakeStagingDirectory, MakePreviousDirectory,
   ClassifyDamaged, CopyForClassification, FindDamage, Quiesce, Quiesced, DropCopy, StageCopy,
   StageRename, StageDone, PortableCopy, PortableRename, Seal, Guard, Preserve, Publish,
   PreserveDone, PublishDone, Validate, Finish, FinishRefused, RollbackStaging, RollbackPublished,
   RollbackRefused, Unpublish, Unpreserve, UnpublishDone, UnpreserveDone, ReverseRefused,
   CleanupPartial, CleanupPortable, CleanupStaged, CleanupPrevious, CleanupCopy, CleanupDone,
   CleanupRefused, RemoveDirectories, UnlinkKey, StartRecovery, SweepTemporary, SweepKey,
   SweepRefused, SweepDone, ReadJournal, Begin, Crash, Fail, GiveUp, ExternalWrite

\* Whatever was interrupted, a vault with nothing pending has no file and no
\* directory of a transaction in it (recovery.ts:656, :861).
THEOREM RestoreLeavesNothing == Spec => []NothingLeftBehind
<1>1. ResidueInv => NothingLeftBehind
  BY DEF ResidueInv, NothingLeftBehind, Pending
<1> QED
  BY <1>1, RestoreAccounts, PTL

\* Recovery calls a state mixed only if an external client wrote the database
\* after the restore was sealed: no death or error of its own leads there.
THEOREM RestoreRefusals == Spec => []RefusalsExplained
<1>1. AgreementInv => RefusalsExplained
  BY DEF AgreementInv
<1> QED
  BY <1>1, RestoreAccounts, PTL

\* A restore over a damaged vault ends with all it replaced kept as evidence.
THEOREM RestoreKeepsEvidence == Spec => EvidenceKept
<1> DEFINE Ends == journal.phase = "committed-cleanup" /\ journal' = NoJournal
           Kept == IF journal.branch = "damaged" THEN evidence' = before
                                                 ELSE evidence' = evidence
<1>1. Inv /\ EvidenceInv /\ [Next]_vars => [Ends => Kept]_vars
  <2> SUFFICES ASSUME Inv, EvidenceInv, Next, Ends PROVE Kept
    OBVIOUS
  <2>1. UnlinkJournal
    BY JournalSteps DEF PublishJournal, Inv, Core, Control
  <2>2. mem.branch = journal.branch /\ mem.phase = "committed-cleanup"
    BY <2>1 DEF UnlinkJournal, Inv, Core, Control, EvidenceInv
  <2> QED
    BY <2>1, <2>2 DEF UnlinkJournal, EvidenceInv, Inv
<1> QED
  BY <1>1, RestoreAccounts, PTL DEF Spec, EvidenceKept

----------------------------------------------------------------------------
(* The restore implements AtomicReplace                                    *)

\* The image a recovery would give is the old one until the commit is
\* journalled, and the live one otherwise.
RecoveredInv ==
    /\ RecoveredImage = IF RestoreStage = "open" THEN before ELSE live
    /\ RecoveredImage \in Image

LEMMA RecoveredIs == Inv => RecoveredInv
<1> SUFFICES ASSUME Inv PROVE RecoveredInv
  OBVIOUS
<1> USE DEF Inv, Core, PhaseData, RecoveredInv
<1>1. CASE journal.phase \in {"publishing", "rollback"}
  <2>1. ASSUME NEW f \in Files
        PROVE  before[f] = IF previous[f] # Absent THEN previous[f]
                           ELSE IF journal.previous[f] # Absent THEN live[f] ELSE Absent
    BY <1>1
  <2>2. RecoveredImage = before
    BY <1>1, <2>1 DEF RecoveredImage
  <2> QED
    BY <1>1, <2>2 DEF RestoreStage
<1>2. CASE journal.phase \notin {"publishing", "rollback"}
  BY <1>2 DEF RecoveredImage, RestoreStage
<1> QED
  BY <1>1, <1>2

(* No later death, error or recovery turns what a restore has reported into *)
(* its opposite.  A failure whose rollback failed as well is still rolled   *)
(* back, unless the commit journal was on disk when it was reported: then   *)
(* the restore is completed (recovery.ts:1285-1313).                        *)
THEOREM RestoreOutcomeHolds == Spec => []ReportedOutcomeHolds
<1>1. ASSUME Inv PROVE ReportedOutcomeHolds
  <2>1. RecoveredImage = IF RestoreStage = "open" THEN before ELSE live
    BY <1>1, RecoveredIs DEF RecoveredInv
  <2>2. CASE outcome \in {"restored", "failed-after-commit"}
    <3>1. RestoreStage # "open" /\ live = target
      BY <1>1, <2>2 DEF Inv, Core, PhaseData, OutcomeData, RestoreStage
    <3> QED
      BY <2>1, <2>2, <3>1 DEF ReportedOutcomeHolds
  <2>3. CASE outcome = "failed"
    <3>1. RestoreStage = "open" \/ live = before
      BY <1>1, <2>3 DEF Inv, Core, OutcomeData, RestoreStage
    <3> QED
      BY <2>1, <2>3, <3>1 DEF ReportedOutcomeHolds
  <2> QED
    BY <2>2, <2>3 DEF ReportedOutcomeHolds
<1> QED
  BY <1>1, RestoreInvariance, PTL

\* Apart from what a journal, a new restore or an external client changes, a
\* step moves live files only while recovery would put them back.
LEMMA OtherSteps ==
    Inv /\ [Next]_vars =>
        \/ PublishJournal \/ UnlinkJournal
        \/ \E c \in Content : ExternalWrite(c)
        \/ \E image \in Image : Begin(image)
        \/ UNCHANGED <<journal, before>> /\ (live' = live \/ RestoreStage = "open")
BY DEF Inv, Core, Control, RestoreStage, Next, vars, ProgramStep, PersistStep, RestoreStep,
   SettleStep, RecoveryStep, Interruption,
   CreateKey, FillKey, WriteTemporary, MakeStagingDirectory, MakePreviousDirectory,
   ClassifyDamaged, CopyForClassification, FindDamage, Quiesce, Quiesced, DropCopy, StageCopy,
   StageRename, StageDone, PortableCopy, PortableRename, Seal, Guard, Preserve, Publish,
   PreserveDone, PublishDone, Validate, Finish, FinishRefused, RollbackStaging, RollbackPublished,
   RollbackRefused, Unpublish, Unpreserve, UnpublishDone, UnpreserveDone, ReverseRefused,
   CleanupPartial, CleanupPortable, CleanupStaged, CleanupPrevious, CleanupCopy, CleanupDone,
   CleanupRefused, RemoveDirectories, UnlinkKey, StartRecovery, SweepTemporary, SweepKey,
   SweepRefused, SweepDone, ReadJournal, Crash, Fail, GiveUp

\* Every step is a step of AtomicReplace or leaves it where it is.
LEMMA ReplaceStep ==
    ASSUME Inv, RecoveredInv, RecoveredInv', [Next]_vars
    PROVE  [Promise!Next]_(Promise!vars)
<1> USE DEF Inv, RecoveredInv
<1>1. CASE PublishJournal
  <2>1. UNCHANGED <<live, before>> /\ journal' = mem /\ mem.phase # "none"
    BY <1>1 DEF PublishJournal, Core, Control
  <2>2. CASE journal.phase = "none"
    <3>1. RestoreStage = "idle" /\ RestoreStage' = "open" /\ live = before
      BY <1>1, <2>1, <2>2 DEF PublishJournal, Core, Control, PhaseData, RestoreStage
    <3>2. Promise!Open
      BY <2>1, <3>1 DEF Promise!Open
    <3> QED
      BY <3>2 DEF Promise!Next
  <2>3. CASE journal.phase # "none" /\ RestoreStage = "open" /\ RestoreStage' = "replaced"
    <3>1. Promise!Replace
      BY <2>1, <2>3 DEF Promise!Replace, Promise!Image
    <3> QED
      BY <3>1 DEF Promise!Next
  <2>4. CASE journal.phase # "none" /\ RestoreStage = "replaced" /\ RestoreStage' = "open"
    <3>1. Promise!Undo
      BY <2>1, <2>4 DEF Promise!Undo
    <3> QED
      BY <3>1 DEF Promise!Next
  <2>5. CASE journal.phase # "none" /\ RestoreStage' = RestoreStage
    <3>1. UNCHANGED Promise!vars
      BY <2>1, <2>5 DEF Promise!vars
    <3> QED
      BY <3>1
  <2>6. journal.phase # "none" => {RestoreStage, RestoreStage'} \subseteq {"open", "replaced"}
    BY <2>1 DEF RestoreStage
  <2> QED
    BY <2>2, <2>3, <2>4, <2>5, <2>6
<1>2. CASE UnlinkJournal
  <2>1. /\ UNCHANGED <<live, before>>
        /\ RestoreStage \in {"open", "replaced"} /\ RestoreStage' = "idle"
        /\ RestoreStage = "open" => live = before
    BY <1>2 DEF UnlinkJournal, Core, Control, PhaseData, RestoreStage
  <2>2. Promise!Close
    BY <2>1 DEF Promise!Close
  <2> QED
    BY <2>2 DEF Promise!Next
<1>3. ASSUME NEW c \in Content, ExternalWrite(c) PROVE [Promise!Next]_(Promise!vars)
  <2>1. /\ RestoreStage' = RestoreStage
        /\ live' = [live EXCEPT ![Database] = c]
        /\ IF DatabaseReplaced THEN before' = before
                               ELSE before' = [before EXCEPT ![Database] = c]
    BY <1>3 DEF ExternalWrite, RestoreStage
  <2>2. CASE DatabaseReplaced /\ RestoreStage = "open"
    <3>1. UNCHANGED Promise!vars
      BY <2>1, <2>2 DEF Promise!vars
    <3> QED
      BY <3>1
  <2>3. CASE ~(DatabaseReplaced /\ RestoreStage = "open")
    <3>1. RestoreStage = "replaced" => DatabaseReplaced
      BY DEF DatabaseReplaced, RestoreStage, Core, PhaseData
    <3>2. DatabaseReplaced => RestoreStage # "idle"
      BY DEF DatabaseReplaced, RestoreStage
    <3>3. RecoveredImage' = [RecoveredImage EXCEPT ![Database] = c]
      BY <2>1, <2>3, <3>1, <3>2
    <3>4. CASE RestoreStage = "replaced"
      BY <2>1, <3>1, <3>3, <3>4 DEF Promise!External, Promise!Next
    <3>5. CASE RestoreStage = "open"
      <4>1. RecoveredImage' = before'
        BY <2>1, <3>5
      <4>2. Promise!External
        BY <2>1, <3>3, <3>5, <4>1 DEF Promise!External
      <4> QED
        BY <4>2 DEF Promise!Next
    <3>6. CASE RestoreStage = "idle"
      BY <2>1, <3>3, <3>6 DEF Promise!External, Promise!Next
    <3> QED
      BY <3>4, <3>5, <3>6 DEF RestoreStage
  <2> QED
    BY <2>2, <2>3
<1>4. ASSUME NEW image \in Image, Begin(image) PROVE [Promise!Next]_(Promise!vars)
  <2>1. RestoreStage = "idle" /\ RestoreStage' = "idle" /\ live' = live
    BY <1>4 DEF Begin, Pending, RestoreStage
  <2> QED
    BY <2>1 DEF Promise!vars
<1>5. CASE UNCHANGED <<journal, before>> /\ (live' = live \/ RestoreStage = "open")
  <2>1. RestoreStage' = RestoreStage
    BY <1>5 DEF RestoreStage
  <2>2. RecoveredImage' = RecoveredImage
    BY <1>5, <2>1
  <2> QED
    BY <1>5, <2>1, <2>2 DEF Promise!vars
<1> HIDE DEF Inv
<1> QED
  BY <1>1, <1>2, <1>3, <1>4, <1>5, OtherSteps

(* A managed restore replaces the vault in the one step that makes the     *)
(* commit durable (recovery.ts:1276), and no death, error or recovery lets *)
(* a part of it show.                                                      *)
THEOREM RestoreImplements == Spec => Implements
<1>1. Init => Promise!Init
  BY DEF Init, Promise!Init, Promise!Image, RecoveredImage, RestoreStage
<1>2. Inv /\ Inv' /\ [Next]_vars => [Promise!Next]_(Promise!vars)
  <2>1. Inv' => RecoveredInv'
    BY RecoveredIs, PTL
  <2> QED
    BY <2>1, RecoveredIs, ReplaceStep
<1> QED
  BY <1>1, <1>2, RestoreInvariance, PTL DEF Spec, Implements, Promise!Spec
============================================================================
