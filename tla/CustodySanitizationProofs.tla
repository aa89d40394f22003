--------------------- MODULE CustodySanitizationProofs ---------------------
(***************************************************************************)
(* What KeyBundleTransition and CustodySanitization, which extends it,     *)
(* promise: for every set of records, keys and wrappings and every number  *)
(* of generations.                                                         *)
(***************************************************************************)
EXTENDS CustodySanitization, TLAPS

----------------------------------------------------------------------------
(* Key bundle transitions                                                  *)

\* One transition replaces the machine key or the wrapping, and advances.
Succeeds(next, previous) ==
    /\ next.generation = previous.generation + 1
    /\ next.machine = previous.machine \/ next.interactive = previous.interactive
    /\ previous.interactive # None => next.interactive # None

\* A journal holds a bundle and its successor, and the two places the
\* transition changes hold one or the other.
JournalOK ==
    journal # None =>
        /\ Succeeds(journal.next, journal.previous)
        /\ bound \in {journal.previous, journal.next}
        /\ bundle \in {journal.previous, journal.next}

\* How far the transition is at each step of the process.
StepOK ==
    /\ step # "idle" => journal # None
    /\ step = "writeBundle" => bound = journal.previous
    /\ step = "updateDatabase" => bundle = journal.next /\ bound = journal.previous
    /\ step \in {"unlinkJournal", "unlinkRecovered"} => bundle = bound

BundleInv == BundleTypeOK /\ BundleMatchesDatabase /\ JournalOK /\ StepOK

(* The invariant holds initially: no transition is open.                   *)
LEMMA BundleInitially == BundleInit => BundleInv
<1> SUFFICES ASSUME BundleInit PROVE BundleInv
  OBVIOUS
<1>1. BundleTypeOK
  BY DEF BundleInit, BundleTypeOK, Bundle, Steps
<1>2. BundleMatchesDatabase /\ JournalOK /\ StepOK
  BY DEF BundleInit, BundleMatchesDatabase, JournalOK, StepOK
<1> QED
  BY <1>1, <1>2 DEF BundleInv

(* Each command opens its transition with a successor of the bound bundle. *)
LEMMA CommandsSucceed ==
    ASSUME BundleTypeOK, BundleCommand
    PROVE  \E next \in Bundle : Begin(next) /\ Succeeds(next, bundle)
<1>1. ASSUME NEW w \in Wrappings, EnrollInteractive(w)
      PROVE  \E next \in Bundle : Begin(next) /\ Succeeds(next, bundle)
  <2>1. Advance(bundle.machine, w) \in Bundle
    BY DEF BundleTypeOK, Bundle, Advance
  <2>2. Succeeds(Advance(bundle.machine, w), bundle)
    BY <1>1 DEF Succeeds, Advance, EnrollInteractive
  <2> QED
    BY <1>1, <2>1, <2>2 DEF EnrollInteractive
<1>2. ASSUME NEW w \in Wrappings, RotateInteractive(w)
      PROVE  \E next \in Bundle : Begin(next) /\ Succeeds(next, bundle)
  <2>1. Advance(bundle.machine, w) \in Bundle
    BY DEF BundleTypeOK, Bundle, Advance
  <2>2. Succeeds(Advance(bundle.machine, w), bundle)
    BY <1>2, KeyBundleAssumption DEF Succeeds, Advance, RotateInteractive
  <2> QED
    BY <1>2, <2>1, <2>2 DEF RotateInteractive
<1>3. ASSUME NEW k \in MachineKeys, RetireMachineKey(k)
      PROVE  \E next \in Bundle : Begin(next) /\ Succeeds(next, bundle)
  <2>1. Advance(k, bundle.interactive) \in Bundle
    BY DEF BundleTypeOK, Bundle, Advance
  <2>2. Succeeds(Advance(k, bundle.interactive), bundle)
    BY <1>3 DEF Succeeds, Advance, RetireMachineKey
  <2> QED
    BY <1>3, <2>1, <2>2 DEF RetireMachineKey
<1> QED
  BY <1>1, <1>2, <1>3 DEF BundleCommand

(* The invariant is inductive: one step per action.                        *)
LEMMA BundleInductive == BundleInv /\ [BundleNext]_bundleVars => BundleInv'
<1> SUFFICES ASSUME BundleInv, [BundleNext]_bundleVars PROVE BundleInv'
  OBVIOUS
<1> USE DEF BundleInv, BundleTypeOK, BundleMatchesDatabase, JournalOK, StepOK
<1>1. CASE BundleCommand
  <2>1. PICK next \in Bundle : Begin(next) /\ Succeeds(next, bundle)
    BY <1>1, CommandsSucceed
  <2>2. journal' \in Journal
    BY <2>1 DEF Begin, Journal
  <2> QED
    BY <2>1, <2>2, KeyBundleAssumption DEF Begin, Steps
<1>2. CASE WriteBundle
  BY <1>2 DEF WriteBundle, Steps, Journal
<1>3. CASE UpdateDatabase
  BY <1>3 DEF UpdateDatabase, Steps, Journal
<1>4. CASE UpdateFails
  BY <1>4 DEF UpdateFails, Steps, Journal
<1>5. CASE UnlinkJournal
  BY <1>5 DEF UnlinkJournal, Steps
<1>6. CASE StartRecovery
  BY <1>6 DEF StartRecovery, Steps
<1>7. CASE Recover
  <2>1. journal # None /\ journal \in Journal
    BY <1>7 DEF Recover
  <2>2. journal.previous.generation # journal.next.generation
    BY <2>1 DEF Succeeds, Journal, Bundle
  <2>3. bundle' = bound
    BY <1>7, <2>1, <2>2 DEF Recover
  <2> QED
    BY <1>7, <2>1, <2>3 DEF Recover, Steps
<1>8. CASE UnlinkRecovered
  BY <1>8 DEF UnlinkRecovered, Steps
<1>9. CASE Crash
  BY <1>9 DEF Crash, Steps
<1>10. CASE UNCHANGED bundleVars
  BY <1>10 DEF bundleVars
<1> QED
  BY <1>1, <1>2, <1>3, <1>4, <1>5, <1>6, <1>7, <1>8, <1>9, <1>10
  DEF BundleNext, TransitionStep

(* The invariant holds of every behaviour.                                 *)
THEOREM BundleInvariance == BundleSpec => []BundleInv
  BY BundleInitially, BundleInductive, PTL DEF BundleSpec

(* The key file, the database and the journal always hold bundles.         *)
THEOREM BundleTypeCorrect == BundleSpec => []BundleTypeOK
<1>1. BundleInv => BundleTypeOK
  BY DEF BundleInv
<1> QED
  BY <1>1, BundleInvariance, PTL

(* With no journal on disk the key file is the bundle the database binds,  *)
(* whatever was interrupted, failed or recovered before.                   *)
THEOREM BundleAgreement == BundleSpec => []BundleMatchesDatabase
<1>1. BundleInv => BundleMatchesDatabase
  BY DEF BundleInv
<1> QED
  BY <1>1, BundleInvariance, PTL

(* Recovery always finds its commit point: recovering an interrupted       *)
(* transition is never refused, and the recovered vault is not either.     *)
THEOREM BundleCommitPoint == BundleSpec => []CommitPointDecides
<1>1. BundleInv => CommitPointDecides
  BY DEF BundleInv, BundleTypeOK, JournalOK, CommitPointDecides, Succeeds, Journal, Bundle
<1> QED
  BY <1>1, BundleInvariance, PTL

(* The database only ever moves from a bundle to its successor.            *)
THEOREM BundleSuccession == BundleSpec => BundlesSucceed
<1> DEFINE Step ==
        bound' # bound =>
            /\ bound'.generation = bound.generation + 1
            /\ bound'.machine = bound.machine \/ bound'.interactive = bound.interactive
            /\ bound.interactive # None => bound'.interactive # None
<1>1. BundleInv /\ [BundleNext]_bundleVars => [Step]_bundleVars
  <2> SUFFICES ASSUME BundleInv, BundleNext, bound' # bound PROVE Step
    BY DEF bundleVars
  <2>1. step = "updateDatabase" /\ bound' = journal.next
    BY DEF BundleNext, TransitionStep, BundleCommand, EnrollInteractive,
           RotateInteractive, RetireMachineKey, Begin, WriteBundle, UpdateDatabase,
           UpdateFails, UnlinkJournal, StartRecovery, Recover, UnlinkRecovered, Crash
  <2>2. journal # None /\ bound = journal.previous
    BY <2>1 DEF BundleInv, StepOK
  <2> QED
    BY <2>1, <2>2 DEF BundleInv, JournalOK, Succeeds
<1> QED
  BY <1>1, BundleInvariance, PTL DEF BundleSpec, BundlesSucceed

----------------------------------------------------------------------------
(* Custody and sanitization                                                *)

\* What the program is doing tells whether a transition is open, and an
\* ordinary command runs on a vault with nothing pending.
ControlOK ==
    /\ command = "none" => stage = "none" /\ step = "idle"
    /\ step = "idle" /\ (command = "body" \/ stage # "none") => journal = None
    /\ stage \notin {"none", "retire"} => step = "idle"
    /\ command = "body" /\ stage = "none" => ~Pending

\* The machine key is retired only when no record is sealed with it.
RetirementOK ==
    /\ stage = "retire" => OfClass("machine") = {}
    /\ stage = "retire" /\ step = "idle" => NeedsRetirement

\* A journal that would replace the machine key finds no machine records,
\* never brings an exposed key back, and starts from the recorded generation
\* of a tightening.
OpenTransitionOK ==
    /\ journal # None =>
        /\ journal.next.machine # journal.previous.machine => OfClass("machine") = {}
        /\ journal.next.machine \notin exposed
        /\ required /\ current => journal.previous.generation = recorded
    /\ step = "unlinkJournal" => bound = journal.next

\* What the steps of the sanitization behind the present one removed.
ResidueOK ==
    /\ stage = "vacuum" => residue \subseteq {"pages"}
    /\ stage \in {"retire", "verify", "clear"} => residue = {}

\* A bound key that was exposed is still due for retirement.
ExposureOK ==
    /\ bound.machine \in exposed =>
        /\ Pending /\ OfClass("machine") = {}
        /\ current => recorded = bound.generation
    /\ stage \in {"verify", "clear"} => bound.machine \notin exposed

CustodyInv ==
    /\ TypeOK /\ BundleInv
    /\ ControlOK /\ RetirementOK /\ OpenTransitionOK /\ ResidueOK /\ ExposureOK
    /\ MachineRecordsOpen /\ ClearedMeansClean /\ RetiredOnce

----------------------------------------------------------------------------
(* What a step does to the key bundle                                      *)

(* Every step is one of KeyBundleTransition, or leaves its state alone.    *)
LEMMA StepsOfTheBundle == [Next]_vars => [BundleNext]_bundleVars
<1> SUFFICES ASSUME [Next]_vars PROVE [BundleNext]_bundleVars
  OBVIOUS
<1>1. CASE Start \/ Body
  BY <1>1 DEF Start, Body, Store, Delete, Transition, ChangePassphrase, Exit,
              BundleNext, BundleCommand
<1>2. CASE RecoverTransition \/ ContinueTransition \/ FinishTransition \/ FinishRecovery
  BY <1>2 DEF RecoverTransition, ContinueTransition, FinishTransition,
              FinishRecovery, BundleNext, TransitionStep
<1>3. CASE SanitizationStep \/ Dispatch
  BY <1>3 DEF SanitizationStep, StartSanitization, RefuseRetirement, Inspect,
              Checkpoint, Vacuum, Retire, RefuseLocked, Verify, ClearPending,
              Dispatch, Refuse, GoOn, BundleNext, BundleCommand
<1>4. CASE Die
  BY <1>4 DEF Die, BundleNext, Crash, bundleVars
<1>5. CASE UNCHANGED vars
  BY <1>5 DEF vars, custodyVars, bundleVars
<1> QED
  BY <1>1, <1>2, <1>3, <1>4, <1>5 DEF Next, ProgramStep

(* Between commands' transitions the file is the bundle the database binds. *)
LEMMA BundleAtRest ==
    ASSUME BundleInv, journal = None
    PROVE  bundle = bound
  BY DEF BundleInv, BundleMatchesDatabase

----------------------------------------------------------------------------
(* The invariant                                                           *)

(* The invariant holds initially.                                          *)
LEMMA CustodyInitially == Init => CustodyInv
<1> SUFFICES ASSUME Init PROVE CustodyInv
  OBVIOUS
<1>1. BundleInv
  BY BundleInitially DEF Init
<1>2. bound \in Bundle /\ bound.machine \in MachineKeys
  BY <1>1 DEF BundleInv, BundleTypeOK, Bundle
<1>3. custody \in [Records -> {"absent", "machine", "interactive"}]
  BY DEF Init
<1>4. required \in BOOLEAN /\ current \in BOOLEAN
  BY DEF Init
<1>5. recorded \in Nat
  BY <1>2 DEF Init, Bundle
<1>6. TypeOK
  BY <1>1, <1>2, <1>3, <1>4, <1>5 DEF Init, TypeOK, BundleInv, Places, Stages
<1>7. ControlOK /\ RetirementOK /\ OpenTransitionOK /\ ResidueOK
  BY DEF Init, BundleInit, ControlOK, RetirementOK, OpenTransitionOK, ResidueOK
<1>8. ExposureOK /\ ClearedMeansClean /\ RetiredOnce
  BY DEF Init, Pending, ExposureOK, ClearedMeansClean, RetiredOnce
<1>9. MachineRecordsOpen
  BY <1>3 DEF Init, MachineRecordsOpen, OfClass
<1> QED
  BY <1>1, <1>6, <1>7, <1>8, <1>9 DEF CustodyInv

(* Every step keeps the types.                                             *)
LEMMA CustodyTypes == CustodyInv /\ [Next]_vars => TypeOK'
<1> SUFFICES ASSUME CustodyInv, [Next]_vars PROVE TypeOK'
  OBVIOUS
<1>1. BundleInv /\ BundleInv' /\ BundleTypeOK'
  BY StepsOfTheBundle, BundleInductive DEF CustodyInv, BundleInv
<1>2. bundle.machine \in MachineKeys /\ bundle.generation \in Nat /\ bound.machine \in MachineKeys
  BY <1>1 DEF BundleInv, BundleTypeOK, Bundle
<1> USE DEF CustodyInv, TypeOK, phase, inventory, process
<1>3. CASE Start \/ Exit \/ Die \/ Dispatch
  BY <1>1, <1>3 DEF Start, Exit, End, Die, Dispatch, Stages
<1>4. CASE StartSanitization
  <2>1. unlocked' \in BOOLEAN /\ passphrase' \in BOOLEAN
    BY <1>4 DEF StartSanitization, EnsureUnlocked
  <2> QED
    BY <1>1, <1>4, <2>1 DEF StartSanitization, Stages
<1>5. CASE ClearPending
  BY <1>1, <1>5 DEF ClearPending, End, Stages
<1>6. ASSUME NEW r \in Records, NEW class \in {"machine", "interactive"}, Store(r, class)
      PROVE  TypeOK'
  BY <1>1, <1>2, <1>6 DEF Store, End, Stages
<1>7. ASSUME NEW r \in Records, Delete(r) PROVE TypeOK'
  BY <1>1, <1>7 DEF Delete, End, Stages
<1>8. ASSUME NEW target \in [Records -> {"absent", "machine", "interactive"}],
             Transition(target)
      PROVE  TypeOK'
  <2>1. sealed' \in [Records -> MachineKeys \cup {None}]
    BY <1>2, <1>8 DEF Transition
  <2> QED
    BY <1>1, <1>2, <1>8, <2>1 DEF Transition, EnsureUnlocked, Stages, Places
<1>9. CASE RecoverTransition \/ ContinueTransition
  BY <1>1, <1>9 DEF RecoverTransition, ContinueTransition, custodyVars
<1>10. CASE FinishTransition
  BY <1>1, <1>10 DEF FinishTransition, End, Stages
<1>11. CASE FinishRecovery
  BY <1>1, <1>11 DEF FinishRecovery, End, Stages
<1>12. CASE RefuseRetirement \/ Inspect \/ Checkpoint \/ Vacuum \/ RefuseLocked \/ Verify
  BY <1>1, <1>12 DEF RefuseRetirement, Inspect, Checkpoint, Vacuum, RefuseLocked,
                    Verify, Refuse, GoOn, End, Stages
<1>13. CASE (\E k \in MachineKeys : Retire(k)) \/ (\E w \in Wrappings : ChangePassphrase(w))
  BY <1>1, <1>13 DEF Retire, ChangePassphrase, custodyVars
<1>14. CASE UNCHANGED vars
  BY <1>1, <1>14 DEF vars, custodyVars
<1> QED
  BY <1>3, <1>4, <1>5, <1>6, <1>7, <1>8, <1>9, <1>10, <1>11, <1>12, <1>13, <1>14
  DEF Next, ProgramStep, SanitizationStep, Body

(* The steps that leave the records, the phase and the bundle alone.       *)
LEMMA QuietSteps ==
    ASSUME CustodyInv, UNCHANGED <<bundle, bound, journal, inventory, phase, exposed>>,
           residue' \subseteq residue, ControlOK', ResidueOK',
           stage' = "retire" => NeedsRetirement \/ UNCHANGED <<stage, step>>,
           stage' \in {"verify", "clear"} => bound.machine \notin exposed,
           step' = "unlinkJournal" => step = "unlinkJournal"
    PROVE  /\ RetirementOK' /\ OpenTransitionOK' /\ ExposureOK'
           /\ MachineRecordsOpen' /\ ClearedMeansClean' /\ RetiredOnce'
<1> USE DEF CustodyInv, phase, inventory, Pending
<1>1. OfClass("machine")' = OfClass("machine")
  BY DEF OfClass
<1>2. RetirementOK'
  BY <1>1 DEF RetirementOK, NeedsRetirement, PendingGeneration
<1>3. OpenTransitionOK'
  BY <1>1 DEF OpenTransitionOK
<1>4. ExposureOK'
  BY <1>1 DEF ExposureOK
<1>5. MachineRecordsOpen' /\ ClearedMeansClean' /\ RetiredOnce'
  BY <1>1 DEF MachineRecordsOpen, ClearedMeansClean, RetiredOnce
<1> QED
  BY <1>2, <1>3, <1>4, <1>5

(* The invariant is inductive: one step per action.                        *)
LEMMA CustodyInductive == CustodyInv /\ [Next]_vars => CustodyInv'
<1> SUFFICES ASSUME CustodyInv, [Next]_vars PROVE CustodyInv'
  OBVIOUS
<1> DEFINE Control == ControlOK /\ RetirementOK /\ OpenTransitionOK
           Cleaning == ResidueOK /\ ExposureOK
           Promises == MachineRecordsOpen /\ ClearedMeansClean /\ RetiredOnce
           Rest == Control /\ Cleaning /\ Promises
<1>1. TypeOK' /\ BundleInv' /\ BundleInv /\ TypeOK
  BY CustodyTypes, StepsOfTheBundle, BundleInductive DEF CustodyInv
<1>2. SUFFICES Rest'
  BY <1>1 DEF CustodyInv
<1>3. CASE Start
  <2>1. ControlOK' /\ ResidueOK'
    BY <1>3 DEF Start, bundleVars, CustodyInv, ControlOK, ResidueOK
  <2> QED
    BY <1>3, <2>1, QuietSteps DEF Start, bundleVars, CustodyInv, ControlOK
<1>4. CASE Exit
  <2>1. ControlOK' /\ ResidueOK'
    BY <1>4 DEF Exit, End, bundleVars, ControlOK, ResidueOK
  <2> QED
    BY <1>4, <2>1, QuietSteps DEF Exit, End, bundleVars
<1>5. CASE Die
  <2>1. ControlOK' /\ ResidueOK'
    BY <1>5 DEF Die, End, ControlOK, ResidueOK
  <2> QED
    BY <1>5, <2>1, QuietSteps DEF Die, End
<1>6. CASE RecoverTransition
  <2>1. ControlOK' /\ ResidueOK'
    BY <1>6 DEF RecoverTransition, StartRecovery, custodyVars, process, phase,
                CustodyInv, ControlOK, ResidueOK
  <2> QED
    BY <1>6, <2>1, QuietSteps DEF RecoverTransition, StartRecovery, custodyVars, process
<1>7. CASE StartSanitization
  <2>1. ControlOK' /\ ResidueOK'
    BY <1>7 DEF StartSanitization, bundleVars, ControlOK, ResidueOK
  <2> QED
    BY <1>7, <2>1, QuietSteps DEF StartSanitization, bundleVars
<1>8. CASE Dispatch
  <2>1. ControlOK' /\ ResidueOK'
    BY <1>8 DEF Dispatch, bundleVars, phase, Pending, ControlOK, ResidueOK
  <2> QED
    BY <1>8, <2>1, QuietSteps DEF Dispatch, bundleVars
<1>9. CASE RefuseRetirement \/ RefuseLocked
  <2>1. step = "idle"
    BY <1>9 DEF RefuseRetirement, RefuseLocked, CustodyInv, ControlOK
  <2>2. ControlOK' /\ ResidueOK'
    BY <1>9, <2>1 DEF RefuseRetirement, RefuseLocked, Refuse, End, bundleVars,
                      ControlOK, ResidueOK
  <2> QED
    BY <1>9, <2>2, QuietSteps DEF RefuseRetirement, RefuseLocked, Refuse, End, bundleVars
<1>10. CASE Inspect \/ Checkpoint
  <2>1. ControlOK'
    BY <1>10 DEF Inspect, Checkpoint, GoOn, bundleVars, CustodyInv, ControlOK
  <2>2. ResidueOK'
    BY <1>1, <1>10 DEF Inspect, Checkpoint, GoOn, ResidueOK, TypeOK, Places
  <2> QED
    BY <1>10, <2>1, <2>2, QuietSteps DEF Inspect, Checkpoint, GoOn, bundleVars
<1>11. CASE Vacuum
  <2>1. journal = None /\ bundle = bound
    BY <1>1, <1>11, BundleAtRest DEF Vacuum, CustodyInv, ControlOK
  <2>2. ControlOK' /\ ResidueOK'
    BY <1>11 DEF Vacuum, GoOn, bundleVars, CustodyInv, ControlOK, ResidueOK
  <2>3. NeedsRetirement \/ bound.machine \notin exposed
    BY <2>1 DEF NeedsRetirement, PendingGeneration, CustodyInv, ExposureOK
  <2> QED
    BY <1>11, <2>2, <2>3, QuietSteps DEF Vacuum, GoOn, bundleVars
<1>12. CASE Verify
  <2>1. ControlOK' /\ ResidueOK'
    BY <1>12 DEF Verify, GoOn, bundleVars, CustodyInv, ControlOK, ResidueOK
  <2> QED
    BY <1>12, <2>1, QuietSteps DEF Verify, GoOn, bundleVars, CustodyInv, ExposureOK
<1>13. CASE ClearPending
  <2>1. step = "idle" /\ journal = None /\ residue = {} /\ bound.machine \notin exposed
    BY <1>13 DEF ClearPending, CustodyInv, ControlOK, ResidueOK, ExposureOK
  <2>2. OfClass("machine")' = OfClass("machine")
    BY <1>13 DEF ClearPending, inventory, OfClass
  <2>3. Control'
    BY <1>13, <2>1 DEF ClearPending, End, bundleVars, Pending, ControlOK,
                       RetirementOK, OpenTransitionOK
  <2>4. Cleaning'
    BY <1>13, <2>1 DEF ClearPending, End, bundleVars, ResidueOK, ExposureOK
  <2> QED
    BY <1>13, <2>1, <2>2, <2>3, <2>4
    DEF ClearPending, bundleVars, inventory, CustodyInv, MachineRecordsOpen,
        ClearedMeansClean, RetiredOnce
<1>14. ASSUME NEW r \in Records, NEW class \in {"machine", "interactive"}, Store(r, class)
       PROVE  Rest'
  <2>1. journal = None /\ bundle = bound /\ ~Pending /\ bound.machine \notin exposed
    BY <1>1, <1>14, BundleAtRest DEF Store, InBody, CustodyInv, ControlOK, ExposureOK
  <2>2. Control' /\ Cleaning'
    BY <1>14, <2>1 DEF Store, InBody, End, bundleVars, phase, CustodyInv, ControlOK,
                       RetirementOK, OpenTransitionOK, ResidueOK, ExposureOK
  <2>3. MachineRecordsOpen'
    BY <1>1, <1>14, <2>1 DEF Store, bundleVars, TypeOK, CustodyInv, MachineRecordsOpen, OfClass
  <2> QED
    BY <1>14, <2>2, <2>3 DEF Store, bundleVars, phase, Pending, CustodyInv,
                             ClearedMeansClean, RetiredOnce
<1>15. ASSUME NEW r \in Records, Delete(r) PROVE Rest'
  <2>1. journal = None /\ bundle = bound /\ ~Pending /\ bound.machine \notin exposed
    BY <1>1, <1>15, BundleAtRest DEF Delete, InBody, CustodyInv, ControlOK, ExposureOK
  <2>2. Control' /\ Cleaning'
    BY <1>15, <2>1 DEF Delete, InBody, End, bundleVars, phase, CustodyInv, ControlOK,
                       RetirementOK, OpenTransitionOK, ResidueOK, ExposureOK
  <2>3. MachineRecordsOpen'
    BY <1>1, <1>15, <2>1 DEF Delete, bundleVars, TypeOK, CustodyInv, MachineRecordsOpen, OfClass
  <2> QED
    BY <1>15, <2>2, <2>3 DEF Delete, bundleVars, phase, Pending, CustodyInv,
                             ClearedMeansClean, RetiredOnce
<1>16. ASSUME NEW target \in [Records -> {"absent", "machine", "interactive"}],
              Transition(target)
       PROVE  Rest'
  <2>1. /\ command = "body" /\ stage = "none" /\ step = "idle" /\ journal = None
        /\ bundle = bound /\ ~Pending /\ bound.machine \notin exposed
    BY <1>1, <1>16, BundleAtRest DEF Transition, InBody, CustodyInv, ControlOK, ExposureOK
  <2>2. MachineRecordsOpen'
    BY <1>1, <1>16, <2>1 DEF Transition, bundleVars, TypeOK, CustodyInv,
                             MachineRecordsOpen, OfClass
  <2>3. OfClass("machine")' = {r \in Records : target[r] = "machine"}
    BY <1>16 DEF Transition, OfClass
  <2>4. CASE \E r \in OfClass("machine") : target[r] = "interactive"
    <3>1. /\ required' = TRUE /\ recorded' = bound.generation /\ current' = current
          /\ stage' = "inspect" /\ command' = command /\ UNCHANGED bundleVars
          /\ exposed' = IF \E r \in Records : target[r] = "machine"
                        THEN exposed ELSE exposed \cup {bound.machine}
      BY <1>16, <2>1, <2>4 DEF Transition
    <3>2. bound.machine \in exposed' => OfClass("machine")' = {}
      BY <2>1, <2>3, <3>1
    <3>3. current
      BY <2>1 DEF Pending
    <3>4. bound.generation \in Nat
      BY <1>1 DEF BundleInv, BundleTypeOK, Bundle
    <3> QED
      BY <2>1, <2>2, <3>1, <3>2, <3>3, <3>4
      DEF bundleVars, Pending, ControlOK, RetirementOK, OpenTransitionOK, ResidueOK,
          ExposureOK, ClearedMeansClean, RetiredOnce
  <2>5. CASE ~ \E r \in OfClass("machine") : target[r] = "interactive"
    <3>1. /\ UNCHANGED <<required, recorded, current, residue, exposed, stage>>
          /\ command' = "none" /\ UNCHANGED bundleVars
      BY <1>16, <2>5 DEF Transition
    <3> QED
      BY <2>1, <2>2, <3>1
      DEF bundleVars, Pending, CustodyInv, ControlOK, RetirementOK, OpenTransitionOK,
          ResidueOK, ExposureOK, ClearedMeansClean, RetiredOnce
  <2> QED
    BY <2>4, <2>5
<1>17. ASSUME NEW w \in Wrappings, ChangePassphrase(w) PROVE Rest'
  <2>1. /\ bundle = bound /\ ~Pending /\ bound.machine \notin exposed
        /\ command = "body" /\ stage = "none"
    BY <1>1, <1>17, BundleAtRest DEF ChangePassphrase, InBody, CustodyInv, ControlOK, ExposureOK
  <2>2. /\ journal' = [previous |-> bundle, next |-> Advance(bundle.machine, w)]
        /\ step' = "writeBundle" /\ UNCHANGED <<bundle, bound>>
    BY <1>17 DEF ChangePassphrase, EnrollInteractive, RotateInteractive, Begin
  <2>3. UNCHANGED <<command, stage, custody, sealed, required, recorded, current,
                    residue, exposed>>
    BY <1>17 DEF ChangePassphrase, custodyVars, process, phase, inventory
  <2>4. OfClass("machine")' = OfClass("machine")
    BY <2>3 DEF OfClass
  <2> QED
    BY <2>1, <2>2, <2>3, <2>4
    DEF CustodyInv, Advance, Pending, ControlOK, RetirementOK, OpenTransitionOK, ResidueOK,
        ExposureOK, MachineRecordsOpen, ClearedMeansClean, RetiredOnce
<1>18. ASSUME NEW k \in MachineKeys, Retire(k) PROVE Rest'
  <2>1. /\ bundle = bound /\ stage = "retire" /\ NeedsRetirement /\ k \notin exposed
        /\ command # "none"
    BY <1>1, <1>18, BundleAtRest
    DEF Retire, RetireMachineKey, Begin, CustodyInv, ControlOK, RetirementOK
  <2>2. /\ journal' = [previous |-> bundle, next |-> Advance(k, bundle.interactive)]
        /\ step' = "writeBundle" /\ UNCHANGED <<bundle, bound>>
    BY <1>18 DEF Retire, RetireMachineKey, Begin
  <2>3. UNCHANGED <<command, stage, custody, sealed, required, recorded, current,
                    residue, exposed>>
    BY <1>18 DEF Retire, custodyVars, process, phase, inventory
  <2>4. OfClass("machine")' = OfClass("machine") /\ OfClass("machine") = {}
    BY <2>1, <2>3 DEF OfClass, NeedsRetirement
  <2>5. required /\ current => bundle.generation = recorded
    BY <2>1 DEF NeedsRetirement, PendingGeneration, CustodyInv, ExposureOK
  <2> QED
    BY <2>1, <2>2, <2>3, <2>4, <2>5
    DEF CustodyInv, Advance, Pending, ControlOK, RetirementOK, OpenTransitionOK, ResidueOK,
        ExposureOK, MachineRecordsOpen, ClearedMeansClean, RetiredOnce
<1>19. CASE ContinueTransition
  <2>1. UNCHANGED <<command, stage, custody, sealed, required, recorded, current,
                    residue, exposed>>
    BY <1>19 DEF ContinueTransition, custodyVars, process, phase, inventory
  <2>2. OfClass("machine")' = OfClass("machine")
    BY <2>1 DEF OfClass
  <2>3. /\ step # "idle" /\ step' # "idle" /\ journal # None /\ journal' = journal
        /\ step' = "unlinkJournal" => bound' = journal.next
        /\ bound' # bound => bound = journal.previous /\ bound' = journal.next
    BY <1>1, <1>19 DEF ContinueTransition, WriteBundle, UpdateDatabase, UpdateFails,
                       Recover, BundleInv, StepOK
  <2>4. Control' /\ ResidueOK'
    BY <2>1, <2>2, <2>3 DEF CustodyInv, Pending, ControlOK, RetirementOK,
                            OpenTransitionOK, ResidueOK
  <2>5. CASE bound' = bound
    BY <2>1, <2>2, <2>4, <2>5 DEF CustodyInv, Pending, ExposureOK, MachineRecordsOpen,
                                  ClearedMeansClean, RetiredOnce
  <2>6. CASE bound' # bound
    <3>1. /\ bound'.generation = bound.generation + 1
          /\ bound'.machine \notin exposed
          /\ bound'.machine = bound.machine \/ OfClass("machine") = {}
          /\ required /\ current => bound.generation = recorded
      BY <1>1, <2>3, <2>6 DEF CustodyInv, BundleInv, JournalOK, Succeeds, OpenTransitionOK
    <3> QED
      BY <2>1, <2>2, <2>4, <3>1 DEF CustodyInv, Pending, ExposureOK, MachineRecordsOpen,
                                    ClearedMeansClean, RetiredOnce
  <2> QED
    BY <2>5, <2>6
<1>20. CASE FinishTransition
  <2>1. bound.machine \notin exposed /\ bundle = bound
    BY <1>1, <1>20 DEF FinishTransition, UnlinkJournal, CustodyInv, OpenTransitionOK,
                       BundleInv, StepOK
  <2>2. /\ UNCHANGED <<bundle, bound, custody, sealed, required, recorded, current,
                       residue, exposed>>
        /\ journal' = None /\ step' = "idle"
        /\ \/ stage = "retire" /\ stage' = "verify" /\ command' = command
           \/ stage' = "none" /\ command' = "none"
    BY <1>20 DEF FinishTransition, UnlinkJournal, End, inventory, phase
  <2>3. OfClass("machine")' = OfClass("machine")
    BY <2>2 DEF OfClass
  <2>4. Control'
    BY <2>2 DEF CustodyInv, ControlOK, RetirementOK, OpenTransitionOK
  <2>5. Cleaning'
    BY <2>1, <2>2, <2>3 DEF CustodyInv, ResidueOK, ExposureOK
  <2> QED
    BY <2>2, <2>3, <2>4, <2>5 DEF CustodyInv, Pending, MachineRecordsOpen,
                                  ClearedMeansClean, RetiredOnce
<1>21. CASE FinishRecovery
  <2>1. /\ UNCHANGED <<bundle, bound, custody, sealed, required, recorded, current,
                       residue, exposed>>
        /\ journal' = None /\ step' = "idle" /\ stage' = "none"
        /\ (command' = command /\ command = "startup") \/ command' = "none"
    BY <1>21 DEF FinishRecovery, UnlinkRecovered, End, inventory, phase, process
  <2>2. OfClass("machine")' = OfClass("machine")
    BY <2>1 DEF OfClass
  <2>3. Control'
    BY <2>1 DEF CustodyInv, ControlOK, RetirementOK, OpenTransitionOK
  <2>4. Cleaning'
    BY <2>1, <2>2 DEF CustodyInv, Pending, ResidueOK, ExposureOK
  <2> QED
    BY <2>1, <2>2, <2>3, <2>4 DEF CustodyInv, Pending, MachineRecordsOpen,
                                  ClearedMeansClean, RetiredOnce
<1>22. CASE UNCHANGED vars
  <2>1. ControlOK' /\ ResidueOK'
    BY <1>22 DEF vars, custodyVars, bundleVars, process, phase, Pending, CustodyInv,
                 ControlOK, ResidueOK
  <2> QED
    BY <1>22, <2>1, QuietSteps DEF vars, custodyVars, bundleVars, process, CustodyInv,
                                   RetirementOK, ExposureOK
<1> QED
  BY <1>3, <1>4, <1>5, <1>6, <1>7, <1>8, <1>9, <1>10, <1>11, <1>12, <1>13, <1>14,
     <1>15, <1>16, <1>17, <1>18, <1>19, <1>20, <1>21, <1>22
  DEF Next, ProgramStep, SanitizationStep, Body

----------------------------------------------------------------------------
(* Results                                                                 *)

(* The invariant holds of every behaviour.                                 *)
THEOREM CustodyInvariance == Spec => []CustodyInv
  BY CustodyInitially, CustodyInductive, PTL DEF Spec

(* The records, the phase and the process are always of their types.       *)
THEOREM CustodyTypeCorrect == Spec => []TypeOK
<1>1. CustodyInv => TypeOK
  BY DEF CustodyInv
<1> QED
  BY <1>1, CustodyInvariance, PTL

(* No interrupted, failed or repeated retirement strands a machine record: *)
(* each is sealed with the key the database binds.                         *)
THEOREM CustodyRecordsOpen == Spec => []MachineRecordsOpen
<1>1. CustodyInv => MachineRecordsOpen
  BY DEF CustodyInv
<1> QED
  BY <1>1, CustodyInvariance, PTL

(* With nothing pending, SQLite holds no machine ciphertext of a tightened *)
(* record.                                                                 *)
THEOREM CustodyCleared == Spec => []ClearedMeansClean
<1>1. CustodyInv => ClearedMeansClean
  BY DEF CustodyInv
<1> QED
  BY <1>1, CustodyInvariance, PTL

(* With nothing pending, no key whose records were all tightened is in use. *)
THEOREM CustodyRetired == Spec => []ClearedMeansRetired
<1>1. CustodyInv => ClearedMeansRetired
  BY DEF CustodyInv, ExposureOK, ClearedMeansRetired
<1> QED
  BY <1>1, CustodyInvariance, PTL

(* An ordinary command finds no exposed ciphertext and no exposed key.     *)
THEOREM CustodySanitized == Spec => []ClearedMeansSanitized
BY CustodyCleared, CustodyRetired, PTL DEF ClearedMeansSanitized

(* One tightening costs one machine key, however often it is repeated.     *)
THEOREM CustodyRetiredOnce == Spec => []RetiredOnce
<1>1. CustodyInv => RetiredOnce
  BY DEF CustodyInv
<1> QED
  BY <1>1, CustodyInvariance, PTL

(* Sanitization uses the key bundle as its own specification allows.       *)
THEOREM CustodyUsesBundle == Spec => BundleSpec
<1>1. Init => BundleInit
  BY DEF Init
<1> QED
  BY <1>1, StepsOfTheBundle, PTL DEF Spec, BundleSpec
============================================================================
