------------------------ MODULE KeyBundleTransition ------------------------
(***************************************************************************)
(* Replacing the active key bundle of a vault (vault.ts).  The bundle is a *)
(* file and the database binds its generation and hash, so no single write *)
(* can change both: a journal holding the old and the new bundle is        *)
(* written first, then the bundle, then the database, whose transaction is *)
(* the commit point.  The database stands here for the bundle whose hash,  *)
(* generation and key checks it holds.                                     *)
(*                                                                         *)
(* Every file is written beside its name, flushed and renamed, so a crash  *)
(* leaves the old or the new file.  A generation that was rolled back is   *)
(* used again, for a bundle with other keys.                               *)
(***************************************************************************)
EXTENDS Naturals

CONSTANTS
    MachineKeys,    \* machine data keys
    Wrappings,      \* interactive envelopes: a passphrase around a data key
    None,
    MaxGeneration   \* bound on the generations explored

Bundle == [generation : Nat \ {0}, machine : MachineKeys,
           interactive : Wrappings \cup {None}]

Journal == [previous : Bundle, next : Bundle]

ASSUME KeyBundleAssumption ==
    /\ None \notin MachineKeys \cup Wrappings
    /\ None \notin Journal
    /\ MaxGeneration \in Nat

VARIABLES
    bundle,     \* .keyclasp.key
    bound,      \* the bundle vault_metadata binds
    journal,    \* .custody-transaction.v1.json
    step        \* what the process in the lifecycle lock does next

bundleVars == <<bundle, bound, journal, step>>

Steps == {"idle", "writeBundle", "updateDatabase", "unlinkJournal",
          "recover", "unlinkRecovered"}

BundleTypeOK ==
    /\ bundle \in Bundle
    /\ bound \in Bundle
    /\ journal \in Journal \cup {None}
    /\ step \in Steps

BundleInit ==
    /\ bundle \in [generation : {1}, machine : MachineKeys,
                   interactive : Wrappings \cup {None}]
    /\ bound = bundle
    /\ journal = None
    /\ step = "idle"

----------------------------------------------------------------------------
(* A transition: commitKeyBundleTransition and its three callers           *)

\* readActiveKeyBundle and getKey, which refuses a bundle the database does
\* not bind; then the journal is written.
Begin(next) ==
    /\ step = "idle" /\ journal = None /\ bundle = bound
    /\ bundle.generation < MaxGeneration
    /\ journal' = [previous |-> bundle, next |-> next]
    /\ step' = "writeBundle"
    /\ UNCHANGED <<bundle, bound>>

\* Mutant: the generation is not advanced.
AdvanceKeysOnly(machine, interactive) ==
    [generation |-> bundle.generation, machine |-> machine, interactive |-> interactive]

Advance(machine, interactive) ==
    [generation |-> bundle.generation + 1,
     machine |-> machine, interactive |-> interactive]

EnrollInteractive(w) ==
    /\ bundle.interactive = None
    /\ Begin(Advance(bundle.machine, w))

RotateInteractive(w) ==
    /\ bundle.interactive \notin {None, w}
    /\ Begin(Advance(bundle.machine, w))

\* Mutant: the bundle is rebuilt around the new machine key alone.
RetireBothKeys(k) ==
    /\ bundle.interactive # None /\ k # bundle.machine
    /\ Begin(Advance(k, None))

RetireMachineKey(k) ==
    /\ bundle.interactive # None /\ k # bundle.machine
    /\ Begin(Advance(k, bundle.interactive))

WriteBundle ==
    /\ step = "writeBundle"
    /\ bundle' = journal.next
    /\ step' = "updateDatabase"
    /\ UNCHANGED <<bound, journal>>

UpdateDatabase ==
    /\ step = "updateDatabase"
    /\ bound' = journal.next
    /\ step' = "unlinkJournal"
    /\ UNCHANGED <<bundle, journal>>

\* Mutant: after an error the journal is removed and nothing recovered.
UpdateFailsUnrecovered ==
    /\ step = "updateDatabase"
    /\ bound' \in {bound, journal.next}
    /\ step' = "unlinkJournal"
    /\ UNCHANGED <<bundle, journal>>

\* The update throws, before or after it took effect: the transition is
\* recovered in place and the error is reported.
UpdateFails ==
    /\ step = "updateDatabase"
    /\ bound' \in {bound, journal.next}
    /\ step' = "recover"
    /\ UNCHANGED <<bundle, journal>>

UnlinkJournal ==
    /\ step = "unlinkJournal"
    /\ journal' = None
    /\ step' = "idle"
    /\ UNCHANGED <<bundle, bound>>

----------------------------------------------------------------------------
(* recoverInterruptedCustodyTransition                                     *)

StartRecovery ==
    /\ step = "idle" /\ journal # None
    /\ step' = "recover"
    /\ UNCHANGED <<bundle, bound, journal>>

\* Only the generation of the database decides.
Recover ==
    /\ step = "recover"
    /\ \/ bound.generation = journal.previous.generation /\ bundle' = journal.previous
       \/ bound.generation = journal.next.generation /\ bundle' = journal.next
    /\ step' = "unlinkRecovered"
    /\ UNCHANGED <<bound, journal>>

UnlinkRecovered ==
    /\ step = "unlinkRecovered"
    /\ journal' = None
    /\ step' = "idle"
    /\ UNCHANGED <<bundle, bound>>

\* The process dies, or a file operation throws out of the command.
Crash ==
    /\ step # "idle"
    /\ step' = "idle"
    /\ UNCHANGED <<bundle, bound, journal>>

----------------------------------------------------------------------------
TransitionStep ==
    \/ WriteBundle \/ UpdateDatabase \/ UpdateFails \/ UnlinkJournal
    \/ StartRecovery \/ Recover \/ UnlinkRecovered

BundleCommand ==
    \/ \E w \in Wrappings : EnrollInteractive(w) \/ RotateInteractive(w)
    \/ \E k \in MachineKeys : RetireMachineKey(k)

BundleNext == TransitionStep \/ BundleCommand \/ Crash

BundleSpec == BundleInit /\ [][BundleNext]_bundleVars

----------------------------------------------------------------------------
(* Properties                                                              *)

(* With no journal the key file is the one the database binds, keys and    *)
(* all and not only by generation: no crash, failed update or repeated     *)
(* recovery leaves a vault that validateBundleAgainstDatabase refuses.     *)
BundleMatchesDatabase == journal = None => bundle = bound

(* Key file and database agree or recovery finds its commit point: with a  *)
(* journal its generations differ, and the database binds the one of its   *)
(* bundles with the generation it holds.  ("does not match the database    *)
(* commit point")                                                          *)
CommitPointDecides ==
    /\ BundleMatchesDatabase
    /\ journal # None =>
          /\ journal.previous.generation # journal.next.generation
          /\ bound \in {journal.previous, journal.next}

(* The database moves from one bundle to its successor and keeps all of it *)
(* but what one transition replaces: a machine key and a wrapping never    *)
(* change together, and an enrolled wrapping is never dropped.             *)
BundlesSucceed ==
    [][bound' # bound =>
        /\ bound'.generation = bound.generation + 1
        /\ bound'.machine = bound.machine \/ bound'.interactive = bound.interactive
        /\ bound.interactive # None => bound'.interactive # None]_bundleVars
============================================================================
