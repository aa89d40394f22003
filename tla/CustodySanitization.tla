------------------------ MODULE CustodySanitization ------------------------
(***************************************************************************)
(* A record is sealed under the machine key or under the interactive key.  *)
(* Tightening the custody of records re-encrypts them and leaves a pending *)
(* phase in the database; the command, or the next one to start, removes   *)
(* what SQLite still holds of their machine ciphertext, retires the        *)
(* machine key if no record uses it any more, and clears the phase         *)
(* (vault.ts).  A vault from an older release is pending from the start.   *)
(*                                                                         *)
(* One command at a time is modelled: transitions and sanitization hold    *)
(* the lifecycle lock exclusively, and a command that only stores or       *)
(* deletes does so in one transaction.  The policy transaction that        *)
(* re-encrypts is one step here.                                           *)
(***************************************************************************)
EXTENDS KeyBundleTransition

CONSTANT Records

VARIABLES
    (* vault.db *)
    custody,    \* the key class of each record, or "absent"
    sealed,     \* the machine key each machine record is encrypted with
    required,   \* custody_sanitization_required
    recorded,   \* custody_sanitization_bundle_generation
    current,    \* custody_sanitization_version = CUSTODY_SANITIZATION_VERSION
    residue,    \* where SQLite still holds ciphertext of tightened records
    (* The process *)
    command,    \* "none", at its "startup", or in its "body"
    stage,      \* where in completePendingCustodySanitization
    unlocked,   \* the interactive key is in memory
    passphrase, \* the caller has the interactive passphrase
    refusal,    \* why the last command gave up
    (* History *)
    exposed     \* machine keys a tightening left without records

phase == <<required, recorded, current>>
inventory == <<custody, sealed>>
process == <<command, stage, unlocked, passphrase>>
custodyVars == <<inventory, phase, residue, process, refusal, exposed>>
vars == <<bundleVars, custodyVars>>

Places == {"wal", "pages"}
Stages == {"none", "inspect", "checkpoint", "vacuum", "retire", "verify", "clear"}

TypeOK ==
    /\ BundleTypeOK
    /\ custody \in [Records -> {"absent", "machine", "interactive"}]
    /\ sealed \in [Records -> MachineKeys \cup {None}]
    /\ required \in BOOLEAN /\ current \in BOOLEAN
    /\ recorded \in Nat
    /\ residue \subseteq Places
    /\ command \in {"none", "startup", "body"}
    /\ stage \in Stages
    /\ unlocked \in BOOLEAN /\ passphrase \in BOOLEAN
    /\ refusal \in {"none", "retirement", "locked", "died"}
    /\ exposed \subseteq MachineKeys

OfClass(class) == {r \in Records : custody[r] = class}
Enrolled == bundle.interactive # None

\* readPendingCustodySanitization
Pending == required \/ ~current
\* Mutant: the generation of a vault from an older release is read as recorded.
RecordedGeneration == recorded

PendingGeneration == IF current THEN recorded ELSE bound.generation

\* Mutant: machine records that remain are not counted.
RetiresAlways == bundle.generation = PendingGeneration

\* Mutant: that the key has been retired before is not noticed.
RetiresAgain == OfClass("machine") = {}

\* completePendingCustodySanitization: needsRetirement
NeedsRetirement ==
    OfClass("machine") = {} /\ bundle.generation = PendingGeneration

\* A vault of this release, one an older release tightened and left, or one
\* just migrated from a single key.
Init ==
    /\ BundleInit
    /\ custody \in [Records -> {"absent", "machine"} \cup
                       (IF Enrolled THEN {"interactive"} ELSE {})]
    /\ sealed = [r \in Records |-> IF custody[r] = "machine" THEN bound.machine
                                                             ELSE None]
    /\ current \in BOOLEAN
    /\ required \in IF current THEN {FALSE} ELSE BOOLEAN
    /\ recorded = IF required THEN bound.generation ELSE 0
    /\ residue = IF current \/ OfClass("interactive") = {} THEN {} ELSE Places
    /\ exposed = IF residue # {} /\ OfClass("machine") = {} THEN {bound.machine} ELSE {}
    /\ command = "none" /\ stage = "none"
    /\ unlocked = FALSE /\ passphrase = FALSE /\ refusal = "none"

----------------------------------------------------------------------------
(* Commands                                                                *)

Start ==
    /\ command = "none"
    /\ command' = "startup" /\ refusal' = "none"
    /\ UNCHANGED <<bundleVars, inventory, phase, residue, stage, unlocked,
                   passphrase, exposed>>

\* The command is over, and what it had in memory with it.
End ==
    /\ command' = "none" /\ stage' = "none"
    /\ unlocked' = FALSE /\ passphrase' = FALSE

Exit ==
    /\ command = "body" /\ stage = "none" /\ step = "idle"
    /\ End
    /\ UNCHANGED <<bundleVars, inventory, phase, residue, refusal, exposed>>

InBody == command = "body" /\ stage = "none" /\ step = "idle"

\* The class is the one the policy gives the record, new or overwritten.  What
\* a rename of hidden records can do, leave one with another class to be stored
\* over, is not followed here: SecretCommands has such records.
Store(r, class) ==
    /\ InBody /\ custody[r] \in {"absent", class}
    /\ class = "interactive" => Enrolled
    /\ custody' = [custody EXCEPT ![r] = class]
    /\ sealed' = [sealed EXCEPT ![r] = IF class = "machine" THEN bundle.machine ELSE None]
    /\ End
    /\ UNCHANGED <<bundleVars, phase, residue, refusal, exposed>>

Delete(r) ==
    /\ InBody /\ custody[r] # "absent"
    /\ custody' = [custody EXCEPT ![r] = "absent"]
    /\ sealed' = [sealed EXCEPT ![r] = None]
    /\ End
    /\ UNCHANGED <<bundleVars, phase, residue, refusal, exposed>>

\* ensureVaultUnlocked: the passphrase of this prompt or authorization is
\* returned, unless the key was unlocked before and no prompt is needed.
EnsureUnlocked ==
    /\ Enrolled
    /\ unlocked' = TRUE
    /\ passphrase' \in IF unlocked THEN BOOLEAN ELSE {TRUE}

\* transitionRecordCustody, in the transaction of the policy that asks for it.
Transition(target) ==
    /\ InBody
    /\ target # custody
    /\ \A r \in Records : (target[r] = "absent") <=> (custody[r] = "absent")
    /\ EnsureUnlocked
    /\ custody' = target
    /\ sealed' = [r \in Records |-> CASE target[r] # "machine" -> None
                                      [] custody[r] = "machine" -> sealed[r]
                                      [] OTHER -> bundle.machine]
    /\ IF \E r \in OfClass("machine") : target[r] = "interactive"
       THEN /\ required' = TRUE /\ recorded' = bundle.generation
            /\ residue' = Places
            /\ exposed' = IF \E r \in Records : target[r] = "machine"
                          THEN exposed ELSE exposed \cup {bound.machine}
            /\ stage' = "inspect" /\ UNCHANGED command
       ELSE /\ UNCHANGED <<required, recorded, residue, exposed, stage>>
            /\ command' = "none"
    /\ UNCHANGED <<bundleVars, current, refusal>>

\* `passphrase set` and `passphrase rotate`
ChangePassphrase(w) ==
    /\ InBody
    /\ EnrollInteractive(w) \/ RotateInteractive(w)
    /\ UNCHANGED custodyVars

----------------------------------------------------------------------------
(* Startup: recoverAndMigrateVault                                         *)

RecoverTransition ==
    /\ command = "startup" /\ stage = "none"
    /\ StartRecovery
    /\ UNCHANGED custodyVars

\* The passphrase is asked for only if custodySanitizationRequiresUnlock.
StartSanitization ==
    /\ command = "startup" /\ stage = "none" /\ step = "idle" /\ journal = None
    /\ Pending
    /\ IF OfClass("interactive") # {} THEN EnsureUnlocked
                                      ELSE UNCHANGED <<unlocked, passphrase>>
    /\ stage' = "inspect"
    /\ UNCHANGED <<bundleVars, inventory, phase, residue, command, refusal, exposed>>

Dispatch ==
    /\ command = "startup" /\ stage = "none" /\ step = "idle" /\ journal = None
    /\ ~Pending
    /\ command' = "body"
    /\ UNCHANGED <<bundleVars, inventory, phase, residue, stage, unlocked,
                   passphrase, refusal, exposed>>

----------------------------------------------------------------------------
(* completePendingCustodySanitization                                      *)

Refuse(reason) ==
    /\ refusal' = reason
    /\ End
    /\ UNCHANGED <<bundleVars, inventory, phase, residue, exposed>>

GoOn(next) ==
    /\ stage' = next
    /\ UNCHANGED <<bundleVars, inventory, phase, command, unlocked, passphrase,
                   refusal, exposed>>

RefuseRetirement ==
    /\ stage = "inspect" /\ NeedsRetirement /\ ~(passphrase /\ unlocked)
    /\ Refuse("retirement")

Inspect ==
    /\ stage = "inspect"
    /\ NeedsRetirement => passphrase /\ unlocked
    /\ OfClass("interactive") # {} => unlocked
    /\ GoOn("checkpoint")
    /\ UNCHANGED residue

\* Mutant: a checkpoint that leaves the log as it is.
CheckpointPassive == stage = "checkpoint" /\ GoOn("vacuum") /\ UNCHANGED residue

Checkpoint ==
    /\ stage = "checkpoint"
    /\ residue' = residue \ {"wal"}
    /\ GoOn("vacuum")

Vacuum ==
    /\ stage = "vacuum"
    /\ residue' = residue \ {"pages"}
    /\ GoOn(IF NeedsRetirement THEN "retire" ELSE "verify")

\* retireMachineDataKey; the key is drawn at random, so it is a new one.
Retire(k) ==
    /\ stage = "retire" /\ step = "idle" /\ k \notin exposed
    /\ RetireMachineKey(k)
    /\ UNCHANGED custodyVars

\* The transition a command started goes on; an error ends the command.
ContinueTransition ==
    /\ WriteBundle \/ UpdateDatabase \/ UpdateFails \/ Recover
    /\ UNCHANGED custodyVars

FinishTransition ==
    /\ UnlinkJournal
    /\ IF stage = "retire" THEN stage' = "verify" /\ UNCHANGED <<command, unlocked, passphrase>>
                           ELSE End
    /\ UNCHANGED <<inventory, phase, residue, refusal, exposed>>

FinishRecovery ==
    /\ UnlinkRecovered
    /\ IF command = "startup" /\ stage = "none" THEN UNCHANGED process ELSE End
    /\ UNCHANGED <<inventory, phase, residue, refusal, exposed>>

\* getManagedBackupKeys asks for the interactive key of an enrolled vault
\* whatever the records are sealed with.
RefuseLocked ==
    /\ stage = "verify" /\ Enrolled /\ ~unlocked
    /\ Refuse("locked")

Verified == \A r \in OfClass("machine") : sealed[r] = bundle.machine

Verify ==
    /\ stage = "verify" /\ (Enrolled => unlocked) /\ Verified
    /\ GoOn("clear")
    /\ UNCHANGED residue

\* Mutant: only the version is written, and the phase stays required.
ClearVersionOnly ==
    /\ stage = "clear" /\ current' = TRUE
    /\ UNCHANGED <<required, recorded>>
    /\ End
    /\ UNCHANGED <<bundleVars, inventory, residue, refusal, exposed>>

ClearPending ==
    /\ stage = "clear"
    /\ required' = FALSE /\ recorded' = 0 /\ current' = TRUE
    /\ IF command = "startup"
       THEN command' = "body" /\ stage' = "none" /\ UNCHANGED <<unlocked, passphrase>>
       ELSE End
    /\ UNCHANGED <<bundleVars, inventory, residue, refusal, exposed>>

\* The process dies, or a step throws.
Die ==
    /\ command # "none"
    /\ step' = "idle" /\ refusal' = "died"
    /\ End
    /\ UNCHANGED <<bundle, bound, journal, inventory, phase, residue, exposed>>

----------------------------------------------------------------------------
SanitizationStep ==
    \/ StartSanitization \/ RefuseRetirement \/ Inspect \/ Checkpoint \/ Vacuum
    \/ \E k \in MachineKeys : Retire(k)
    \/ RefuseLocked \/ Verify \/ ClearPending

ProgramStep ==
    \/ RecoverTransition \/ ContinueTransition \/ FinishTransition \/ FinishRecovery
    \/ SanitizationStep \/ Dispatch

Body ==
    \/ \E r \in Records, class \in {"machine", "interactive"} : Store(r, class)
    \/ \E r \in Records : Delete(r)
    \/ \E target \in [Records -> {"absent", "machine", "interactive"}] : Transition(target)
    \/ \E w \in Wrappings : ChangePassphrase(w)
    \/ Exit

Next == Start \/ ProgramStep \/ Body \/ Die

Spec == Init /\ [][Next]_vars

\* A command runs on, and an owner who is refused runs another.
FairSpec == Spec /\ WF_vars(ProgramStep \/ Exit) /\ WF_vars(Start)

----------------------------------------------------------------------------
(* Properties                                                              *)

(* Retiring a machine key never strands a record: whatever is interrupted, *)
(* every machine record is sealed with the key the database binds.         *)
MachineRecordsOpen == \A r \in OfClass("machine") : sealed[r] = bound.machine

(* Ordinary commands run, and nothing is pending, only when SQLite holds   *)
(* no machine ciphertext of a tightened record any more.                   *)
ClearedMeansClean == ~Pending => residue = {}

(* A machine key whose last record was tightened is not in use once the    *)
(* pending phase is cleared.                                               *)
ClearedMeansRetired == ~Pending => bound.machine \notin exposed

(* What an ordinary command may rely on: no exposed ciphertext is left and *)
(* no key that opens it is in use.                                         *)
ClearedMeansSanitized == ClearedMeansClean /\ ClearedMeansRetired

(* A tightening costs one machine key at most: a cleanup interrupted after *)
(* the retirement does not retire another when it is repeated.             *)
RetiredOnce ==
    required /\ current => bound.generation \in {recorded, recorded + 1}

(* A pending vault with interactive records is sanitized sooner or later:  *)
(* unless processes die or the database fails for ever, or the explored    *)
(* generations run out.                                                    *)
SanitizationCompletes ==
    <>[][~Die /\ ~UpdateFails]_vars =>
        (Pending /\ OfClass("interactive") # {} ~>
            ~Pending \/ bundle.generation = MaxGeneration)

(* "Machine-only inventories sanitize without interactive unlock."         *)
(* (docs/architecture/software-vault-lifecycle.md:39)  The sanitization of *)
(* a vault without interactive records is never refused for want of the    *)
(* interactive key or of a passphrase.                                     *)
MachineOnlyNeedsNoUnlock ==
    refusal \in {"locked", "retirement"} => OfClass("interactive") # {}
============================================================================
