--------------------------- MODULE SecretCommands ---------------------------
(***************************************************************************)
(* The commands that use the records of a vault (cli.ts, vault.ts, run.ts),*)
(* composed with the changes of its policy (PolicyCommit).  Commands that  *)
(* change the policy, and rename, hold the lifecycle lock alone; set,      *)
(* delete and run share it, and wait in the middle: for a value, for a     *)
(* confirmation, for the operator, for the child.  What interrupted        *)
(* commands left is recovered before others run (LifecycleLock).  The      *)
(* vault has an interactive passphrase.                                    *)
(***************************************************************************)
EXTENDS PolicyCommit, AuthorizationRules, FiniteSets

CONSTANTS
    Projects, Environments,
    Visible, Hidden,    \* names; the hidden ones begin with __
    Scopes,             \* bound: the scopes that shared commands are given
    Commands,           \* processes of shared commands
    MaxRecords          \* bound on the records of a vault

Slots == [project : Projects, environment : Environments, name : Visible \cup Hidden]

\* A rule names a place and locks or unlocks it.
PolicyRule == [project : Projects \cup {Unset}, environment : Environments \cup {Unset},
               name : Visible \cup Hidden \cup {Unset}, locked : BOOLEAN]

ASSUME CommandsAssumption ==
    /\ Unset \notin Projects \cup Environments \cup Visible \cup Hidden
    /\ Scopes \subseteq [project : Projects, environment : Environments]
    /\ MaxRecords \in Nat
    /\ \A p \in Policies : /\ p.default \in {"interactive", "machine", "legacy-machine"}
                         /\ p.rules \in Seq(PolicyRule)

VARIABLES
    records,    \* the secrets table
    job,        \* what every shared command is doing
    unlocked    \* the command that changes the policy has the interactive key

commandVars == <<vars, records, job, unlocked>>

\* The slot and class that the ciphertext of a record is bound to.
Sealed(slot, class) == [class |-> class, seal |-> <<slot, class>>]
Classes == {"machine", "interactive"}
Record == [class : Classes, seal : Slots \X Classes]

\* readAuthorizationState
State == [policy \in Policies |-> [slot \in Slots |-> Locked(policy, slot)]]
IsLocked(policy, slot) == State[policy][slot]

Class(policy, slot) == IF IsLocked(policy, slot) THEN "interactive" ELSE "machine"

Idle == [kind |-> "idle"]
Job ==
    {Idle}
    \cup [kind : {"set"}, slot : Slots, class : Classes]
    \cup [kind : {"bulk"}, selected : SUBSET Slots, seen : SUBSET Slots]
    \cup [kind : {"run"}, shown : SUBSET Slots, injected : SUBSET Slots,
          approved : BOOLEAN, unlocked : BOOLEAN, running : BOOLEAN]

CommandsTypeOK ==
    /\ TypeOK
    /\ records \in [Slots -> Record \cup {None}]
    /\ \A c \in Commands : job[c] \in Job
    /\ unlocked \in BOOLEAN

Stored == {s \in Slots : records[s] # None}

CommandsInit ==
    /\ Init
    /\ document # None => seed = document.policy    \* bound: it is not looked at
    /\ \E stored \in SUBSET Slots :
          /\ Cardinality(stored) <= MaxRecords
          /\ records = [s \in Slots |-> IF s \in stored
                                        THEN Sealed(s, Class(applied, s)) ELSE None]
    /\ job = [c \in Commands |-> Idle]
    /\ unlocked = FALSE

----------------------------------------------------------------------------
(* Who may go on                                                           *)

\* Mutant: changes of policy share the lock.
Shared == TRUE

\* The exclusive lifecycle lock, for the commands lifecycleModeForCommand
\* lists and for recovery.
Exclusive == \A c \in Commands : job[c] = Idle

\* Nothing is left to be recovered or migrated, and no command that would do
\* so or change the policy has the lock.
Calm == step = "idle" /\ pending = None /\ document # None /\ document.upToDate

Policy == document.policy

----------------------------------------------------------------------------
(* Changing the policy                                                     *)

\* The records that a policy gives another class.
Moved(policy) == {s \in Stored : records[s].class # Class(policy, s)}

\* Mutant: records are tightened and never loosened.
Tightened(policy) ==
    [s \in Slots |-> IF s \in Moved(policy) /\ records[s].class = "machine"
                     THEN Sealed(s, Class(policy, s)) ELSE records[s]]

\* transitionRecordCustody
Transitioned(policy) ==
    [s \in Slots |-> IF s \in Moved(policy) THEN Sealed(s, Class(policy, s))
                     ELSE records[s]]

\* Every transition needs the interactive key on one side or the other.
HasKeys(policy) == Moved(policy) # {} => unlocked

\* previewAuthorizationDefault: interactiveToMachine
LoosenedBy(policy) == {s \in Moved(policy) : records[s].class = "interactive"}

\* Mutant: a default that only unlocks never asks for the passphrase.
UnlocksForLockOnly(policy) ==
    policy.rules # Policy.rules \/ policy.default = "interactive"

\* mutateAuthorizationRuleAuthorized always unlocks the vault,
\* mutateAuthorizationDefaultAuthorized when the preview says that it has to.
Unlocks(policy) ==
    \/ policy.rules # Policy.rules
    \/ policy.default = "interactive" \/ LoosenedBy(policy) # {}

\* lock, unlock and inherit, with --default or for a selector.
ChangePolicy(policy) ==
    /\ Exclusive /\ Mutate(policy)
    /\ \/ policy.default # Policy.default /\ policy.rules = Policy.rules
          /\ policy.default # "legacy-machine"
       \/ policy.default = Policy.default /\ EditsOneRule(Policy.rules, policy.rules)
    /\ unlocked' = Unlocks(policy)
    /\ UNCHANGED <<records, job>>

\* The commit of a change transitions the records in its transaction, those
\* of the migration of a policy and of the first one do not.
Custody ==
    IF step = "database" /\ bound' = next /\ next.policy # PolicyOf(bound)
    THEN HasKeys(next.policy) /\ records' = Transitioned(next.policy)
    ELSE UNCHANGED records

\* Everything else PolicyCommit does.
PolicyStep ==
    /\ Exclusive
    /\ \/ \E key \in Keys : Initialize(key)
       \/ Migrate
       \/ WriteDocument \/ WriteAnchor \/ UpdateDatabase \/ UnlinkPending \/ CommitFails
       \/ StartRecovery \/ KeepCommitted \/ RollBack
       \/ RestoreDocument \/ RestoreAnchor \/ RestoreDatabase \/ UnlinkRestored
       \/ Crash
    /\ Custody
    /\ UNCHANGED <<job, unlocked>>

----------------------------------------------------------------------------
(* Shared commands                                                         *)

InScope(scope, s) == s.project = scope.project /\ s.environment = scope.environment

Begin(c, j) ==
    /\ Calm /\ job[c] = Idle
    /\ job' = [job EXCEPT ![c] = j]
    /\ UNCHANGED <<vars, unlocked>>

\* set reads the policy, gets the key of its class, and waits for the value.
StartSet(c, scope, name) ==
    LET s == [project |-> scope.project, environment |-> scope.environment, name |-> name]
    IN  /\ Begin(c, [kind |-> "set", slot |-> s, class |-> Class(Policy, s)])
        /\ UNCHANGED records

\* The command ends, by itself or because it dies.
Ends(c) ==
    /\ job[c] # Idle
    /\ job' = [job EXCEPT ![c] = Idle]
    /\ UNCHANGED <<vars, unlocked>>

\* storeSecret: one transaction, in the place of a record with that name.
StoreSecret(c) ==
    /\ job[c].kind = "set"
    /\ Cardinality(Stored \cup {job[c].slot}) <= MaxRecords
    /\ records' = [records EXCEPT ![job[c].slot] = Sealed(job[c].slot, job[c].class)]
    /\ Ends(c)

Without(slots) == [s \in Slots |-> IF s \in slots THEN None ELSE records[s]]

\* deleteSecret
DeleteSecret(s) ==
    /\ Calm
    /\ s \in Stored /\ \E scope \in Scopes : InScope(scope, s)
    /\ records' = Without({s})
    /\ UNCHANGED <<vars, job, unlocked>>

\* The records of a project, of an environment in it, or of an environment
\* in all projects.
Selections(scope) ==
    {{s \in Slots : s.project = scope.project},
     {s \in Slots : InScope(scope, s)},
     {s \in Slots : s.environment = scope.environment}}

\* snapshotBulkDelete; the operator is asked to confirm.
StartBulkDelete(c, selected) ==
    /\ Stored \cap selected # {}
    /\ Begin(c, [kind |-> "bulk", selected |-> selected, seen |-> Stored \cap selected])
    /\ UNCHANGED records

\* Mutant: only the number of records is compared.
DeleteIfAsMany(c) ==
    /\ job[c].kind = "bulk"
    /\ Cardinality(Stored \cap job[c].selected) = Cardinality(job[c].seen)
    /\ records' = Without(job[c].selected)
    /\ Ends(c)

\* deleteBulkIfUnchanged, once confirmed: it compares the names and deletes
\* what is selected now.
DeleteBulkIfUnchanged(c) ==
    /\ job[c].kind = "bulk"
    /\ Stored \cap job[c].selected = job[c].seen
    /\ records' = Without(job[c].selected)
    /\ Ends(c)

----------------------------------------------------------------------------
(* run                                                                     *)

\* listSecrets leaves out names that begin with __.
Listed(scope) == {s \in Stored : InScope(scope, s) /\ s.name \in Visible}

\* run decides what to inject and what to ask for: everything in the scope,
\* or the named secrets, which must be listed.
StartRun(c, scope, named) ==
    LET selected == IF named = {} THEN Listed(scope) ELSE named IN
    /\ named \subseteq Listed(scope)
    /\ Begin(c, [kind |-> "run", shown |-> selected, injected |-> {},
                 approved |-> named = {} \/ \E s \in named : IsLocked(Policy, s),
                 unlocked |-> \E s \in selected : records[s].class = "interactive",
                 running |-> FALSE])
    /\ UNCHANGED records

Inject(c, slots) ==
    /\ job[c].kind = "run" /\ ~job[c].running
    /\ slots \subseteq Stored
    /\ \A s \in slots : records[s].class = "interactive" => job[c].unlocked
    /\ job' = [job EXCEPT ![c].injected = slots, ![c].running = TRUE]
    /\ UNCHANGED <<vars, records, unlocked>>

\* Mutant: what is listed when the operator has answered is injected.
InjectListed(c) ==
    \E scope \in Scopes : job[c].kind = "run" /\ Inject(c, Listed(scope))

\* The operator approved and unlocked what was asked for: resolveSecretsForRun
\* reads all records in one transaction, or fails.  The child starts.
ResolveAndSpawn(c) == job[c].kind = "run" /\ Inject(c, job[c].shown)

\* A command is refused, fails, or dies, or its child has ended.
EndJob(c) == Ends(c) /\ UNCHANGED records

----------------------------------------------------------------------------
(* rename                                                                  *)

\* From and to have a project, an environment, or both; what is not renamed
\* is the same in both, or open.
Renames ==
    {r \in [from : [project : Projects \cup {Unset}, environment : Environments \cup {Unset}],
            to : [project : Projects \cup {Unset}, environment : Environments \cup {Unset}]] :
        \/ r.from.project = Unset /\ r.to.project = Unset       \* --all-projects
           /\ r.from.environment # Unset /\ r.to.environment # Unset
        \/ r.from.environment = Unset /\ r.to.environment = Unset
           /\ r.from.project # Unset /\ r.to.project # Unset
        \/ r.from.project # Unset /\ r.to.project = r.from.project
           /\ r.from.environment # Unset /\ r.to.environment # Unset
        \/ Unset \notin {r.from.project, r.to.project, r.from.environment, r.to.environment}}

Source(r) ==
    {s \in Stored : /\ r.from.project \in {Unset, s.project}
                    /\ r.from.environment \in {Unset, s.environment}}

Target(r, s) ==
    [s EXCEPT !.project = IF r.to.project = Unset THEN @ ELSE r.to.project,
              !.environment = IF r.to.environment = Unset THEN @ ELSE r.to.environment]

\* Mutant: any record may be moved.
PreservesAnything(r) == TRUE

\* preserveAuthorization, of the records listSecrets returns.
PreservesAuthorization(r) ==
    \A s \in Source(r) : s.name \in Visible =>
        IsLocked(Policy, s) = IsLocked(Policy, Target(r, s))

\* Mutant: the rows are given new scopes and not encrypted again.
MovedAsIs(r) ==
    [t \in Slots |->
        IF \E s \in Source(r) : Target(r, s) = t
        THEN records[CHOOSE s \in Source(r) : Target(r, s) = t]
        ELSE IF t \in Source(r) THEN None ELSE records[t]]

\* reencryptMovedRows: under the key class they have.
Reencrypted(r) ==
    [t \in Slots |->
        IF \E s \in Source(r) : Target(r, s) = t
        THEN Sealed(t, records[CHOOSE s \in Source(r) : Target(r, s) = t].class)
        ELSE IF t \in Source(r) THEN None ELSE records[t]]

\* One transaction, unless a record is already where one would go.
Rename(r) ==
    /\ Exclusive /\ Calm
    /\ PreservesAuthorization(r)
    /\ \A s \in Source(r) : Target(r, s) \notin Stored
    /\ records' = Reencrypted(r)
    /\ UNCHANGED <<vars, job, unlocked>>

----------------------------------------------------------------------------
CommandsNext ==
    \/ \E policy \in Policies : ChangePolicy(policy)
    \/ PolicyStep
    \/ \E c \in Commands, scope \in Scopes :
          \/ \E name \in Visible \cup Hidden : StartSet(c, scope, name)
          \/ \E selected \in Selections(scope) : StartBulkDelete(c, selected)
          \/ \E named \in SUBSET Listed(scope) : StartRun(c, scope, named)
    \/ \E s \in Slots : DeleteSecret(s)
    \/ \E c \in Commands :
          StoreSecret(c) \/ DeleteBulkIfUnchanged(c) \/ ResolveAndSpawn(c) \/ EndJob(c)
    \/ \E r \in Renames : Rename(r)

CommandsSpec == CommandsInit /\ [][CommandsNext]_commandVars

----------------------------------------------------------------------------
(* Properties                                                              *)

Meaning == [policy \in Policies |-> [slot \in Slots |-> MeansLocked(policy, slot)]]

FollowsPolicy(names) ==
    \A s \in Stored : s.name \in names => records[s].class = Class(InForce, s)

(* Every listed record is encrypted under the class that the policy in     *)
(* force gives its name, although commands that read the policy store or   *)
(* move records later, policies change in several steps, and any of them   *)
(* may die.                                                                *)
RecordsFollowPolicy == FollowsPolicy(Visible)

(* Every record can be decrypted: its ciphertext is bound to the place and *)
(* the class it has, whatever transitions and renames it went through.     *)
RecordsOpen ==
    \A s \in Stored : records[s].seal = <<s, records[s].class>>

(* A child that runs has no values but those the operator was shown, was   *)
(* approved if one of them is locked by the policy in force, and had the   *)
(* vault unlocked if one of them is interactive, for as long as it runs.   *)
RunsAreAuthorized ==
    \A c \in Commands : job[c].kind = "run" /\ job[c].running =>
        /\ job[c].injected \subseteq job[c].shown
        /\ \A s \in job[c].injected : IsLocked(InForce, s) => job[c].approved /\ job[c].unlocked

(* A change of policy never fails for want of the interactive key: that it *)
(* is asked for is decided on a preview, and what needs it is done at the  *)
(* commit.  (Of records that follow the policy, that is.)                  *)
ChangeHasKeys ==
    /\ step = "database" /\ next.policy # PolicyOf(bound)
    /\ FollowsPolicy(Visible \cup Hidden)
    => HasKeys(next.policy)

(* The evaluation of the rules in their order means what it should.        *)
EvaluationMeansRules ==
    \A s \in Slots : IsLocked(InForce, s) = Meaning[InForce][s]

(* A bulk delete removes the records the operator confirmed, all of them   *)
(* and no other, although others are stored and deleted meanwhile.         *)
BulkDeletesWhatWasConfirmed ==
    [][\A c \in Commands :
          job[c].kind = "bulk" /\ job'[c] = Idle /\ records' # records
          => Stored \ Stored' = job[c].seen]_commandVars

(* "Rename proceeds only when every moved secret has the same effective    *)
(* authorization state at its destination." (docs/plans/2026-08-23-001-    *)
(* software-beta-and-optional-hardware-mode-plan.md:185)                   *)
RenameKeepsAuthorization == FollowsPolicy(Visible \cup Hidden)
=============================================================================
