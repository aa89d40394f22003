---------------------------- MODULE PolicyCommit ----------------------------
(***************************************************************************)
(* Changing the authorization policy of a vault (policy.ts).  The policy   *)
(* is a document, and an anchor file with the key of its MAC and its hash; *)
(* the database binds the generation and the hash as well, and its         *)
(* transaction, which also re-encrypts the records whose custody changes,  *)
(* is the commit point.  A pending file written first holds what is to be  *)
(* put back.  The anchor and the database stand here for the document      *)
(* whose hash they hold.                                                   *)
(*                                                                         *)
(* Every file is written beside its name, flushed and renamed, so a crash  *)
(* leaves the old or the new file.  The exclusive lifecycle lock is held.  *)
(***************************************************************************)
EXTENDS Naturals

CONSTANTS
    Policies,       \* a default custody and a set of rules
    Keys,           \* MAC keys
    None,
    MaxGeneration   \* bound on the generations explored

Document == [generation : Nat \ {0}, policy : Policies, key : Keys,
             upToDate : BOOLEAN]   \* written in the current POLICY_VERSION
Anchor == [key : Keys, document : Document]
Pending == [document : Document \cup {None}, anchor : Anchor \cup {None},
            bound : Document \cup {None}]

ASSUME PolicyAssumption ==
    /\ None \notin Document \cup Anchor \cup Pending
    /\ MaxGeneration \in Nat

VARIABLES
    document,   \* strict-policy.v1.json
    anchor,     \* .strict-policy.key
    pending,    \* the transaction file
    bound,      \* the document vault_metadata binds
    seed,       \* authorization_default_seed, in force without a policy
    applied,    \* the policy the custody of the records follows
    step,       \* what the process does next
    next,       \* the document being committed
    catching,   \* a failed commit is being recovered in place
    report      \* what the last change of policy reported

files == <<document, anchor, pending>>
database == <<bound, seed, applied>>
process == <<step, next, catching>>
vars == <<files, database, process, report>>

Steps == {"idle", "document", "anchor", "database", "unlink", "examine",
          "restoreDocument", "restoreAnchor", "restoreDatabase", "unlinkRestored"}

TypeOK ==
    /\ {document, bound, next} \subseteq Document \cup {None}
    /\ anchor \in Anchor \cup {None}
    /\ pending \in Pending \cup {None}
    /\ {seed, applied} \subseteq Policies
    /\ step \in Steps
    /\ catching \in BOOLEAN
    /\ report \in {"none", "done", "failed"}

(* A vault without a policy, as `init` or a release before policies left   *)
(* it, or one whose policy was written by this release or an older one.    *)
Init ==
    /\ document \in {None} \cup [generation : {1}, policy : Policies,
                                   key : Keys, upToDate : BOOLEAN]
    /\ anchor = IF document = None THEN None
                ELSE [key |-> document.key, document |-> document]
    /\ bound = document
    /\ seed \in Policies
    /\ applied = IF document = None THEN seed ELSE document.policy
    /\ pending = None
    /\ step = "idle" /\ next = None /\ catching = FALSE
    /\ report = "none"

----------------------------------------------------------------------------
(* Reading                                                                 *)

\* loadPolicyFrom: document and anchor authenticate each other.
Authentic == document # None /\ anchor # None
             /\ anchor.document = document /\ anchor.key = document.key

\* loadPolicy: and the database binds them, or there is no policy at all.
Loads == \/ Authentic /\ bound = document
         \/ document = None /\ anchor = None /\ bound = None

PolicyOf(d) == IF d = None THEN seed ELSE d.policy

(* The policy the vault has once what is interrupted is recovered.         *)
InForce == IF pending = None \/ (Authentic /\ bound = document)
           THEN PolicyOf(document) ELSE PolicyOf(pending.document)

----------------------------------------------------------------------------
(* commitPolicyDocument                                                    *)

Commit(policy, key) ==
    /\ step = "idle" /\ pending = None /\ Loads
    /\ document # None => document.generation < MaxGeneration
    /\ next' = [generation |-> IF document = None THEN 1 ELSE document.generation + 1,
                policy |-> policy, key |-> key, upToDate |-> TRUE]
    /\ pending' = [document |-> document, anchor |-> anchor, bound |-> document]
    /\ step' = "document" /\ report' = "none"
    /\ UNCHANGED <<document, anchor, database, catching>>

\* initializeAuthorizationPolicy, and migrateAuthorizationPolicyDefault of
\* a vault that has none: the key is a random one.
Initialize(key) == document = None /\ Commit(seed, key)

\* migrateAuthorizationPolicyDefault of a document of an older version.
Migrate == document # None /\ ~document.upToDate /\ Commit(document.policy, document.key)

\* mutateAuthorizationRule and mutateAuthorizationDefault
Mutate(policy) ==
    /\ document # None /\ document.upToDate /\ policy # document.policy
    /\ Commit(policy, document.key)

\* Mutant: the anchor file is left out.
WriteDocumentOnly ==
    /\ step = "document"
    /\ document' = next
    /\ step' = "database"
    /\ UNCHANGED <<anchor, pending, database, next, catching, report>>

WriteDocument ==
    /\ step = "document"
    /\ document' = next
    /\ step' = "anchor"
    /\ UNCHANGED <<anchor, pending, database, next, catching, report>>

\* Mutant: the change is reported once both files are written.
WriteAnchorAndReport ==
    /\ step = "anchor"
    /\ anchor' = [key |-> next.key, document |-> next]
    /\ step' = "database" /\ report' = "done"
    /\ UNCHANGED <<document, pending, database, next, catching>>

WriteAnchor ==
    /\ step = "anchor"
    /\ anchor' = [key |-> next.key, document |-> next]
    /\ step' = "database"
    /\ UNCHANGED <<document, pending, database, next, catching, report>>

CommitTransaction == bound' = next /\ applied' = next.policy /\ UNCHANGED seed

\* writePolicyDatabaseAnchor, with the transition of the records.
UpdateDatabase ==
    /\ step = "database"
    /\ CommitTransaction
    /\ step' = "unlink"
    /\ UNCHANGED <<files, next, catching, report>>

\* Failing to remove the pending file is not an error any more.
UnlinkPending ==
    /\ step = "unlink"
    /\ pending' \in {None, pending}
    /\ step' = "idle" /\ report' = "done"
    /\ UNCHANGED <<document, anchor, database, next, catching>>

\* A step before that throws, the last of them before or after it took
\* effect: the change is recovered in place and the error reported.
CommitFails ==
    /\ step \in {"document", "anchor", "database"}
    /\ UNCHANGED database \/ (step = "database" /\ CommitTransaction)
    /\ step' = "examine" /\ catching' = TRUE
    /\ UNCHANGED <<files, next, report>>

----------------------------------------------------------------------------
(* recoverInterruptedPolicy                                                *)

StartRecovery ==
    /\ step = "idle" /\ pending # None
    /\ step' = "examine"
    /\ UNCHANGED <<files, database, next, catching, report>>

Finish ==
    /\ step' = "idle" /\ catching' = FALSE
    /\ report' = IF catching THEN "failed" ELSE report

\* Mutant: files that authenticate each other are taken for committed.
KeepAuthentic ==
    /\ step = "examine" /\ Authentic
    /\ pending' \in {None, pending}
    /\ Finish
    /\ UNCHANGED <<document, anchor, database, next>>

KeepCommitted ==
    /\ step = "examine" /\ Authentic /\ bound = document
    /\ pending' \in {None, pending}
    /\ Finish
    /\ UNCHANGED <<document, anchor, database, next>>

\* Only if the database binds what the pending file records.
RollBack ==
    /\ step = "examine" /\ ~(Authentic /\ bound = document)
    /\ pending.bound = bound
    /\ step' = "restoreDocument"
    /\ UNCHANGED <<files, database, next, catching, report>>

\* Mutant: only the document is put back.
RestoreDocumentOnly ==
    /\ step = "restoreDocument"
    /\ document' = pending.document
    /\ step' = "restoreDatabase"
    /\ UNCHANGED <<anchor, pending, database, next, catching, report>>

RestoreDocument ==
    /\ step = "restoreDocument"
    /\ document' = pending.document
    /\ step' = "restoreAnchor"
    /\ UNCHANGED <<anchor, pending, database, next, catching, report>>

RestoreAnchor ==
    /\ step = "restoreAnchor"
    /\ anchor' = pending.anchor
    /\ step' = "restoreDatabase"
    /\ UNCHANGED <<document, pending, database, next, catching, report>>

RestoreDatabase ==
    /\ step = "restoreDatabase"
    /\ bound' = pending.bound
    /\ step' = "unlinkRestored"
    /\ UNCHANGED <<files, seed, applied, next, catching, report>>

UnlinkRestored ==
    /\ step = "unlinkRestored"
    /\ pending' = None
    /\ Finish
    /\ UNCHANGED <<document, anchor, database, next>>

\* The process dies, or a step outside the commit's try block throws.
Crash ==
    /\ step # "idle"
    /\ step' = "idle" /\ catching' = FALSE
    /\ UNCHANGED <<files, database, next, report>>

----------------------------------------------------------------------------
Next ==
    \/ \E key \in Keys : Initialize(key)
    \/ Migrate
    \/ \E policy \in Policies : Mutate(policy)
    \/ WriteDocument \/ WriteAnchor \/ UpdateDatabase \/ UnlinkPending \/ CommitFails
    \/ StartRecovery \/ KeepCommitted \/ RollBack
    \/ RestoreDocument \/ RestoreAnchor \/ RestoreDatabase \/ UnlinkRestored
    \/ Crash

Spec == Init /\ [][Next]_vars

----------------------------------------------------------------------------
(* Properties                                                              *)

(* With no transaction pending the policy loads: no interrupted change or  *)
(* interrupted recovery leaves a document, an anchor and a database that   *)
(* contradict each other.  ("Restore a managed backup before using ...")   *)
PolicyLoads == pending = None => Loads

(* The policy loads or recovery does not give up: at every interruption,   *)
(* of a change or of its recovery, either the files are what the database  *)
(* binds, or the database binds what the pending file records.  ("... does *)
(* not match the committed vault generation")                              *)
RecoveryDecides ==
    /\ PolicyLoads
    /\ pending # None => (Authentic /\ bound = document) \/ pending.bound = bound

(* The key class of every record follows the policy in force, although one *)
(* is in the database and the other in two files, at every interruption.   *)
CustodyFollowsPolicy == InForce = applied

(* A change that was reported is not undone by a later crash or recovery.  *)
ReportedChangeHolds == report = "done" => InForce = next.policy

(* The policy in force changes in the database transaction and at no other *)
(* step: writing or putting back the files changes nothing by itself.      *)
ChangesAtCommit ==
    [][InForce' # InForce => step = "database" /\ InForce' = next.policy]_vars
============================================================================
