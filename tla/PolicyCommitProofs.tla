------------------------- MODULE PolicyCommitProofs -------------------------
(***************************************************************************)
(* What PolicyCommit promises, proved for all policies, keys and numbers   *)
(* of changes.  The properties are not inductive: the invariant adds what  *)
(* the files hold at each step and where, at an interruption, the document *)
(* is that the database binds.                                             *)
(***************************************************************************)
EXTENDS PolicyCommit, TLAPS

AnchorOf(d) == IF d = None THEN None ELSE [key |-> d.key, document |-> d]

Committed == Authentic /\ bound = document
Uncommitted == pending.bound = bound

(* The pending file holds a whole policy, and the database binds either    *)
(* that one or the one in the files.                                       *)
PendingInv ==
    /\ pending = None => anchor = AnchorOf(document) /\ bound = document
    /\ pending # None =>
          /\ pending.bound = pending.document
          /\ pending.anchor = AnchorOf(pending.document)
          /\ Committed \/ Uncommitted

\* What the files hold at each step.
StepInv ==
    /\ step # "idle" => pending # None
    /\ step \in {"document", "anchor", "database", "unlink"} => next # None /\ report = "none"
    /\ step \in {"document", "anchor", "database"} => Uncommitted
    /\ step \in {"anchor", "database", "unlink"} => document = next
    /\ step \in {"database", "unlink"} => anchor = AnchorOf(next)
    /\ step = "unlink" => bound = next
    /\ step \in {"restoreDocument", "restoreAnchor", "restoreDatabase",
                 "unlinkRestored"} => Uncommitted
    /\ step \in {"restoreAnchor", "restoreDatabase", "unlinkRestored"} =>
          document = pending.document
    /\ step \in {"restoreDatabase", "unlinkRestored"} => anchor = pending.anchor

CustodyInv ==
    /\ applied = PolicyOf(bound)
    /\ report = "done" => next # None /\ applied = next.policy

Inv == TypeOK /\ PendingInv /\ StepInv /\ CustodyInv

----------------------------------------------------------------------------
USE PolicyAssumption DEF Document, Anchor, Pending, Steps, files, database, process

LEMMA InvInit == Init => Inv
<1> SUFFICES ASSUME Init PROVE Inv
  OBVIOUS
<1>1. TypeOK
  <2>1. document \in Document \cup {None}
    BY DEF Init
  <2>2. anchor \in Anchor \cup {None}
    BY <2>1 DEF Init
  <2> QED
    BY <2>1, <2>2 DEF Init, TypeOK
<1>2. PendingInv /\ StepInv /\ CustodyInv
  BY DEF Init, PendingInv, StepInv, CustodyInv, AnchorOf, PolicyOf
<1> QED
  BY <1>1, <1>2 DEF Inv

\* What the three changes have in common.
LEMMA CommitInv == ASSUME Inv, NEW policy \in Policies, NEW key \in Keys, Commit(policy, key)
                   PROVE Inv'
<1> USE DEF Inv, TypeOK, Commit
<1>1. next' \in Document /\ next' # None
  <2> DEFINE g == IF document = None THEN 1 ELSE document.generation + 1
  <2>1. g \in Nat \ {0}
    OBVIOUS
  <2>2. next' = [generation |-> g, policy |-> policy, key |-> key, upToDate |-> TRUE]
    OBVIOUS
  <2> HIDE DEF g, Inv, TypeOK, Commit
  <2>3. next' \in Document
    BY <2>1, <2>2
  <2> QED
    BY <2>3
<1>2. pending' \in Pending /\ pending' # None
  <2>1. pending' = [document |-> document, anchor |-> anchor, bound |-> document]
    OBVIOUS
  <2> QED
    BY <2>1
<1>3. TypeOK'
  BY <1>1, <1>2
<1>4. PendingInv'
  BY <1>2 DEF PendingInv, AnchorOf, Committed, Uncommitted, Authentic
<1>5. StepInv'
  BY <1>1, <1>2 DEF PendingInv, StepInv, Uncommitted
<1>6. CustodyInv'
  BY DEF CustodyInv, PolicyOf
<1> QED
  BY <1>3, <1>4, <1>5, <1>6

LEMMA InvNext == Inv /\ [Next]_vars => Inv'
<1> SUFFICES ASSUME Inv, [Next]_vars PROVE Inv'
  OBVIOUS
<1> USE DEF Inv, TypeOK, PendingInv, StepInv, CustodyInv, AnchorOf, Authentic,
            Committed, Uncommitted, PolicyOf
<1>1. ASSUME NEW key \in Keys, Initialize(key) PROVE Inv'
  BY <1>1, CommitInv DEF Initialize
<1>2. CASE Migrate
  BY <1>2, CommitInv DEF Migrate
<1>3. ASSUME NEW policy \in Policies, Mutate(policy) PROVE Inv'
  BY <1>3, CommitInv DEF Mutate
<1>4. CASE WriteDocument
  BY <1>4 DEF WriteDocument
<1>5. CASE WriteAnchor
  BY <1>5 DEF WriteAnchor
<1>6. CASE UpdateDatabase
  BY <1>6 DEF UpdateDatabase, CommitTransaction
<1>7. CASE UnlinkPending
  BY <1>7 DEF UnlinkPending
<1>8. CASE CommitFails
  BY <1>8 DEF CommitFails, CommitTransaction
<1>9. CASE StartRecovery
  BY <1>9 DEF StartRecovery
<1>10. CASE KeepCommitted
  BY <1>10 DEF KeepCommitted, Finish
<1>11. CASE RollBack
  BY <1>11 DEF RollBack
<1>12. CASE RestoreDocument
  BY <1>12 DEF RestoreDocument
<1>13. CASE RestoreAnchor
  BY <1>13 DEF RestoreAnchor
<1>14. CASE RestoreDatabase
  BY <1>14 DEF RestoreDatabase
<1>15. CASE UnlinkRestored
  BY <1>15 DEF UnlinkRestored, Finish
<1>16. CASE Crash
  <2>1. UNCHANGED <<document, anchor, pending, bound, seed, applied, next, report>>
        /\ step' = "idle" /\ catching' = FALSE
    BY <1>16 DEF Crash
  <2>2. TypeOK' /\ StepInv'
    BY <2>1
  <2>3. PendingInv' /\ CustodyInv'
    BY <2>1
  <2> QED
    BY <2>2, <2>3
<1>17. CASE UNCHANGED vars
  BY <1>17 DEF vars
<1> HIDE DEF Inv
<1> QED
  BY <1>1, <1>2, <1>3, <1>4, <1>5, <1>6, <1>7, <1>8, <1>9, <1>10, <1>11,
     <1>12, <1>13, <1>14, <1>15, <1>16, <1>17 DEF Next

\* The inductive invariant: the pending file (policy.ts:538) always holds the
\* policy the database binds, unless the files do.
THEOREM PolicyInvariance == Spec => []Inv
<1>1. Init => Inv
  BY InvInit
<1>2. Inv /\ [Next]_vars => Inv'
  BY InvNext
<1> QED
  BY <1>1, <1>2, PTL DEF Spec

----------------------------------------------------------------------------
\* Whatever is written, put back or bound is a document of its type, at every
\* interruption of a commit (policy.ts:510) or of its recovery.
THEOREM PolicyTypes == Spec => []TypeOK
<1>1. Inv => TypeOK
  BY DEF Inv
<1> QED
  BY <1>1, PolicyInvariance, PTL

\* What is in force is what the custody of the records follows.
LEMMA InForceApplied == Inv => InForce = applied
BY DEF Inv, PendingInv, CustodyInv, InForce, PolicyOf, Committed, Uncommitted, Authentic

\* A policy without a pending transaction loads, however it came about.
THEOREM PolicyIsReadable == Spec => []PolicyLoads
<1>1. Inv => PolicyLoads
  BY DEF Inv, TypeOK, PendingInv, PolicyLoads, Loads, Authentic, AnchorOf
<1> QED
  BY <1>1, PolicyInvariance, PTL

\* Recovery (policy.ts:365) never meets a database that neither the files nor
\* the pending file account for.
THEOREM PolicyRecoverable == Spec => []RecoveryDecides
<1>1. Inv => RecoveryDecides
  BY DEF Inv, TypeOK, PendingInv, RecoveryDecides, PolicyLoads, Loads, Authentic, AnchorOf,
         Committed, Uncommitted
<1> QED
  BY <1>1, PolicyInvariance, PTL

\* Policy and custody never part, at any interruption of a change.
THEOREM PolicyCustody == Spec => []CustodyFollowsPolicy
<1>1. Inv => CustodyFollowsPolicy
  BY InForceApplied DEF CustodyFollowsPolicy
<1> QED
  BY <1>1, PolicyInvariance, PTL

\* A change that was reported stays.
THEOREM PolicyReport == Spec => []ReportedChangeHolds
<1>1. Inv => ReportedChangeHolds
  BY InForceApplied DEF Inv, CustodyInv, ReportedChangeHolds
<1> QED
  BY <1>1, PolicyInvariance, PTL

\* The database transaction (policy.ts:333) is the commit point.
THEOREM PolicyCommitPoint == Spec => ChangesAtCommit
<1>1. Inv /\ Inv' /\ [Next]_vars =>
        [InForce' # InForce => step = "database" /\ InForce' = next.policy]_vars
  <2>1. Inv => InForce = applied
    BY InForceApplied
  <2>2. Inv' => InForce' = applied'
    BY DEF Inv, PendingInv, CustodyInv, InForce, PolicyOf, Committed, Uncommitted, Authentic
  <2> SUFFICES ASSUME [Next]_vars, applied' # applied
               PROVE step = "database" /\ applied' = next.policy
    BY <2>1, <2>2
  <2> QED
    BY DEF Next, vars, Initialize, Migrate, Mutate, Commit, WriteDocument,
           WriteAnchor, UpdateDatabase, CommitTransaction, UnlinkPending,
           CommitFails, StartRecovery, KeepCommitted, RollBack, Finish,
           RestoreDocument, RestoreAnchor, RestoreDatabase, UnlinkRestored, Crash
<1> QED
  BY <1>1, PolicyInvariance, PTL DEF Spec, ChangesAtCommit
============================================================================
