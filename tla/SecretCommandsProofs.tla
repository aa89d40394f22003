------------------------ MODULE SecretCommandsProofs ------------------------
(***************************************************************************)
(* What SecretCommands promises, proved for all policies, scopes, commands *)
(* and records.  The invariant adds to what is promised what a waiting     *)
(* command knows of the policy: that it is still so rests on the lock.     *)
(***************************************************************************)
EXTENDS SecretCommands, PolicyCommitProofs, WellFoundedInduction

\* Listed records are of the class their policy gives them.
ClassInv == \A s \in Stored : s.name \in Visible => records[s].class = Class(applied, s)

\* What a set will store is of that class, and a run was approved and has the
\* vault unlocked for what it shows.
JobInv ==
    /\ DOMAIN job = Commands
    /\ \A c \in Commands :
          /\ job[c] = Idle \/ job[c].kind \in {"set", "bulk", "run"}
          /\ job[c].kind = "set" =>
                job[c].slot \in Slots /\ job[c].class = Class(applied, job[c].slot)
          /\ job[c].kind = "run" =>
                /\ job[c].injected \subseteq job[c].shown
                /\ \A s \in job[c].shown :
                      IsLocked(applied, s) => job[c].approved /\ job[c].unlocked

RecordsInv == DOMAIN records = Slots /\ ClassInv /\ RecordsOpen /\ JobInv

----------------------------------------------------------------------------
LEMMA SealedFields ==
    ASSUME NEW s, NEW class
    PROVE  /\ Sealed(s, class).class = class /\ Sealed(s, class).seal = <<s, class>>
BY DEF Sealed

LEMMA CommandsInitInv == CommandsInit => RecordsInv
<1> SUFFICES ASSUME CommandsInit PROVE RecordsInv
  OBVIOUS
<1>1. PICK stored \in SUBSET Slots :
         records = [s \in Slots |-> IF s \in stored
                                    THEN Sealed(s, Class(applied, s)) ELSE None]
  BY DEF CommandsInit
<1>2. \A s \in Stored : records[s] = Sealed(s, Class(applied, s))
  BY <1>1 DEF Stored
<1>3. ClassInv /\ RecordsOpen
  BY <1>2, SealedFields DEF ClassInv, RecordsOpen
<1>4. JobInv
  BY DEF CommandsInit, JobInv, Idle
<1> QED
  BY <1>1, <1>3, <1>4 DEF RecordsInv

----------------------------------------------------------------------------
(* The policy                                                              *)

\* A step that changes the policy of the records transitions them, and no
\* shared command is under way.
LEMMA PolicyMoves ==
    ASSUME Inv, CommandsNext, applied' # applied
    PROVE  /\ Exclusive /\ job' = job
           /\ records' = Transitioned(applied')
<1>1. PolicyStep
  BY DEF CommandsNext, ChangePolicy, Mutate, Commit, database, Begin, Ends, StoreSecret,
         DeleteBulkIfUnchanged, ResolveAndSpawn, Inject, EndJob, DeleteSecret, Rename,
         StartSet, StartBulkDelete, StartRun, vars
<1>2. step = "database" /\ bound' = next /\ applied' = next.policy
  BY <1>1 DEF PolicyStep, Initialize, Migrate, Commit, WriteDocument, WriteAnchor,
              UpdateDatabase, CommitTransaction, UnlinkPending, CommitFails, StartRecovery,
              KeepCommitted, RollBack, RestoreDocument, RestoreAnchor, RestoreDatabase,
              UnlinkRestored, Crash, database
<1>3. next.policy # PolicyOf(bound)
  BY <1>2 DEF Inv, CustodyInv
<1> QED
  BY <1>1, <1>2, <1>3 DEF PolicyStep, Custody

\* No other step of the policy touches the records.
LEMMA PolicyStays ==
    ASSUME Inv, PolicyStep \/ (\E policy \in Policies : ChangePolicy(policy)),
           applied' = applied
    PROVE  records' = records /\ job' = job
<1>1. CASE \E policy \in Policies : ChangePolicy(policy)
  BY <1>1 DEF ChangePolicy
<1>2. CASE PolicyStep
  <2>1. CASE step = "database" /\ bound' = next /\ next.policy # PolicyOf(bound)
    <3>1. next # None /\ PolicyOf(next) = next.policy
      BY <2>1 DEF Inv, StepInv, PolicyOf
    <3>2. bound' # bound
      BY <2>1, <3>1
    <3>3. applied' = next.policy
      BY <1>2, <2>1, <3>2
         DEF PolicyStep, Initialize, Migrate, Commit, WriteDocument, WriteAnchor,
             UpdateDatabase, CommitTransaction, UnlinkPending, CommitFails, StartRecovery,
             KeepCommitted, RollBack, RestoreDocument, RestoreAnchor, RestoreDatabase,
             UnlinkRestored, Crash, database
    <3> QED
      BY <2>1, <3>3 DEF Inv, CustodyInv
  <2>2. CASE ~(step = "database" /\ bound' = next /\ next.policy # PolicyOf(bound))
    BY <1>2, <2>2 DEF PolicyStep, Custody
  <2> QED
    BY <2>1, <2>2
<1> QED
  BY <1>1, <1>2

\* The commands take steps of PolicyCommit.
LEMMA CommandsStep == [CommandsNext]_commandVars => [Next]_vars
BY DEF CommandsNext, commandVars, ChangePolicy, PolicyStep, Next, Begin, Ends, StoreSecret,
       DeleteBulkIfUnchanged, ResolveAndSpawn, Inject, EndJob, DeleteSecret, Rename, StartSet,
       StartBulkDelete, StartRun

\* In a calm vault the policy that is read is the one records follow.
LEMMA CalmPolicy == ASSUME Inv, Calm PROVE Policy = applied
BY DEF Inv, Calm, PendingInv, CustodyInv, PolicyOf, Policy

----------------------------------------------------------------------------
(* The records                                                             *)

LEMMA TransitionKeeps ==
    ASSUME RecordsInv, NEW policy, records' = Transitioned(policy), applied' = policy
    PROVE  DOMAIN records' = Slots /\ ClassInv' /\ RecordsOpen'
<1>1. DOMAIN records' = Slots
  BY DEF Transitioned
<1>2. ASSUME NEW s \in Stored'
      PROVE  /\ s.name \in Visible => records'[s].class = Class(policy, s)
             /\ records'[s].seal = <<s, records'[s].class>>
  <2>1. s \in Slots /\ records'[s] # None
    BY <1>2 DEF Stored
  <2>2. CASE s \in Moved(policy)
    <3>1. records'[s] = Sealed(s, Class(policy, s))
      BY <2>1, <2>2 DEF Transitioned
    <3> QED
      BY <3>1, SealedFields
  <2>3. CASE s \notin Moved(policy)
    <3>1. records'[s] = records[s] /\ s \in Stored
      BY <2>1, <2>3 DEF Transitioned, Stored
    <3> QED
      BY <2>3, <3>1 DEF Moved, RecordsInv, RecordsOpen
  <2> QED
    BY <2>2, <2>3
<1>3. RecordsOpen'
  BY <1>2 DEF RecordsOpen
<1>4. ClassInv'
  BY <1>2 DEF ClassInv, Class, IsLocked, State
<1> QED
  BY <1>1, <1>3, <1>4

\* Records that stay where they are, and go or are put as they should be.
LEMMA RecordsKept ==
    ASSUME RecordsInv, applied' = applied, DOMAIN records' = Slots,
           \A s \in Slots :
              \/ records'[s] \in {records[s], None}
              \/ records'[s] = Sealed(s, Class(applied, s))
    PROVE  ClassInv' /\ RecordsOpen'
<1>1. ASSUME NEW s \in Stored'
      PROVE  /\ s.name \in Visible => records'[s].class = Class(applied, s)
             /\ records'[s].seal = <<s, records'[s].class>>
  <2>1. s \in Slots /\ records'[s] # None
    BY <1>1 DEF Stored
  <2>2. CASE records'[s] = records[s]
    BY <2>1, <2>2 DEF RecordsInv, ClassInv, RecordsOpen, Stored
  <2>3. CASE records'[s] = Sealed(s, Class(applied, s))
    BY <2>3, SealedFields
  <2> QED
    BY <2>1, <2>2, <2>3
<1>2. RecordsOpen'
  BY <1>1 DEF RecordsOpen
<1>3. ClassInv'
  BY <1>1 DEF ClassInv, Class, IsLocked, State
<1> QED
  BY <1>2, <1>3

\* A rename keeps the class of a listed record, and its policy at its
\* destination gives it that class.
LEMMA RenameKeeps ==
    ASSUME Inv, RecordsInv, NEW r \in Renames, Rename(r)
    PROVE  DOMAIN records' = Slots /\ ClassInv' /\ RecordsOpen'
<1>1. /\ Policy = applied /\ applied' = applied
      /\ PreservesAuthorization(r) /\ records' = Reencrypted(r)
  BY CalmPolicy DEF Rename, vars, database
<1>2. DOMAIN records' = Slots
  BY <1>1 DEF Reencrypted
<1>3. ASSUME NEW t \in Stored'
      PROVE  /\ t.name \in Visible => records'[t].class = Class(applied, t)
             /\ records'[t].seal = <<t, records'[t].class>>
  <2>1. t \in Slots /\ records'[t] # None
    BY <1>3 DEF Stored
  <2>2. CASE \E s \in Source(r) : Target(r, s) = t
    <3>1. PICK s \in Source(r) :
             Target(r, s) = t /\ records'[t] = Sealed(t, records[s].class)
      BY <1>1, <2>1, <2>2 DEF Reencrypted
    <3>2. s \in Stored /\ s \in Slots
      BY DEF Source, Stored
    <3>3. s.name = t.name
      BY <3>1, <3>2 DEF Target, Slots
    <3>4. ASSUME t.name \in Visible PROVE records[s].class = Class(applied, t)
      <4>1. IsLocked(applied, s) = IsLocked(applied, t)
        BY <1>1, <3>1, <3>3, <3>4 DEF PreservesAuthorization
      <4> QED
        BY <3>2, <3>3, <3>4, <4>1 DEF RecordsInv, ClassInv, Class
    <3> QED
      BY <3>1, <3>4, SealedFields
  <2>3. CASE ~\E s \in Source(r) : Target(r, s) = t
    <3>1. records'[t] = records[t] /\ t \in Stored
      BY <1>1, <2>1, <2>3 DEF Reencrypted, Stored
    <3> QED
      BY <3>1 DEF RecordsInv, ClassInv, RecordsOpen
  <2> QED
    BY <2>2, <2>3
<1>4. RecordsOpen'
  BY <1>3 DEF RecordsOpen
<1>5. ClassInv'
  BY <1>1, <1>3 DEF ClassInv, Class, IsLocked, State
<1> QED
  BY <1>2, <1>4, <1>5

LEMMA NextRecords ==
    ASSUME Inv, RecordsInv, CommandsNext
    PROVE  DOMAIN records' = Slots /\ ClassInv' /\ RecordsOpen'
<1>1. CASE applied' # applied
  BY <1>1, PolicyMoves, TransitionKeeps
<1>2. ASSUME NEW r \in Renames, Rename(r)
      PROVE DOMAIN records' = Slots /\ ClassInv' /\ RecordsOpen'
  BY <1>2, RenameKeeps
<1>3. CASE applied' = applied /\ records' = records
  BY <1>3, RecordsKept DEF RecordsInv
<1>4. ASSUME NEW c \in Commands, StoreSecret(c), applied' = applied
      PROVE DOMAIN records' = Slots /\ ClassInv' /\ RecordsOpen'
  <2>1. /\ records' = [records EXCEPT ![job[c].slot] = Sealed(job[c].slot, job[c].class)]
        /\ job[c].class = Class(applied, job[c].slot)
    BY <1>4 DEF StoreSecret, RecordsInv, JobInv
  <2> QED
    BY <1>4, <2>1, RecordsKept DEF RecordsInv
<1>5. CASE applied' = applied /\ \E slots : records' = Without(slots)
  BY <1>5, RecordsKept DEF Without
<1>6. CASE PolicyStep \/ \E policy \in Policies : ChangePolicy(policy)
  BY <1>1, <1>3, <1>6, PolicyStays
<1>7. CASE \/ \E s \in Slots : DeleteSecret(s)
           \/ \E c \in Commands : DeleteBulkIfUnchanged(c) \/ ResolveAndSpawn(c) \/ EndJob(c)
           \/ \E c \in Commands, scope \in Scopes :
                 \/ \E name \in Visible \cup Hidden : StartSet(c, scope, name)
                 \/ \E selected \in Selections(scope) : StartBulkDelete(c, selected)
                 \/ \E named \in SUBSET Listed(scope) : StartRun(c, scope, named)
  <2>1. applied' = applied /\ (records' = records \/ \E slots : records' = Without(slots))
    BY <1>7 DEF DeleteSecret, DeleteBulkIfUnchanged, ResolveAndSpawn, Inject, EndJob, Ends,
                StartSet, StartBulkDelete, StartRun, Begin, vars, database
  <2> QED
    BY <1>3, <1>5, <2>1
<1> QED
  BY <1>1, <1>2, <1>4, <1>6, <1>7 DEF CommandsNext

----------------------------------------------------------------------------
(* The shared commands                                                     *)

JobOK(j) ==
    /\ j = Idle \/ j.kind \in {"set", "bulk", "run"}
    /\ j.kind = "set" => j.slot \in Slots /\ j.class = Class(applied, j.slot)
    /\ j.kind = "run" =>
          /\ j.injected \subseteq j.shown
          /\ \A s \in j.shown : IsLocked(applied, s) => j.approved /\ j.unlocked

LEMMA JobChanges ==
    ASSUME JobInv, applied' = applied, NEW c \in Commands, NEW j,
           job' = [job EXCEPT ![c] = j], JobOK(j)
    PROVE  JobInv'
<1>1. DOMAIN job' = Commands
  BY DEF JobInv
<1>2. ASSUME NEW x \in Commands PROVE JobOK(job'[x])
  BY DEF JobInv, JobOK
<1> QED
  BY <1>1, <1>2 DEF JobInv, JobOK, Class, IsLocked, State

LEMMA JobsKept ==
    ASSUME JobInv, job' = job, applied' = applied \/ Exclusive
    PROVE  JobInv'
<1>1. Exclusive => \A c \in Commands : job[c].kind = "idle"
  BY DEF Exclusive, Idle
<1> QED
  BY <1>1 DEF JobInv, Class, IsLocked, State

\* A run asks for what the policy locks among what it is to inject.
LEMMA RunAsks ==
    ASSUME Inv, RecordsInv, NEW c \in Commands, NEW scope \in Scopes,
           NEW named \in SUBSET Listed(scope), StartRun(c, scope, named)
    PROVE  JobInv'
<1> DEFINE selected == IF named = {} THEN Listed(scope) ELSE named
           j == [kind |-> "run", shown |-> selected, injected |-> {},
                 approved |-> named = {} \/ \E s \in named : IsLocked(Policy, s),
                 unlocked |-> \E s \in selected : records[s].class = "interactive",
                 running |-> FALSE]
<1>1. Calm /\ job' = [job EXCEPT ![c] = j] /\ applied' = applied
  BY DEF StartRun, Begin, vars, database
<1>2. Policy = applied
  BY <1>1, CalmPolicy
<1>3. ASSUME NEW s \in selected, IsLocked(applied, s) PROVE j.approved /\ j.unlocked
  <2>1. s \in Stored /\ s.name \in Visible
    BY DEF Listed
  <2>2. records[s].class = "interactive"
    BY <1>3, <2>1 DEF RecordsInv, ClassInv, Class
  <2>3. named = {} \/ \E x \in named : IsLocked(Policy, x)
    BY <1>2, <1>3
  <2> QED
    BY <2>2, <2>3
<1>4. JobOK(j)
  BY <1>3 DEF JobOK
<1> QED
  BY <1>1, <1>4, JobChanges DEF RecordsInv

LEMMA NextJobs == ASSUME Inv, RecordsInv, CommandsNext PROVE JobInv'
<1>0. JobInv
  BY DEF RecordsInv
<1>1. CASE applied' # applied
  BY <1>0, <1>1, PolicyMoves, JobsKept
<1>2. CASE applied' = applied /\ job' = job
  BY <1>0, <1>2, JobsKept
<1>3. ASSUME NEW c \in Commands, Ends(c) PROVE JobInv'
  <2>1. JobOK(Idle)
    BY DEF JobOK, Idle
  <2> QED
    BY <1>0, <1>3, <2>1, JobChanges DEF Ends, vars, database
<1>4. ASSUME NEW c \in Commands, ResolveAndSpawn(c) PROVE JobInv'
  <2> DEFINE j == [job[c] EXCEPT !.injected = job[c].shown, !.running = TRUE]
  <2>1. job[c].kind = "run" /\ job' = [job EXCEPT ![c] = j] /\ applied' = applied
    BY <1>4 DEF ResolveAndSpawn, Inject, vars, database
  <2>2. JobOK(j)
    BY <1>0, <2>1 DEF JobInv, JobOK, Idle
  <2> QED
    BY <1>0, <2>1, <2>2, JobChanges
<1>5. ASSUME NEW c \in Commands, NEW scope \in Scopes, NEW name \in Visible \cup Hidden,
             StartSet(c, scope, name)
      PROVE  JobInv'
  <2> DEFINE s == [project |-> scope.project, environment |-> scope.environment, name |-> name]
             j == [kind |-> "set", slot |-> s, class |-> Class(Policy, s)]
  <2>1. Calm /\ job' = [job EXCEPT ![c] = j] /\ applied' = applied
    BY <1>5 DEF StartSet, Begin, vars, database
  <2>2. s \in Slots
    BY CommandsAssumption DEF Slots
  <2>3. JobOK(j)
    BY <2>1, <2>2, CalmPolicy DEF JobOK
  <2> QED
    BY <1>0, <2>1, <2>3, JobChanges
<1>6. ASSUME NEW c \in Commands, NEW selected, StartBulkDelete(c, selected) PROVE JobInv'
  <2> DEFINE j == [kind |-> "bulk", selected |-> selected, seen |-> Stored \cap selected]
  <2>1. job' = [job EXCEPT ![c] = j] /\ applied' = applied
    BY <1>6 DEF StartBulkDelete, Begin, vars, database
  <2>2. JobOK(j)
    BY DEF JobOK
  <2> QED
    BY <1>0, <2>1, <2>2, JobChanges
<1>7. CASE PolicyStep \/ (\E policy \in Policies : ChangePolicy(policy))
  BY <1>1, <1>2, <1>7, PolicyStays
<1>8. CASE (\E s \in Slots : DeleteSecret(s)) \/ (\E r \in Renames : Rename(r))
  BY <1>2, <1>8 DEF DeleteSecret, Rename, vars, database
<1> QED
  BY <1>3, <1>4, <1>5, <1>6, <1>7, <1>8, RunAsks
     DEF CommandsNext, StoreSecret, DeleteBulkIfUnchanged, EndJob

----------------------------------------------------------------------------
(* What was promised                                                       *)

LEMMA CommandsInvariance == CommandsSpec => [](Inv /\ RecordsInv)
<1>1. CommandsInit => Inv /\ RecordsInv
  BY InvInit, CommandsInitInv DEF CommandsInit
<1>2. Inv /\ RecordsInv /\ [CommandsNext]_commandVars => Inv' /\ RecordsInv'
  <2> SUFFICES ASSUME Inv, RecordsInv, [CommandsNext]_commandVars PROVE Inv' /\ RecordsInv'
    OBVIOUS
  <2>1. Inv'
    BY CommandsStep, InvNext
  <2>2. CASE CommandsNext
    BY <2>1, <2>2, NextRecords, NextJobs DEF RecordsInv
  <2>3. CASE UNCHANGED commandVars
    BY <2>1, <2>3
       DEF commandVars, vars, database, RecordsInv, ClassInv, RecordsOpen, Stored, JobInv,
           Class, IsLocked, State
  <2> QED
    BY <2>2, <2>3
<1> QED
  BY <1>1, <1>2, PTL DEF CommandsSpec

(* Whatever commands wait for while policies change and records move,      *)
(* every listed record is of the class the policy in force gives it.       *)
THEOREM ListedRecordsFollow == CommandsSpec => []RecordsFollowPolicy
<1>1. Inv /\ RecordsInv => RecordsFollowPolicy
  BY InForceApplied DEF RecordsInv, ClassInv, RecordsFollowPolicy, FollowsPolicy
<1> QED
  BY <1>1, CommandsInvariance, PTL

(* No transition and no rename leaves a record that is bound to another    *)
(* place or class than it has.                                             *)
THEOREM AllRecordsOpen == CommandsSpec => []RecordsOpen
<1>1. RecordsInv => RecordsOpen
  BY DEF RecordsInv
<1> QED
  BY <1>1, CommandsInvariance, PTL

(* A child has no other values than its operator was shown, approved and   *)
(* unlocked, by the policy in force as long as it runs.                    *)
THEOREM RunsStayAuthorized == CommandsSpec => []RunsAreAuthorized
<1>1. Inv /\ RecordsInv => RunsAreAuthorized
  BY InForceApplied DEF RecordsInv, JobInv, RunsAreAuthorized
<1> QED
  BY <1>1, CommandsInvariance, PTL

(* Composing the commands with the changes of policy breaks nothing that   *)
(* those promise by themselves.                                            *)
THEOREM CommandsChangeProperly == CommandsSpec => Spec
<1>1. CommandsInit => Init
  BY DEF CommandsInit
<1> QED
  BY <1>1, CommandsStep, PTL DEF CommandsSpec, Spec

(* A bulk delete removes what was confirmed, all of it and nothing else.   *)
THEOREM BulkDeletesConfirmed == CommandsSpec => BulkDeletesWhatWasConfirmed
<1> DEFINE Deletes ==
             \A c \in Commands :
                job[c].kind = "bulk" /\ job'[c] = Idle /\ records' # records
                => Stored \ Stored' = job[c].seen
<1>1. Inv /\ RecordsInv /\ [CommandsNext]_commandVars => [Deletes]_commandVars
  <2> SUFFICES ASSUME Inv, RecordsInv, CommandsNext, NEW c \in Commands,
                      job[c].kind = "bulk", job'[c] = Idle, records' # records
               PROVE  Stored \ Stored' = job[c].seen
    BY DEF commandVars
  <2>1. job[c] # Idle /\ job' # job
    BY DEF Idle
  <2>2. PICK x \in Commands : StoreSecret(x) \/ DeleteBulkIfUnchanged(x)
    <3>1. ~(PolicyStep \/ \E policy \in Policies : ChangePolicy(policy))
      BY <2>1, PolicyMoves, PolicyStays
    <3>2. \A s \in Slots : ~DeleteSecret(s)
      BY <2>1 DEF DeleteSecret
    <3>3. \A r \in Renames : ~Rename(r)
      BY <2>1 DEF Rename
    <3>4. \A x \in Commands : ~ResolveAndSpawn(x) /\ ~EndJob(x)
      BY DEF ResolveAndSpawn, Inject, EndJob
    <3> QED
      BY <3>1, <3>2, <3>3, <3>4 DEF CommandsNext, StartSet, StartBulkDelete, StartRun
  <2>3. x = c
    BY <2>1, <2>2 DEF StoreSecret, DeleteBulkIfUnchanged, Ends, RecordsInv, JobInv
  <2>4. Stored \cap job[c].selected = job[c].seen /\ records' = Without(job[c].selected)
    BY <2>2, <2>3 DEF StoreSecret, DeleteBulkIfUnchanged
  <2>5. Stored' = Stored \ job[c].selected
    BY <2>4 DEF Stored, Without
  <2> QED
    BY <2>4, <2>5
<1> QED
  BY <1>1, CommandsInvariance, PTL DEF CommandsSpec, BulkDeletesWhatWasConfirmed
----------------------------------------------------------------------------
(* The rules                                                               *)

\* Induction, in the form of a least counterexample.
LEMMA LeastNumber ==
    ASSUME NEW T \in SUBSET Nat, T # {}
    PROVE  \E n \in T : \A m \in T : n <= m
<1> DEFINE R == {ss \in Nat \X Nat : ss[1] < ss[2]}
<1>1. IsWellFoundedOn(R, Nat)
  BY NatLessThanWellFounded DEF OpToRel
<1>2. \E n \in T : \A m \in T : ~(<<m, n>> \in R)
  <2> HIDE DEF R
  <2> QED
    BY <1>1, WFMin
<1>3. PICK n \in T : \A m \in T : ~(<<m, n>> \in R)
  BY <1>2
<1>4. n \in Nat /\ \A m \in T : m \in Nat /\ ~(m < n)
  BY <1>3
<1>5. \A m \in T : n <= m
  BY <1>4
<1> QED
  BY <1>5

\* The loop over the rules has a state after every round.
LEMMA RoundsAre ==
    ASSUME NEW policy, Len(policy.rules) \in Nat, NEW slot
    PROVE  /\ Rounds(policy, slot)[0] = [best |-> 0, locked |-> policy.default = "interactive"]
           /\ \A n \in 1..Len(policy.rules) :
                 Rounds(policy, slot)[n]
                     = Consider(slot, Rounds(policy, slot)[n - 1], policy.rules[n])
<1> DEFINE base == [best |-> 0, locked |-> policy.default = "interactive"]
           Round(f, n) == IF n = 0 THEN base ELSE Consider(slot, f[n - 1], policy.rules[n])
           Computes(f, n) == f = [i \in 0..n |-> Round(f, i)]
<1>1. ASSUME NEW n \in Nat PROVE \E f : Computes(f, n)
  <2> DEFINE Bad == {m \in Nat : ~\E f : Computes(f, m)}
  <2> SUFFICES Bad = {}
    OBVIOUS
  <2> SUFFICES ASSUME Bad # {} PROVE FALSE
    OBVIOUS
  <2>1. PICK m \in Bad : \A k \in Bad : m <= k
    BY LeastNumber
  <2>2. CASE m = 0
    <3>1. Computes([i \in 0..0 |-> base], 0)
      OBVIOUS
    <3> QED
      BY <2>1, <2>2, <3>1
  <2>3. CASE m # 0
    <3>0. m \in Nat /\ m - 1 \in Nat /\ ~(m <= m - 1)
      BY <2>1, <2>3
    <3>1. m - 1 \notin Bad
      BY <2>1, <3>0
    <3>2. PICK f : Computes(f, m - 1)
      BY <3>0, <3>1
    <3> DEFINE g == [i \in 0..m |-> IF i = m THEN Consider(slot, f[m - 1], policy.rules[m]) ELSE f[i]]
    <3>3. ASSUME NEW i \in 0..m PROVE g[i] = Round(g, i)
      <4>1. CASE i = m
        BY <2>3, <4>1
      <4>2. CASE i # m
        <5>1. i \in 0..(m - 1) /\ g[i] = f[i]
          BY <4>2
        <5>2. f[i] = Round(f, i)
          BY <3>2, <5>1
        <5>3. i # 0 => g[i - 1] = f[i - 1]
          BY <5>1
        <5> QED
          BY <5>1, <5>2, <5>3
      <4> QED
        BY <4>1, <4>2
    <3>4. Computes(g, m)
      BY <3>3
    <3> QED
      BY <2>1, <3>4
  <2> QED
    BY <2>2, <2>3
<1>2. Computes(Rounds(policy, slot), Len(policy.rules))
  <2>1. \E f : Computes(f, Len(policy.rules))
    BY <1>1
  <2> QED
    BY <2>1 DEF Rounds
<1>3. \A n \in 0..Len(policy.rules) : Rounds(policy, slot)[n] = Round(Rounds(policy, slot), n)
  BY <1>2
<1>4. Rounds(policy, slot)[0] = base
  BY <1>3
<1>5. ASSUME NEW n \in 1..Len(policy.rules)
      PROVE  Rounds(policy, slot)[n]
                 = Consider(slot, Rounds(policy, slot)[n - 1], policy.rules[n])
  <2>1. n \in 0..Len(policy.rules) /\ n # 0
    OBVIOUS
  <2> QED
    BY <1>3, <2>1
<1> QED
  BY <1>4, <1>5

\* After n rounds, the rules that matched among the first n.
Matching(policy, slot, n) == {i \in 1..n : Matches(policy.rules[i], slot)}

\* The state holds their highest specificity and whether one that has it locks.
LoopInv(policy, slot, n) ==
    LET state == Rounds(policy, slot)[n]
        rank(i) == Specificity(policy.rules[i])
    IN  /\ state.best \in 0..3 /\ state.locked \in BOOLEAN
        /\ Matching(policy, slot, n) = {} =>
              state.best = 0 /\ state.locked = (policy.default = "interactive")
        /\ Matching(policy, slot, n) # {} =>
              \E i \in Matching(policy, slot, n) : rank(i) = state.best
        /\ \A i \in Matching(policy, slot, n) :
              /\ rank(i) <= state.best
              /\ rank(i) = state.best /\ policy.rules[i].locked => state.locked
        /\ Matching(policy, slot, n) # {} /\ state.locked =>
              \E i \in Matching(policy, slot, n) :
                  rank(i) = state.best /\ policy.rules[i].locked

LEMMA Ranks == \A rule : Specificity(rule) \in 1..3
  BY DEF Specificity

LEMMA LoopStep ==
    ASSUME NEW policy, Len(policy.rules) \in Nat, NEW slot,
           \A i \in 1..Len(policy.rules) : policy.rules[i].locked \in BOOLEAN,
           NEW n \in 1..Len(policy.rules), LoopInv(policy, slot, n - 1)
    PROVE  LoopInv(policy, slot, n)
<1> DEFINE old == Rounds(policy, slot)[n - 1]
           new == Rounds(policy, slot)[n]
           rule == policy.rules[n]
           before == Matching(policy, slot, n - 1)
<1>1. new = Consider(slot, old, rule)
  BY RoundsAre
<1>2. /\ n \in Nat /\ n - 1 \in Nat /\ 1..n = (1..(n - 1)) \cup {n} /\ n \notin 1..(n - 1)
      /\ rule.locked \in BOOLEAN /\ Specificity(rule) \in 1..3
      /\ n \notin before
      /\ \A i \in before : Specificity(policy.rules[i]) \in 1..3
                           /\ policy.rules[i].locked \in BOOLEAN
  BY Ranks DEF Matching
<1>3. CASE ~Matches(rule, slot)
  <2>1. new = old /\ Matching(policy, slot, n) = before
    BY <1>1, <1>2, <1>3 DEF Consider, Matching
  <2> QED
    BY <2>1 DEF LoopInv
<1>4. CASE Matches(rule, slot)
  <2>1. Matching(policy, slot, n) = before \cup {n}
    BY <1>2, <1>4 DEF Matching
  <2>2. old.best \in 0..3 /\ old.locked \in BOOLEAN /\ (before = {} => old.best = 0)
    BY DEF LoopInv
  <2>3. \A i \in before : Specificity(policy.rules[i]) <= old.best
    BY DEF LoopInv
  <2>4. CASE Specificity(rule) < old.best
    <3>1. new = old /\ before # {}
      BY <1>1, <1>2, <2>2, <2>4 DEF Consider
    <3>2. Specificity(rule) < old.best /\ Specificity(rule) # old.best
      BY <1>2, <2>2, <2>4
    <3>3. \E i \in before : Specificity(policy.rules[i]) = old.best
      BY <3>1 DEF LoopInv
    <3>4. \A i \in before :
             /\ Specificity(policy.rules[i]) <= old.best
             /\ Specificity(policy.rules[i]) = old.best /\ policy.rules[i].locked => old.locked
      BY DEF LoopInv
    <3>5. old.locked => \E i \in before :
             Specificity(policy.rules[i]) = old.best /\ policy.rules[i].locked
      BY <3>1 DEF LoopInv
    <3>6. Specificity(rule) <= old.best
      BY <1>2, <2>2, <3>2
    <3> HIDE DEF before, new, old, rule
    <3>7. \A i \in before \cup {n} :
             /\ Specificity(policy.rules[i]) <= new.best
             /\ Specificity(policy.rules[i]) = new.best /\ policy.rules[i].locked => new.locked
      BY <3>1, <3>2, <3>4, <3>6 DEF rule
    <3> QED
      BY <2>1, <2>2, <3>1, <3>3, <3>5, <3>7 DEF LoopInv, new
  <2>5. CASE ~(Specificity(rule) < old.best)
    <3>1. new = [best |-> Specificity(rule),
                 locked |-> rule.locked \/ (Specificity(rule) = old.best /\ old.locked)]
      BY <1>1, <1>4, <2>5 DEF Consider
    <3>2. /\ new.best = Specificity(rule)
          /\ new.locked = (rule.locked \/ (Specificity(rule) = old.best /\ old.locked))
      BY <3>1
    <3>3. \A i \in before : Specificity(policy.rules[i]) <= new.best
      BY <1>2, <2>2, <2>3, <2>5, <3>2
    <3>4. \A i \in before : Specificity(policy.rules[i]) = new.best => new.best = old.best
      BY <1>2, <2>2, <2>3, <2>5, <3>2
    <3>5. \A i \in before : Specificity(policy.rules[i]) = old.best /\ policy.rules[i].locked
                            => old.locked
      BY DEF LoopInv
    <3>6. old.locked /\ before # {} =>
             \E i \in before : Specificity(policy.rules[i]) = old.best /\ policy.rules[i].locked
      BY DEF LoopInv
    <3>7. Specificity(rule) = old.best => before # {}
      BY <1>2, <2>2
    <3> HIDE DEF before, new, old, rule
    <3>8. \A i \in before \cup {n} :
             /\ Specificity(policy.rules[i]) <= new.best
             /\ Specificity(policy.rules[i]) = new.best /\ policy.rules[i].locked => new.locked
      BY <1>2, <3>2, <3>3, <3>4, <3>5 DEF rule
    <3>9. new.locked => \E i \in before \cup {n} :
                  Specificity(policy.rules[i]) = new.best /\ policy.rules[i].locked
      BY <1>2, <3>2, <3>6, <3>7 DEF rule
    <3>10. \E i \in before \cup {n} : Specificity(policy.rules[i]) = new.best
      BY <3>2 DEF rule
    <3>11. new.best \in 0..3 /\ new.locked \in BOOLEAN
      BY <1>2, <3>2
    <3> QED
      BY <2>1, <3>8, <3>9, <3>10, <3>11 DEF LoopInv, new
  <2> QED
    BY <2>4, <2>5
<1> QED
  BY <1>3, <1>4

\* evaluateAuthorizationRules decides as the rules mean, whatever their order.
LEMMA EvaluationMeans ==
    ASSUME NEW policy, Len(policy.rules) \in Nat, NEW slot,
           DOMAIN policy.rules = 1..Len(policy.rules),
           \A i \in 1..Len(policy.rules) : policy.rules[i].locked \in BOOLEAN
    PROVE  Locked(policy, slot) = MeansLocked(policy, slot)
<1> DEFINE length == Len(policy.rules)
           Bad == {n \in 0..length : ~LoopInv(policy, slot, n)}
<1>1. Bad = {}
  <2> SUFFICES ASSUME Bad # {} PROVE FALSE
    OBVIOUS
  <2>1. Bad \in SUBSET Nat
    OBVIOUS
  <2>2. PICK n \in Bad : \A m \in Bad : n <= m
    BY <2>1, LeastNumber
  <2>3. n \in 0..length /\ ~LoopInv(policy, slot, n)
    BY <2>2
  <2>4. CASE n = 0
    <3>1. Matching(policy, slot, 0) = {}
      BY DEF Matching
    <3>2. Rounds(policy, slot)[0] = [best |-> 0, locked |-> policy.default = "interactive"]
      BY RoundsAre
    <3> QED
      BY <2>3, <2>4, <3>1, <3>2 DEF LoopInv
  <2>5. CASE n # 0
    <3>1. n \in 1..length /\ n - 1 \in 0..length /\ ~(n <= n - 1)
      BY <2>3, <2>5
    <3>2. LoopInv(policy, slot, n - 1)
      BY <2>2, <3>1
    <3>3. LoopInv(policy, slot, n)
      BY <3>1, <3>2, LoopStep
    <3> QED
      BY <2>3, <3>3
  <2> QED
    BY <2>4, <2>5
<1>2. LoopInv(policy, slot, length)
  <2>1. length \in 0..length
    OBVIOUS
  <2> QED
    BY <1>1, <2>1
<1> DEFINE state == Rounds(policy, slot)[length]
           matching == Matching(policy, slot, length)
           rank(i) == Specificity(policy.rules[i])
           deciding == {i \in matching : \A j \in matching : rank(j) <= rank(i)}
<1>3. /\ Locked(policy, slot) = state.locked /\ state.locked \in BOOLEAN
      /\ \A i \in matching : rank(i) \in 1..3 /\ state.best \in 0..3
  BY <1>2, Ranks DEF Locked, LoopInv
<1>4. MeansLocked(policy, slot) = IF matching = {} THEN policy.default = "interactive"
                                  ELSE \E i \in deciding : policy.rules[i].locked
  BY DEF MeansLocked, Matching
<1>5. CASE matching = {}
  BY <1>2, <1>3, <1>4, <1>5 DEF LoopInv
<1>6. CASE matching # {}
  <2>1. PICK k \in matching : rank(k) = state.best
    BY <1>2, <1>6 DEF LoopInv
  <2>2. \A i \in matching :
           rank(i) <= state.best /\ (rank(i) = state.best /\ policy.rules[i].locked => state.locked)
    BY <1>2 DEF LoopInv
  <2>3. state.locked => \E i \in matching : rank(i) = state.best /\ policy.rules[i].locked
    BY <1>2, <1>6 DEF LoopInv
  <2> HIDE DEF state, matching, rank
  <2>4. \A i \in matching : i \in deciding <=> rank(i) = state.best
    BY <1>3, <2>1, <2>2
  <2>5. state.locked <=> \E i \in deciding : policy.rules[i].locked
    BY <2>2, <2>3, <2>4
  <2> QED
    BY <1>3, <1>4, <1>6, <2>5
<1> QED
  BY <1>5, <1>6

LEMMA RulesOf ==
    ASSUME NEW policy \in Policies
    PROVE  /\ Len(policy.rules) \in Nat
           /\ DOMAIN policy.rules = 1..Len(policy.rules)
           /\ \A i \in 1..Len(policy.rules) : policy.rules[i].locked \in BOOLEAN
<1>1. policy.rules \in Seq(PolicyRule)
  BY CommandsAssumption
<1>2. \A i \in 1..Len(policy.rules) : policy.rules[i] \in PolicyRule
  BY <1>1
<1> QED
  BY <1>1, <1>2 DEF PolicyRule

LEMMA StateMeans ==
    ASSUME NEW policy \in Policies, NEW s \in Slots
    PROVE  /\ IsLocked(policy, s) = MeansLocked(policy, s)
           /\ Meaning[policy][s] = MeansLocked(policy, s)
<1>1. Locked(policy, s) = MeansLocked(policy, s)
  BY RulesOf, EvaluationMeans
<1> QED
  BY <1>1 DEF IsLocked, State, Meaning

(* The loop of evaluateAuthorizationRules (policy.ts:428), which looks at  *)
(* the rules one by one, decides by the most specific of those that match: *)
(* for every number of rules and in whatever order they are.               *)
THEOREM RulesMeanWhatTheySay == CommandsSpec => []EvaluationMeansRules
<1>1. Inv => EvaluationMeansRules
  <2> SUFFICES ASSUME Inv, NEW s \in Slots
               PROVE  IsLocked(InForce, s) = Meaning[InForce][s]
    BY DEF EvaluationMeansRules
  <2>1. InForce = applied /\ applied \in Policies
    BY InForceApplied DEF Inv, TypeOK
  <2> QED
    BY <2>1, StateMeans
<1> QED
  BY <1>1, CommandsInvariance, PTL

----------------------------------------------------------------------------
(* The keys of a change                                                    *)

\* A command that changes the policy is alone until it ends.  Between the
\* preview and the commit it has the interactive key, or it only puts another
\* default than the interactive one under the same rules and loosens nothing.
KeysInv ==
    /\ step # "idle" => Exclusive
    /\ step \in {"document", "anchor", "database"} /\ next.policy # PolicyOf(bound) =>
          \/ unlocked
          \/ /\ next.policy.rules = PolicyOf(bound).rules
             /\ next.policy.default # "interactive"
             /\ LoosenedBy(next.policy) = {}

\* What such a change locks was locked before.
LEMMA OtherDefaultLocksNothing ==
    ASSUME NEW old \in Policies, NEW new \in Policies, new.rules = old.rules,
           new.default # "interactive", NEW s \in Slots, IsLocked(new, s)
    PROVE  IsLocked(old, s)
BY StateMeans DEF MeansLocked

LEMMA KeysStep == ASSUME Inv, RecordsInv, KeysInv, CommandsNext PROVE KeysInv'
<1>1. ASSUME NEW policy \in Policies, ChangePolicy(policy) PROVE KeysInv'
  <2>1. /\ Exclusive /\ job' = job /\ records' = records /\ bound' = bound /\ seed' = seed
        /\ next'.policy = policy /\ unlocked' = Unlocks(policy)
        /\ bound = document /\ document # None
        /\ applied' = applied
    BY <1>1 DEF ChangePolicy, Mutate, Commit, Loads, database
  <2>2. PolicyOf(bound)' = Policy
    BY <2>1 DEF PolicyOf, Policy
  <2>3. Exclusive'
    BY <2>1 DEF Exclusive
  <2>4. unlocked' \/ (/\ policy.rules = Policy.rules /\ policy.default # "interactive"
                      /\ LoosenedBy(policy) = {})
    BY <2>1 DEF Unlocks
  <2>5. LoosenedBy(next.policy)' = LoosenedBy(policy)
    BY <2>1 DEF LoosenedBy, Moved, Stored, Class, IsLocked, State
  <2> QED
    BY <2>1, <2>2, <2>3, <2>4, <2>5 DEF KeysInv
<1>2. CASE PolicyStep
  <2>1. Exclusive' /\ Exclusive
    BY <1>2 DEF PolicyStep, Exclusive
  <2>2. CASE step' \in {"document", "anchor", "database"} /\ next'.policy # PolicyOf(bound)'
    <3>1. /\ step \in {"document", "anchor"} /\ next' = next /\ bound' = bound /\ seed' = seed
          /\ unlocked' = unlocked /\ records' = records
      BY <1>2, <2>2
         DEF PolicyStep, Custody, Initialize, Migrate, Commit, Loads, PolicyOf, database,
             WriteDocument, WriteAnchor, UpdateDatabase, UnlinkPending, CommitFails,
             StartRecovery, KeepCommitted, RollBack, Finish, RestoreDocument, RestoreAnchor,
             RestoreDatabase, UnlinkRestored, Crash
    <3>2. PolicyOf(bound)' = PolicyOf(bound)
      BY <3>1 DEF PolicyOf
    <3>3. LoosenedBy(next.policy)' = LoosenedBy(next.policy)
      BY <3>1 DEF LoosenedBy, Moved, Stored, Class, IsLocked, State
    <3> QED
      BY <2>1, <2>2, <3>1, <3>2, <3>3 DEF KeysInv
  <2>3. CASE ~(step' \in {"document", "anchor", "database"} /\ next'.policy # PolicyOf(bound)')
    BY <2>1, <2>3 DEF KeysInv
  <2> QED
    BY <2>2, <2>3
\* Shared commands begin, and records change, when no command is under way.
<1>3. CASE step = "idle" /\ UNCHANGED vars
  BY <1>3 DEF KeysInv, vars, process
<1>4. ASSUME NEW c \in Commands, Ends(c) PROVE KeysInv'
  <2>1. step = "idle" /\ UNCHANGED vars
    BY <1>4 DEF Ends, KeysInv, Exclusive
  <2> QED
    BY <1>3, <2>1
<1>5. ASSUME NEW c \in Commands, ResolveAndSpawn(c) PROVE KeysInv'
  <2>1. step = "idle" /\ UNCHANGED vars
    BY <1>5 DEF ResolveAndSpawn, Inject, KeysInv, Exclusive, Idle
  <2> QED
    BY <1>3, <2>1
<1> QED
  BY <1>1, <1>2, <1>3, <1>4, <1>5
     DEF CommandsNext, StoreSecret, DeleteBulkIfUnchanged, EndJob, StartSet, StartBulkDelete,
         StartRun, Begin, Calm, DeleteSecret, Rename

LEMMA KeysInvariance == CommandsSpec => []KeysInv
<1>1. CommandsInit => KeysInv
  BY DEF CommandsInit, Init, KeysInv
<1>2. Inv /\ RecordsInv /\ KeysInv /\ [CommandsNext]_commandVars => KeysInv'
  <2>1. KeysInv /\ UNCHANGED commandVars => KeysInv'
    BY DEF commandVars, vars, database, files, process, KeysInv, Exclusive, PolicyOf,
           LoosenedBy, Moved, Stored, Class, IsLocked, State
  <2> QED
    BY <2>1, KeysStep
<1> QED
  BY <1>1, <1>2, CommandsInvariance, PTL DEF CommandsSpec

(* That the interactive key is asked for is decided on a preview of the    *)
(* change (policy.ts, previewAuthorizationDefault): the commit never needs *)
(* it without having it.  Between them no record changes, for the command  *)
(* is alone; and what is decided without it only depends on the rules.     *)
THEOREM ChangesHaveTheirKeys == CommandsSpec => []ChangeHasKeys
<1>1. Inv /\ KeysInv => ChangeHasKeys
  <2> SUFFICES ASSUME Inv, KeysInv, step = "database", next.policy # PolicyOf(bound),
                      FollowsPolicy(Visible \cup Hidden), ~unlocked
               PROVE  Moved(next.policy) = {}
    BY DEF ChangeHasKeys, HasKeys
  <2>1. /\ next.policy.rules = applied.rules /\ next.policy.default # "interactive"
        /\ LoosenedBy(next.policy) = {}
    BY DEF KeysInv, Inv, CustodyInv
  <2>2. next.policy \in Policies /\ applied \in Policies /\ InForce = applied
    <3>1. next # None
      BY DEF Inv, StepInv
    <3> QED
      BY <3>1, InForceApplied DEF Inv, TypeOK, Document
  <2>3. ASSUME NEW s \in Moved(next.policy) PROVE FALSE
    <3>1. s \in Slots /\ s \in Stored /\ s.name \in Visible \cup Hidden
      BY DEF Moved, Stored, Slots
    <3>2. records[s].class = Class(applied, s)
      BY <2>2, <3>1 DEF FollowsPolicy
    <3>3. records[s].class # "interactive" /\ records[s].class # Class(next.policy, s)
      BY <2>1 DEF LoosenedBy, Moved
    <3>4. IsLocked(next.policy, s) /\ ~IsLocked(applied, s)
      BY <3>2, <3>3 DEF Class
    <3> QED
      BY <2>1, <2>2, <3>1, <3>4, OtherDefaultLocksNothing
  <2> QED
    BY <2>3
<1> QED
  BY <1>1, CommandsInvariance, KeysInvariance, PTL

----------------------------------------------------------------------------
(* Types                                                                   *)

RecordTypes == records \in [Slots -> Record \cup {None}]
JobTypes == DOMAIN job = Commands /\ \A c \in Commands : job[c] \in Job

LEMMA SealedType ==
    ASSUME NEW s \in Slots, NEW class \in Classes PROVE Sealed(s, class) \in Record
BY DEF Sealed, Record

LEMMA ClassType == \A policy, s : Class(policy, s) \in Classes
BY DEF Class, Classes

LEMMA StoredType ==
    ASSUME RecordTypes, NEW s \in Stored
    PROVE  s \in Slots /\ records[s] \in Record /\ records[s].class \in Classes
BY DEF RecordTypes, Stored, Record

LEMMA CommandsInitTypes == CommandsInit => RecordTypes /\ JobTypes
<1> SUFFICES ASSUME CommandsInit PROVE RecordTypes /\ JobTypes
  OBVIOUS
<1>1. PICK stored \in SUBSET Slots :
         records = [s \in Slots |-> IF s \in stored
                                    THEN Sealed(s, Class(applied, s)) ELSE None]
  BY DEF CommandsInit
<1>2. RecordTypes
  BY <1>1, SealedType, ClassType DEF RecordTypes
<1>3. JobTypes
  BY DEF CommandsInit, JobTypes, Job
<1> QED
  BY <1>2, <1>3

LEMMA NextRecordTypes == ASSUME RecordTypes, JobTypes, CommandsNext PROVE RecordTypes'
<1>1. CASE records' = records
  BY <1>1 DEF RecordTypes
<1>2. ASSUME NEW policy, records' = Transitioned(policy) PROVE RecordTypes'
  BY <1>2, SealedType, ClassType DEF RecordTypes, Transitioned
<1>3. CASE PolicyStep
  BY <1>1, <1>2, <1>3 DEF PolicyStep, Custody
<1>4. ASSUME NEW slots, records' = Without(slots) PROVE RecordTypes'
  BY <1>4 DEF RecordTypes, Without
<1>5. ASSUME NEW c \in Commands, StoreSecret(c) PROVE RecordTypes'
  <2>1. job[c].slot \in Slots /\ job[c].class \in Classes
    BY <1>5 DEF StoreSecret, JobTypes, Job, Idle
  <2>2. Sealed(job[c].slot, job[c].class) \in Record
    BY <2>1, SealedType
  <2> QED
    BY <1>5, <2>2 DEF StoreSecret, RecordTypes
<1>6. ASSUME NEW r \in Renames, Rename(r) PROVE RecordTypes'
  <2>1. ASSUME NEW t \in Slots PROVE Reencrypted(r)[t] \in Record \cup {None}
    <3>1. CASE \E s \in Source(r) : Target(r, s) = t
      <4>1. PICK s \in Source(r) : Reencrypted(r)[t] = Sealed(t, records[s].class)
        BY <3>1 DEF Reencrypted
      <4>2. s \in Stored
        BY DEF Source
      <4> QED
        BY <4>1, <4>2, StoredType, SealedType
    <3>2. CASE ~\E s \in Source(r) : Target(r, s) = t
      BY <3>2 DEF Reencrypted, RecordTypes
    <3> QED
      BY <3>1, <3>2
  <2>2. records' = Reencrypted(r)
    BY <1>6 DEF Rename
  <2>3. Reencrypted(r) = [t \in Slots |-> Reencrypted(r)[t]]
    BY DEF Reencrypted
  <2> QED
    BY <2>1, <2>2, <2>3 DEF RecordTypes
<1>7. CASE \/ \E policy \in Policies : ChangePolicy(policy)
           \/ \E s \in Slots : DeleteSecret(s)
           \/ \E c \in Commands : DeleteBulkIfUnchanged(c) \/ ResolveAndSpawn(c) \/ EndJob(c)
           \/ \E c \in Commands, scope \in Scopes :
                 \/ \E name \in Visible \cup Hidden : StartSet(c, scope, name)
                 \/ \E selected \in Selections(scope) : StartBulkDelete(c, selected)
                 \/ \E named \in SUBSET Listed(scope) : StartRun(c, scope, named)
  <2>1. records' = records \/ \E slots : records' = Without(slots)
    BY <1>7 DEF ChangePolicy, DeleteSecret, DeleteBulkIfUnchanged, ResolveAndSpawn, Inject,
                EndJob, StartSet, StartBulkDelete, StartRun
  <2> QED
    BY <1>1, <1>4, <2>1
<1> QED
  BY <1>3, <1>5, <1>6, <1>7 DEF CommandsNext

LEMMA NextJobTypes == ASSUME RecordTypes, JobTypes, CommandsNext PROVE JobTypes'
<1>1. CASE job' = job
  BY <1>1 DEF JobTypes
<1>2. ASSUME NEW c \in Commands, NEW j \in Job, job' = [job EXCEPT ![c] = j] PROVE JobTypes'
  BY <1>2 DEF JobTypes
<1>3. ASSUME NEW c \in Commands, Ends(c) PROVE JobTypes'
  BY <1>2, <1>3 DEF Ends, Job
<1>4. ASSUME NEW c \in Commands, ResolveAndSpawn(c) PROVE JobTypes'
  <2> DEFINE j == [job[c] EXCEPT !.injected = job[c].shown, !.running = TRUE]
  <2>1. job[c].kind = "run" /\ job[c] \in Job /\ job' = [job EXCEPT ![c] = j]
    BY <1>4 DEF ResolveAndSpawn, Inject, JobTypes
  <2>2. j \in Job
    BY <2>1 DEF Job, Idle
  <2> QED
    BY <1>2, <2>1, <2>2
<1>5. ASSUME NEW c \in Commands, NEW scope \in Scopes, NEW name \in Visible \cup Hidden,
             StartSet(c, scope, name)
      PROVE  JobTypes'
  <2> DEFINE s == [project |-> scope.project, environment |-> scope.environment, name |-> name]
             j == [kind |-> "set", slot |-> s, class |-> Class(Policy, s)]
  <2>1. s \in Slots
    BY CommandsAssumption DEF Slots
  <2>2. j \in Job
    BY <2>1, ClassType DEF Job
  <2>3. job' = [job EXCEPT ![c] = j]
    BY <1>5 DEF StartSet, Begin
  <2> QED
    BY <1>2, <2>2, <2>3
<1>6. ASSUME NEW c \in Commands, NEW scope \in Scopes, NEW selected \in Selections(scope),
             StartBulkDelete(c, selected)
      PROVE  JobTypes'
  <2> DEFINE j == [kind |-> "bulk", selected |-> selected, seen |-> Stored \cap selected]
  <2>1. selected \in SUBSET Slots
    BY DEF Selections
  <2>2. j \in Job
    BY <2>1 DEF Job
  <2>3. job' = [job EXCEPT ![c] = j]
    BY <1>6 DEF StartBulkDelete, Begin
  <2> QED
    BY <1>2, <2>2, <2>3
<1>7. ASSUME NEW c \in Commands, NEW scope \in Scopes, NEW named \in SUBSET Listed(scope),
             StartRun(c, scope, named)
      PROVE  JobTypes'
  <2> DEFINE selected == IF named = {} THEN Listed(scope) ELSE named
             approved == named = {} \/ \E s \in named : IsLocked(Policy, s)
             opened == \E s \in selected : records[s].class = "interactive"
             j == [kind |-> "run", shown |-> selected, injected |-> {}, approved |-> approved,
                   unlocked |-> opened, running |-> FALSE]
  <2>1. selected \in SUBSET Slots
    BY DEF Listed, Stored
  <2>2. approved \in BOOLEAN /\ opened \in BOOLEAN
    OBVIOUS
  <2>3. j \in Job
    <3> HIDE DEF selected, approved, opened
    <3> QED
      BY <2>1, <2>2 DEF Job
  <2>4. job' = [job EXCEPT ![c] = j]
    BY <1>7 DEF StartRun, Begin
  <2> QED
    BY <1>2, <2>3, <2>4
<1>8. CASE \/ PolicyStep \/ \E policy \in Policies : ChangePolicy(policy)
           \/ \E s \in Slots : DeleteSecret(s)
           \/ \E r \in Renames : Rename(r)
  BY <1>1, <1>8 DEF PolicyStep, ChangePolicy, DeleteSecret, Rename
<1> QED
  BY <1>3, <1>4, <1>5, <1>6, <1>7, <1>8 DEF CommandsNext, StoreSecret, DeleteBulkIfUnchanged, EndJob

(* Every state of the commands is well typed: places, classes and seals of *)
(* records, and what each shared command waits with.                       *)
THEOREM CommandsTypeCorrect == CommandsSpec => []CommandsTypeOK
<1> DEFINE Types == RecordTypes /\ JobTypes /\ unlocked \in BOOLEAN
<1>1. CommandsInit => Types
  BY CommandsInitTypes DEF CommandsInit
<1>2. Types /\ [CommandsNext]_commandVars => Types'
  <2> SUFFICES ASSUME Types, [CommandsNext]_commandVars PROVE Types'
    OBVIOUS
  <2>1. CASE UNCHANGED commandVars
    BY <2>1 DEF commandVars, RecordTypes, JobTypes
  <2>2. CASE CommandsNext
    <3>1. unlocked' \in BOOLEAN
      <4>1. ASSUME NEW policy, ChangePolicy(policy) PROVE unlocked' \in BOOLEAN
        <5>1. Unlocks(policy) \in BOOLEAN
          BY DEF Unlocks
        <5> QED
          BY <4>1, <5>1 DEF ChangePolicy
      <4>2. CASE ~\E policy \in Policies : ChangePolicy(policy)
        BY <2>2, <4>2 DEF CommandsNext, PolicyStep, StartSet, StartBulkDelete, StartRun, Begin,
           DeleteSecret, StoreSecret, DeleteBulkIfUnchanged, ResolveAndSpawn, Inject, EndJob,
           Ends, Rename
      <4> QED
        BY <4>1, <4>2
    <3> QED
      BY <2>2, <3>1, NextRecordTypes, NextJobTypes
  <2> QED
    BY <2>1, <2>2
<1>3. Types /\ TypeOK => CommandsTypeOK
  BY DEF CommandsTypeOK, RecordTypes, JobTypes
<1>4. CommandsSpec => []Types
  BY <1>1, <1>2, PTL DEF CommandsSpec
<1>5. CommandsSpec => []TypeOK
  BY CommandsChangeProperly, PolicyTypes, PTL
<1> QED
  BY <1>3, <1>4, <1>5, PTL
=============================================================================
