------------------------ MODULE LifecycleLockProofs ------------------------
(***************************************************************************)
(* Exclusion and recovery before dispatch, proved for any set of commands. *)
(* The invariant relates where each command is to the lock it has, and the *)
(* locks of any two commands to each other.                                *)
(***************************************************************************)
EXTENDS LifecycleLock, TLAPS

\* The locks SQLite has given are compatible.
LockInv ==
    \A p \in Commands :
        /\ lock[p] = "exclusive" => Alone(p)
        /\ lock[p] = "pending" => NoWriter(p)

\* A command has the lock its place in main calls for.
PlaceInv ==
    \A p \in Commands :
        /\ pc[p] \in {"idle", "check", "open", "create"} => lock[p] = "none"
        /\ pc[p] = "begin" =>
              lock[p] = "none" \/ (lock[p] = "pending" /\ mode[p] = "exclusive")
        /\ pc[p] = "recheck" => lock[p] = "shared" /\ kind[p] = "shared"
        /\ pc[p] = "recover" => lock[p] = "exclusive" /\ kind[p] # "restore"
        /\ pc[p] = "body" => lock[p] = mode[p]
        /\ pc[p] \in {"open", "create", "begin", "body"} /\ kind[p] # "shared" =>
              mode[p] = "exclusive"
        /\ pc[p] = "recheck" => mode[p] = "shared"
        /\ pc[p] = "recover" => mode[p] = "exclusive"
        /\ p \in dirty => lock[p] = "exclusive"

Inv == TypeOK /\ LockInv /\ PlaceInv /\ DispatchedOnRecoveredVault

----------------------------------------------------------------------------
USE DEF Kinds, Modes

LEMMA InvInit == Init => Inv
BY DEF Init, Inv, TypeOK, LockInv, PlaceInv, DispatchedOnRecoveredVault

LEMMA InvNext == Inv /\ [Next]_vars => Inv'
<1> SUFFICES ASSUME Inv, [Next]_vars PROVE Inv'
  OBVIOUS
<1> USE DEF Inv, TypeOK, LockInv, PlaceInv, DispatchedOnRecoveredVault, Goto,
            Others, Alone, NoWriter
<1>1. ASSUME NEW p \in Commands, NEW k \in Kinds, Start(p, k) PROVE Inv'
  BY <1>1 DEF Start
<1>2. ASSUME NEW p \in Commands, Check(p) PROVE Inv'
  BY <1>2 DEF Check
<1>3. ASSUME NEW p \in Commands, Open(p) PROVE Inv'
  BY <1>3 DEF Open
<1>4. ASSUME NEW p \in Commands, Create(p) PROVE Inv'
  BY <1>4 DEF Create
<1>5. ASSUME NEW p \in Commands, BeginShared(p) PROVE Inv'
  BY <1>5 DEF BeginShared, Readable
<1>6. ASSUME NEW p \in Commands, BeginExclusive(p) PROVE Inv'
  BY <1>6 DEF BeginExclusive
<1>7. ASSUME NEW p \in Commands, GainExclusive(p) PROVE Inv'
  BY <1>7 DEF GainExclusive
<1>8. ASSUME NEW p \in Commands, Dispatch(p) PROVE Inv'
  BY <1>8 DEF Dispatch
<1>9. ASSUME NEW p \in Commands, Escalate(p) PROVE Inv'
  BY <1>9 DEF Escalate
<1>10. ASSUME NEW p \in Commands, Recover(p) PROVE Inv'
  BY <1>10 DEF Recover
<1>11. ASSUME NEW p \in Commands, Transaction(p) PROVE Inv'
  <2>1. CASE OpenTransaction(p)
    BY <2>1 DEF OpenTransaction
  <2>2. CASE CloseTransaction(p)
    BY <2>2 DEF CloseTransaction
  <2>3. CASE AbandonRestore(p)
    BY <2>3 DEF AbandonRestore
  <2> QED
    BY <1>11, <2>1, <2>2, <2>3 DEF Transaction
<1>12. ASSUME NEW p \in Commands, End(p) \/ Die(p) PROVE Inv'
  BY <1>12 DEF End, Die, Leave
<1>13. CASE UNCHANGED vars
  BY <1>13 DEF vars
<1> HIDE DEF Inv
<1> QED
  BY <1>1, <1>2, <1>3, <1>4, <1>5, <1>6, <1>7, <1>8, <1>9, <1>10, <1>11,
     <1>12, <1>13 DEF Next, Step

\* The inductive invariant: modes chosen from a stale look (cli.ts:513) are
\* put right before dispatch.
THEOREM LockInvariance == Spec => []Inv
<1>1. Init => Inv
  BY InvInit
<1>2. Inv /\ [Next]_vars => Inv'
  BY InvNext
<1> QED
  BY <1>1, <1>2, PTL DEF Spec

\* Wherever a command is between its look at the vault and its dispatch
\* (cli.ts:512), it has a lock of one of the modes.
THEOREM LockTypes == Spec => []TypeOK
<1>1. Inv => TypeOK
  BY DEF Inv
<1> QED
  BY <1>1, LockInvariance, PTL

\* A command that recovers or changes the vault as a whole is alone in it.
THEOREM LockExclusion == Spec => []Exclusion
<1>1. Inv => Exclusion
  BY DEF Inv, TypeOK, LockInv, PlaceInv, Exclusion, Alone, Others
<1> QED
  BY <1>1, LockInvariance, PTL

\* No command works on a vault somebody left unfinished.
THEOREM LockRecoversFirst == Spec => []DispatchedOnRecoveredVault
<1>1. Inv => DispatchedOnRecoveredVault
  BY DEF Inv
<1> QED
  BY <1>1, LockInvariance, PTL
============================================================================
