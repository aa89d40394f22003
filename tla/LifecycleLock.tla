--------------------------- MODULE LifecycleLock ---------------------------
(***************************************************************************)
(* How commands share a vault.  A command decides from what it finds       *)
(* unfinished in the vault, before it holds any lock, which mode it needs; *)
(* acquires the lifecycle lock, a transaction on .lifecycle.db; recovers   *)
(* what is unfinished if it is alone; and is dispatched (cli.ts main,      *)
(* lifecycle-lock.ts).  Many commands run at a time.                       *)
(*                                                                         *)
(* SQLite serves the transaction: BEGIN and a SELECT take SHARED; BEGIN    *)
(* EXCLUSIVE takes PENDING, which keeps new readers out, and EXCLUSIVE     *)
(* when the last reader has gone.  A locker without SHARED waits for its   *)
(* turn without holding anything.                                          *)
(***************************************************************************)

CONSTANT Commands   \* the processes

VARIABLES
    kind,       \* the command given: "shared" or "exclusive", as
                \* lifecycleModeForCommand says, or a "restore"
    pc,
    mode,       \* the mode to acquire the lock in
    lock,       \* the SQLite lock each process has on .lifecycle.db
    table,      \* whether .lifecycle.db has its table and row
    unfinished, \* an interrupted transaction or migration is in the vault
    dirty       \* the commands that left or opened unfinished work themselves

vars == <<kind, pc, mode, lock, table, unfinished, dirty>>

Kinds == {"shared", "exclusive", "restore"}
Modes == {"shared", "exclusive"}

TypeOK ==
    /\ kind \in [Commands -> Kinds]
    /\ pc \in [Commands -> {"idle", "check", "open", "create", "begin", "recheck",
                            "recover", "body"}]
    /\ mode \in [Commands -> Modes]
    /\ lock \in [Commands -> {"none", "shared", "pending", "exclusive"}]
    /\ table \in BOOLEAN /\ unfinished \in BOOLEAN
    /\ dirty \subseteq Commands

Init ==
    /\ kind = [p \in Commands |-> "shared"]
    /\ pc = [p \in Commands |-> "idle"]
    /\ mode = [p \in Commands |-> "shared"]
    /\ lock = [p \in Commands |-> "none"]
    /\ table \in BOOLEAN
    /\ unfinished \in BOOLEAN
    /\ dirty = {}

Others(p) == Commands \ {p}
Goto(p, next) == pc' = [pc EXCEPT ![p] = next]

----------------------------------------------------------------------------
(* SQLite                                                                  *)

\* A read of .lifecycle.db is served.
Readable(p) == \A q \in Others(p) : lock[q] \notin {"pending", "exclusive"}

\* A write is: BEGIN EXCLUSIVE waits behind no other writer.
NoWriter(p) == \A q \in Others(p) : lock[q] \in {"none", "shared"}

Alone(p) == \A q \in Others(p) : lock[q] = "none"

----------------------------------------------------------------------------
(* main                                                                    *)

Start(p, k) ==
    /\ pc[p] = "idle"
    /\ kind' = [kind EXCEPT ![p] = k]
    /\ Goto(p, "check")
    /\ UNCHANGED <<mode, lock, table, unfinished, dirty>>

\* hasPendingExclusiveVaultWork, without a lock.
Check(p) ==
    /\ pc[p] = "check"
    /\ mode' = [mode EXCEPT ![p] =
            IF kind[p] = "shared" /\ ~unfinished THEN "shared" ELSE "exclusive"]
    /\ Goto(p, "open")
    /\ UNCHANGED <<kind, lock, table, unfinished, dirty>>

\* acquireVaultLifecycleLock: the first opener creates the table and its row.
Open(p) ==
    /\ pc[p] = "open" /\ Readable(p)
    /\ Goto(p, IF table THEN "begin" ELSE "create")
    /\ UNCHANGED <<kind, mode, lock, table, unfinished, dirty>>

Create(p) ==
    /\ pc[p] = "create" /\ NoWriter(p)
    /\ table \/ Alone(p)
    /\ table' = TRUE
    /\ Goto(p, "begin")
    /\ UNCHANGED <<kind, mode, lock, unfinished, dirty>>

BeginShared(p) ==
    /\ pc[p] = "begin" /\ mode[p] = "shared" /\ Readable(p)
    /\ lock' = [lock EXCEPT ![p] = "shared"]
    /\ Goto(p, "recheck")
    /\ UNCHANGED <<kind, mode, table, unfinished, dirty>>

BeginExclusive(p) ==
    /\ pc[p] = "begin" /\ mode[p] = "exclusive"
    /\ lock[p] = "none" /\ NoWriter(p)
    /\ lock' = [lock EXCEPT ![p] = "pending"]
    /\ UNCHANGED <<kind, pc, mode, table, unfinished, dirty>>

GainExclusive(p) ==
    /\ pc[p] = "begin" /\ lock[p] = "pending" /\ Alone(p)
    /\ lock' = [lock EXCEPT ![p] = "exclusive"]
    /\ Goto(p, IF kind[p] = "restore" THEN "body" ELSE "recover")
    /\ UNCHANGED <<kind, mode, table, unfinished, dirty>>

\* Mutant: the look before the lock is trusted.
DispatchUnchecked(p) ==
    /\ pc[p] = "recheck"
    /\ Goto(p, "body")
    /\ UNCHANGED <<kind, mode, lock, table, unfinished, dirty>>

\* A shared command looks again now that nobody can start anything, and
\* gives its lock up for an exclusive one if there is work to do first.
Dispatch(p) ==
    /\ pc[p] = "recheck" /\ ~unfinished
    /\ Goto(p, "body")
    /\ UNCHANGED <<kind, mode, lock, table, unfinished, dirty>>

\* Mutant: a shared command recovers under the lock it has.
EscalateInPlace(p) ==
    /\ pc[p] = "recheck" /\ unfinished
    /\ Goto(p, "recover")
    /\ UNCHANGED <<kind, mode, lock, table, unfinished, dirty>>

Escalate(p) ==
    /\ pc[p] = "recheck" /\ unfinished
    /\ lock' = [lock EXCEPT ![p] = "none"]
    /\ mode' = [mode EXCEPT ![p] = "exclusive"]
    /\ Goto(p, "open")
    /\ UNCHANGED <<kind, table, unfinished, dirty>>

\* recoverAndMigrateVault, which may itself be interrupted (Die).
Recover(p) ==
    /\ pc[p] = "recover"
    /\ unfinished' = FALSE
    /\ dirty' = dirty \ {p}
    /\ Goto(p, "body")
    /\ UNCHANGED <<kind, mode, lock, table>>

\* A migration of recoverAndMigrateVault, or a command that changes the
\* vault as a whole, opens a transaction and closes it.
OpenTransaction(p) ==
    /\ pc[p] = "recover" \/ (pc[p] = "body" /\ kind[p] # "shared")
    /\ unfinished' = TRUE
    /\ dirty' = dirty \cup {p}
    /\ UNCHANGED <<kind, pc, mode, lock, table>>

CloseTransaction(p) ==
    /\ pc[p] = "body" /\ p \in dirty
    /\ unfinished' = FALSE
    /\ dirty' = dirty \ {p}
    /\ UNCHANGED <<kind, pc, mode, lock, table>>

\* A restore that is rolled back puts back what it found unfinished.
AbandonRestore(p) ==
    /\ pc[p] = "body" /\ kind[p] = "restore" /\ p \in dirty
    /\ dirty' = dirty \ {p}
    /\ UNCHANGED <<kind, pc, mode, lock, table, unfinished>>

\* Mutant: the lock is not given back.
LeaveLocked(p) ==
    /\ dirty' = dirty \ {p}
    /\ Goto(p, "idle")
    /\ UNCHANGED <<kind, mode, lock, table, unfinished>>

Leave(p) ==
    /\ lock' = [lock EXCEPT ![p] = "none"]
    /\ dirty' = dirty \ {p}
    /\ Goto(p, "idle")
    /\ UNCHANGED <<kind, mode, table, unfinished>>

\* The command is over; what it could not close stays in the vault.
End(p) == pc[p] = "body" /\ Leave(p)

\* Its process is killed, or a step throws: the file locks go with it.
Die(p) == pc[p] # "idle" /\ Leave(p)

----------------------------------------------------------------------------
Step(p) ==
    \/ Check(p) \/ Open(p) \/ Create(p) \/ BeginShared(p) \/ BeginExclusive(p)
    \/ GainExclusive(p) \/ Dispatch(p) \/ Escalate(p) \/ Recover(p)

Transaction(p) == OpenTransaction(p) \/ CloseTransaction(p) \/ AbandonRestore(p)

Next ==
    \E p \in Commands :
        \/ \E k \in Kinds : Start(p, k)
        \/ Step(p) \/ Transaction(p) \/ End(p) \/ Die(p)

Spec == Init /\ [][Next]_vars

\* A command that can go on does, and one that has been dispatched ends: the
\* lock waits "behind ordinary commands, including long-lived children".
FairSpec == Spec /\ \A p \in Commands : WF_vars(Step(p)) /\ WF_vars(End(p))

----------------------------------------------------------------------------
(* Properties                                                              *)

(* A command that recovers the vault or changes it as a whole is alone in  *)
(* it, whichever way it came to its lock: at once, as the only one to find *)
(* work unfinished, or by giving up a shared lock.                         *)
Exclusion ==
    \A p \in Commands :
        pc[p] = "recover" \/ (pc[p] = "body" /\ mode[p] = "exclusive") =>
            \A q \in Others(p) : pc[q] \notin {"recheck", "recover", "body"}

(* No command but a restore works on a vault with an interrupted           *)
(* transaction in it, other than one it has opened itself: not even if the *)
(* look that chose its mode was stale, and for as long as it runs.         *)
DispatchedOnRecoveredVault ==
    \A p \in Commands :
        pc[p] = "body" /\ kind[p] # "restore" /\ unfinished => p \in dirty

(* An exclusive command whose turn it is gets the vault, however many      *)
(* ordinary commands come and go.                                          *)
WriterIsServed ==
    \A p \in Commands : lock[p] = "pending" ~> lock[p] # "pending"
============================================================================
