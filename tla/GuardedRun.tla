----------------------------- MODULE GuardedRun -----------------------------
(***************************************************************************)
(* The supervision of the child of `keyclasp run` (run.ts): spawnGuarded   *)
(* forwards what the child and its descendants write unless it contains an *)
(* injected value, which ends forwarding and has the process group         *)
(* terminated; a signal to Keyclasp is relayed to the group; and when the  *)
(* child has been reaped and its pipes are closed the outcome is decided,  *)
(* once the terminations under way have ended.  spawnRaw, for              *)
(* --allow-unsafe, does the same without pipes.                            *)
(*                                                                         *)
(* Keyclasp is one thread: its event handlers do not overlap, but          *)
(* processes go on while it reads /proc entry by entry.  The model is of   *)
(* Linux, and ends with the outcome.  What would be written is chosen      *)
(* beforehand and written character by character, by any process that has  *)
(* the pipes.                                                              *)
(***************************************************************************)
EXTENDS SecretRedactor

CONSTANTS
    Texts,      \* what may be there to write on the two streams
    Procs,      \* the child and its descendants
    Leader,     \* the child, which leads the process group
    Kinds       \* what a process may be: subsets of Traits

Streams == {"stdout", "stderr"}
Terminations == {"relay", "leak"}

\* A process is in the group, has the pipes, can be signalled by this user,
\* and exits when it is asked to.
Traits == {"group", "pipes", "signallable", "obeys"}

ASSUME GuardedRunAssumption ==
    /\ Texts \subseteq [Streams -> Seq(Char)]
    /\ Leader \in Procs
    /\ Kinds \subseteq SUBSET Traits

VARIABLES
    text, written,  \* of every stream: what is to be written, and how far it is
    read,           \* how far Keyclasp has read
    flushed,        \* how far it has forwarded
    leak,           \* the stream a secret was found in
    raw,            \* --allow-unsafe
    kind, proc,     \* of every process: its traits, and its state
    termed,         \* the processes that were asked to exit and will
    term, late,     \* of every termination: its phase, and whether the time
                    \* that is allowed to it in this phase is over
    scan,           \* the look at the group under way
    missed,         \* processes forked since /proc was listed, unless the
                    \* look at it found a live one
    closed, waits,  \* the close handler has run, and the terminations it awaits
    outcome, unconfirmed

output == <<text, written, read, flushed, leak, raw>>
group == <<kind, proc, termed>>
ending == <<term, late, scan, missed>>
result == <<closed, waits, outcome, unconfirmed>>
vars == <<output, group, ending, result>>

NoScan == [by |-> "none", left |-> {}, zombies |-> FALSE]

TypeOK ==
    /\ text \in [Streams -> Seq(Char)]
    /\ {written, read, flushed} \subseteq [Streams -> Nat]
    /\ \A s \in Streams :
          flushed[s] <= read[s] /\ read[s] <= written[s] /\ written[s] <= Len(text[s])
    /\ leak \in Streams \cup {"none"}
    /\ raw \in BOOLEAN
    /\ kind \in [Procs -> SUBSET Traits]
    /\ proc \in [Procs -> {"unborn", "live", "zombie", "gone"}]
    /\ termed \subseteq Procs
    /\ term \in [Terminations -> {"off", "grace", "forced", "done", "failed"}]
    /\ late \in [Terminations -> BOOLEAN]
    /\ scan \in [by : Terminations \cup {"none"}, left : SUBSET Procs, zombies : BOOLEAN]
    /\ missed \subseteq Procs
    /\ closed \in BOOLEAN
    /\ waits \subseteq Terminations
    /\ outcome \in {"none", "exit", "leak", "error"}
    /\ unconfirmed \in BOOLEAN

Init ==
    /\ raw \in BOOLEAN
    /\ text \in IF raw THEN [Streams -> {<<>>}] ELSE Texts
    /\ written = [s \in Streams |-> 0] /\ read = written /\ flushed = written
    /\ leak = "none"
    /\ kind = [p \in Procs |-> Traits]
    /\ proc = [p \in Procs |-> "unborn"] /\ termed = {}
    /\ term = [r \in Terminations |-> "off"]
    /\ late = [r \in Terminations |-> FALSE]
    /\ scan = NoScan /\ missed = {}
    /\ closed = FALSE /\ waits = {}
    /\ outcome = "none" /\ unconfirmed = FALSE

----------------------------------------------------------------------------
(* The processes                                                           *)

Is(p, trait) == trait \in kind[p]
Live == {p \in Procs : proc[p] = "live"}
Members == {p \in Procs : proc[p] \in {"live", "zombie"} /\ Is(p, "group")}
Reachable == {p \in Live : Is(p, "group") /\ Is(p, "signallable")}

Set(p, state) == proc' = [proc EXCEPT ![p] = state]
Born(p, k) == Set(p, "live") /\ kind' = [kind EXCEPT ![p] = k]

\* A child is in the group of its parent, or in one of its own, and has no
\* pipes that its parent does not have.
Fork(p, q) ==
    /\ outcome = "none"
    /\ p \in Live /\ proc[q] = "unborn" /\ q # Leader
    /\ \E k \in Kinds : k \cap {"group", "pipes"} \subseteq kind[p] /\ Born(q, k)
    /\ missed' = IF scan # NoScan \/ p \in missed THEN missed \cup {q} ELSE missed
    /\ UNCHANGED <<output, termed, term, late, scan, result>>

Exit(p) ==
    /\ outcome = "none"
    /\ p \in Live
    /\ Set(p, "zombie")
    /\ termed' = termed \ {p}
    /\ UNCHANGED <<output, kind, ending, result>>

\* A descendant is reaped by its parent or by init, if that does so at all.
Reap(p) ==
    /\ outcome = "none"
    /\ proc[p] = "zombie" /\ p # Leader
    /\ Set(p, "gone")
    /\ UNCHANGED <<output, kind, termed, ending, result>>

Write(s) ==
    /\ outcome = "none"
    /\ ~raw /\ \E p \in Live : Is(p, "pipes")
    /\ written[s] < Len(text[s])
    /\ written' = [written EXCEPT ![s] = @ + 1]
    /\ UNCHANGED <<text, read, flushed, leak, raw, group, ending, result>>

----------------------------------------------------------------------------
(* Keyclasp                                                                *)

Running == outcome = "none" /\ proc[Leader] # "unborn" /\ scan = NoScan

Spawn ==
    /\ outcome = "none" /\ proc[Leader] = "unborn"
    /\ \E k \in Kinds : {"group", "pipes"} \subseteq k /\ Born(Leader, k)
    /\ UNCHANGED <<output, termed, ending, result>>

SpawnFails ==
    /\ outcome = "none" /\ proc[Leader] = "unborn"
    /\ outcome' = "error"
    /\ UNCHANGED <<output, group, ending, closed, waits, unconfirmed>>

\* The event loop waits for the child.
ReapLeader ==
    /\ Running /\ proc[Leader] = "zombie"
    /\ Set(Leader, "gone")
    /\ UNCHANGED <<output, kind, termed, ending, result>>

\* The child was not reaped and cannot be signalled.
Unsignallable == proc[Leader] # "gone" /\ ~Is(Leader, "signallable")

\* Neither the group nor the child can be signalled.
ChildRefuses == Unsignallable /\ \A p \in Members : ~Is(p, "signallable")

\* Mutant: an error of the child is only taken for one while it starts.
IgnoresRefusal == UNCHANGED outcome

\* signalChildTree.  Without a process in the group that it can signal it
\* signals the child, and the error event this raises ends the run, whatever
\* was found and with the child alive.  A child that was reaped is left alone.
SignalChildTree == outcome' = IF ChildRefuses THEN "error" ELSE outcome

\* terminateChildGroup
Terminate(r) ==
    /\ term' = [term EXCEPT ![r] = "grace"]
    /\ termed' = termed \cup {p \in Reachable : Is(p, "obeys")}
    /\ SignalChildTree

\* installTerminationRelay: later signals are ignored.
Signal ==
    /\ Running /\ term["relay"] = "off"
    /\ Terminate("relay")
    /\ UNCHANGED <<output, kind, proc, late, scan, missed, closed, waits, unconfirmed>>

\* handleLeak
HandleLeak(s) ==
    /\ leak' = s
    /\ Terminate("leak")

\* The redactor finds a secret in what it held back and what has arrived:
\* only what precedes it is forwarded.
Found(s, hi) ==
    /\ \E i \in flushed[s] .. hi :
          /\ FirstMatch(text[s], flushed[s], hi, i)
          /\ flushed' = [flushed EXCEPT ![s] = i]
    /\ HandleLeak(s)

Clean(s, hi) == Matches(text[s], flushed[s], hi) = {}

\* How far a clean stream is forwarded once hi was read.
Forwarded(s, hi, f) == CarryLength(text[s], flushed[s], hi, hi - f)

\* A data event.  The decoder may keep the last character back, when its
\* bytes are incomplete.
Data(s, hi) ==
    /\ Running /\ ~raw /\ ~closed
    /\ hi \in read[s] + 1 .. written[s]
    /\ read' = [read EXCEPT ![s] = hi]
    /\ \/ /\ leak # "none"
          /\ UNCHANGED <<flushed, leak, term, termed, outcome>>
       \/ leak = "none" /\ Found(s, hi)
       \/ /\ leak = "none" /\ Clean(s, hi)
          /\ \E f \in flushed[s] .. hi :
                Forwarded(s, hi, f) /\ flushed' = [flushed EXCEPT ![s] = f]
          /\ UNCHANGED <<leak, term, termed, outcome>>
    /\ UNCHANGED <<text, written, raw, kind, proc, late, scan, missed, closed,
                   waits, unconfirmed>>

\* The child was reaped, no process has its pipes, and they are read to the
\* end but for an incomplete character.
Closes ==
    /\ Running /\ ~closed /\ proc[Leader] = "gone"
    /\ raw \/ \A p \in Live : ~Is(p, "pipes")
    /\ \A s \in Streams : written[s] - read[s] <= 1
    /\ closed' = TRUE
    /\ read' = written
    /\ waits' = {r \in Terminations : term'[r] # "off"}
    /\ UNCHANGED <<text, written, raw, kind, proc, late, scan, missed, unconfirmed>>

\* The close handler, after a leak.
CloseAfterLeak ==
    /\ leak # "none"
    /\ UNCHANGED <<flushed, leak, term, termed, outcome>>
    /\ Closes

\* Mutant: what is held back is dropped at the end of a stream.
DropCarry ==
    /\ leak = "none" /\ \A s \in Streams : Clean(s, written[s])
    /\ UNCHANGED <<flushed, leak, term, termed>>
    /\ Closes
    /\ outcome' = IF waits' = {} THEN "exit" ELSE "none"

\* Neither last character completes a secret: both redactors are ended.
CloseClean ==
    /\ leak = "none" /\ \A s \in Streams : Clean(s, written[s])
    /\ flushed' = written
    /\ UNCHANGED <<leak, term, termed>>
    /\ Closes
    /\ outcome' = IF waits' = {} THEN "exit" ELSE "none"

\* The last character of stdout does, or that of stderr after it.
CloseLeaking ==
    /\ leak = "none"
    /\ \/ Found("stdout", written["stdout"])
       \/ /\ Clean("stdout", written["stdout"])
          /\ ~Clean("stderr", written["stderr"])
          /\ \E f \in flushed["stdout"] .. written["stdout"],
                i \in flushed["stderr"] .. written["stderr"] :
                /\ Forwarded("stdout", written["stdout"], f)
                /\ FirstMatch(text["stderr"], flushed["stderr"], written["stderr"], i)
                /\ flushed' = [flushed EXCEPT !["stdout"] = f, !["stderr"] = i]
          /\ HandleLeak("stderr")
    /\ Closes

\* Mutant: the outcome is decided without waiting for the terminations.
SettleAtOnce ==
    /\ Running /\ closed
    /\ outcome' = IF leak # "none" THEN "leak" ELSE "exit"
    /\ UNCHANGED <<output, group, ending, closed, waits, unconfirmed>>

\* All the awaited terminations have ended, or one of them has failed.
Settle ==
    LET failed == \E r \in waits : term[r] = "failed" IN
    /\ Running /\ closed
    /\ failed \/ \A r \in waits : term[r] = "done"
    /\ outcome' = IF leak # "none" THEN "leak" ELSE IF failed THEN "error" ELSE "exit"
    /\ unconfirmed' = failed
    /\ UNCHANGED <<output, group, ending, closed, waits>>

----------------------------------------------------------------------------
(* terminateChildGroup: a look at the group every 20 milliseconds          *)

Polling(r) == term[r] \in {"grace", "forced"}

\* 250 milliseconds after a leak, a second after a signal; and two more
\* seconds, which a late look may find to be over when it sends SIGKILL.
TimePasses(r) ==
    /\ outcome = "none" /\ Polling(r) /\ ~late[r]
    /\ late' = [late EXCEPT ![r] = TRUE]
    /\ UNCHANGED <<output, group, term, scan, missed, result>>

Enter(r, phase) ==
    /\ term' = [term EXCEPT ![r] = phase]
    /\ late' = [late EXCEPT ![r] = FALSE]

\* Mutant: SIGKILL is never sent.
KeepWaiting(r) ==
    UNCHANGED <<term, late, proc, outcome>>

\* Some member is taken to be alive.
NotYet(r) ==
    \/ ~late[r] /\ UNCHANGED <<term, late, proc, outcome>>
    \/ /\ late[r] /\ term[r] = "grace"
       /\ proc' = [p \in Procs |-> IF p \in Reachable THEN "zombie" ELSE proc[p]]
       /\ \E phase \in {"forced", "failed"} : Enter(r, phase)
       /\ SignalChildTree
    \/ /\ late[r] /\ term[r] = "forced"
       /\ Enter(r, "failed")
       /\ UNCHANGED <<proc, outcome>>

\* processGroupHasLiveMembers: the group is gone; or nothing in it can be
\* signalled; or /proc is listed.
Look(r) ==
    /\ Running /\ Polling(r)
    /\ \/ /\ Members = {}
          /\ Enter(r, "done")
          /\ UNCHANGED <<scan, missed>>
       \/ /\ Members # {} /\ \A p \in Members : ~Is(p, "signallable")
          /\ Enter(r, "failed")
          /\ UNCHANGED <<scan, missed>>
       \/ /\ \E p \in Members : Is(p, "signallable")
          /\ scan' = [by |-> r, left |-> Members, zombies |-> FALSE]
          /\ missed' = {}
          /\ UNCHANGED <<term, late>>
    /\ UNCHANGED <<output, group, result>>

\* Mutant: the first member that is found decides.
ReadFirst(p) ==
    /\ p \in scan.left
    /\ \/ /\ proc[p] = "live"
          /\ NotYet(scan.by)
          /\ scan' = NoScan /\ missed' = {}
       \/ /\ proc[p] = "gone"
          /\ scan' = [scan EXCEPT !.left = @ \ {p}]
          /\ UNCHANGED <<term, late, proc, missed, outcome>>
       \/ /\ proc[p] = "zombie"
          /\ scan' = NoScan
          /\ Enter(scan.by, "done")
          /\ UNCHANGED <<proc, missed, outcome>>
    /\ UNCHANGED <<output, kind, termed, closed, waits, unconfirmed>>

\* inspectLinuxProcessGroup reads the state of one process.
ReadStat(p) ==
    /\ p \in scan.left
    /\ \/ /\ proc[p] = "live"
          /\ NotYet(scan.by)
          /\ scan' = NoScan /\ missed' = {}
       \/ /\ proc[p] # "live"
          /\ scan' = [scan EXCEPT !.left = @ \ {p}, !.zombies = @ \/ proc[p] = "zombie"]
          /\ UNCHANGED <<term, late, proc, missed, outcome>>
    /\ UNCHANGED <<output, kind, termed, closed, waits, unconfirmed>>

\* A member was found and all that were are zombies.  When none was found,
\* or something could not be read, the group is taken to be alive.
EndScan ==
    /\ scan # NoScan /\ scan.left = {}
    /\ scan' = NoScan
    /\ \/ /\ scan.zombies
          /\ Enter(scan.by, "done")
          /\ UNCHANGED <<proc, missed, outcome>>
       \/ NotYet(scan.by) /\ missed' = {}
    /\ UNCHANGED <<output, kind, termed, closed, waits, unconfirmed>>

----------------------------------------------------------------------------
Next ==
    \/ Spawn \/ SpawnFails \/ ReapLeader \/ Signal
    \/ \E p, q \in Procs : Fork(p, q)
    \/ \E p \in Procs : Exit(p) \/ Reap(p) \/ ReadStat(p)
    \/ \E s \in Streams : Write(s) \/ \E hi \in 1 .. Len(text[s]) : Data(s, hi)
    \/ CloseAfterLeak \/ CloseClean \/ CloseLeaking \/ Settle
    \/ \E r \in Terminations : TimePasses(r) \/ Look(r)
    \/ EndScan

Spec == Init /\ [][Next]_vars

(* What the event loop serves besides the looks at the group, which is     *)
(* finitely much.                                                          *)
Event ==
    \/ \E s \in Streams : \E hi \in 1 .. Len(text[s]) : Data(s, hi)
    \/ CloseAfterLeak \/ CloseClean \/ CloseLeaking \/ ReapLeader \/ Settle

(* Between two looks at the group the event loop serves the events that    *)
(* are due; timers expire; a process that obeys exits.  Nothing makes      *)
(* another one exit, or init reap.                                         *)
FairSpec ==
    /\ Spec
    /\ SF_vars(Event)
    /\ \A r \in Terminations : SF_vars(Look(r))
    /\ WF_vars(EndScan \/ \E p \in Procs : ReadStat(p))
    /\ WF_vars(\E r \in Terminations : TimePasses(r))
    /\ WF_vars(\E p \in termed : Exit(p))

----------------------------------------------------------------------------
(* Properties                                                              *)

(* No complete value that is looked for reaches the caller on a stream,    *)
(* however the output is cut into chunks, whatever is held back and        *)
(* wherever the stream ends.  ("Matching works across output chunks."      *)
(* docs/security.md:42)                                                    *)
NoSecretForwarded ==
    \A s \in Streams : Matches(text[s], 0, flushed[s]) = {}

(* A guarded run that ends like its child has forwarded all that was       *)
(* written, the tail of it that looked like the start of a secret          *)
(* included, and there was none in it: no leak goes unreported because it  *)
(* came last, and no output is lost.  If a signal was relayed, the end of  *)
(* the group was confirmed before; a run that could not confirm it is not  *)
(* taken for a plain exit.  And a leak is the outcome of every run it was  *)
(* found in, except that a child that cannot be signalled ends the run as  *)
(* an error, and the only error after a leak is that one.                  *)
CleanExitIsComplete ==
    /\ outcome = "exit" =>
          /\ \A s \in Streams :
                flushed[s] = written[s] /\ Matches(text[s], 0, written[s]) = {}
          /\ term["relay"] \in {"off", "done"}
    /\ outcome # "none" /\ leak # "none" =>
          outcome = "leak" \/ (outcome = "error" /\ Unsignallable)

(* Once a value was found on one stream nothing more is forwarded on       *)
(* either, in later events or when the streams end.                        *)
SilentAfterLeak == [][leak # "none" => flushed' = flushed]_vars

(* The end of a group is confirmed only when every member there was when   *)
(* the look at it began is dead, although processes fork, exit and are     *)
(* reaped while it is read.                                                *)
ConfirmedMeansListedDead ==
    [][\A r \in Terminations : term'[r] = "done" /\ term[r] # "done"
          => {p \in Live : Is(p, "group")}' \subseteq missed']_vars

\* The group has had a process besides the child that can be signalled.
GroupSignallable ==
    \E q \in Procs \ {Leader} :
        proc[q] # "unborn" /\ {"group", "signallable"} \subseteq kind[q]

(* Who keeps a run from ending: a process that is out of reach of its      *)
(* termination and has the pipes, or is the child.  A child that cannot be *)
(* signalled does so only if a termination had somebody else to signal.    *)
Holds(p) ==
    /\ p \in Live /\ (p = Leader \/ (~raw /\ Is(p, "pipes")))
    /\ p = Leader /\ Unsignallable => GroupSignallable
    /\ \/ p \notin Reachable \/ p \in missed
       \/ \E r \in Terminations : term[r] = "failed"

(* A run that a leak or a signal is to end does end, whether processes     *)
(* exit when asked to, have to be killed, or stay zombies that nobody      *)
(* reaps, unless one that cannot be reached keeps it; and a child that     *)
(* cannot be signalled ends it at once, as an error.                       *)
TerminationEnds ==
    (\E r \in Terminations : term[r] # "off")
        ~> outcome # "none" \/ \E p \in Procs : Holds(p)
============================================================================
