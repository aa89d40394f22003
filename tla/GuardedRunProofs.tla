-------------------------- MODULE GuardedRunProofs --------------------------
(***************************************************************************)
(* What GuardedRun promises, proved for all values, texts, processes and   *)
(* kinds of processes.  That no value is forwarded rests on an invariant   *)
(* of what is held back: whatever could be the beginning of a secret at    *)
(* the end of what was read has not been forwarded.                        *)
(***************************************************************************)
EXTENDS GuardedRun, TLAPS

----------------------------------------------------------------------------
(* The redactor                                                            *)

\* Every secret that begins within what was read and could still go on is
\* held back from position lo.
HeldBack(t, lo, r) == \A n \in 1 .. r : BeginsSecret(t, r, n) => n <= r - lo

LEMMA SecretsAreWords ==
    \A v \in Secrets : v \in Seq(Char) /\ Len(v) \in Nat /\ Len(v) >= 1
BY RedactorAssumption DEF Secrets

\* There is no secret in nothing.
LEMMA NoMatchAtStart == ASSUME NEW t PROVE Matches(t, 0, 0) = {}
<1> SUFFICES ASSUME NEW i \in 0 .. 0, NEW v \in Secrets, Occurs(v, t, i, 0)
             PROVE FALSE
  BY DEF Matches
<1> QED
  BY SecretsAreWords DEF Occurs

\* A shorter part of a text has no more matches.
LEMMA FewerMatches ==
    ASSUME NEW t, NEW lo \in Nat, NEW f \in Nat, NEW hi \in Nat, f <= hi,
           Matches(t, lo, hi) = {}
    PROVE  Matches(t, lo, f) = {}
<1> SUFFICES ASSUME NEW i \in lo .. f, NEW v \in Secrets, Occurs(v, t, i, f)
             PROVE FALSE
  BY DEF Matches
<1>1. i \in lo .. hi /\ Occurs(v, t, i, hi)
  BY SecretsAreWords DEF Occurs
<1> QED
  BY <1>1 DEF Matches

\* A secret does not begin before what is held back and end after it.
LEMMA NoneStraddles ==
    ASSUME NEW t, NEW lo \in Nat, NEW r \in Nat, NEW hi \in Nat, lo <= r, r <= hi,
           Matches(t, 0, r) = {}, HeldBack(t, lo, r),
           NEW v \in Secrets, NEW i \in Nat, Occurs(v, t, i, hi)
    PROVE  i >= lo
<1> SUFFICES ASSUME i < lo PROVE FALSE
  OBVIOUS
<1>1. Len(v) \in Nat /\ i + Len(v) <= hi /\ \A k \in 1 .. Len(v) : t[i + k] = v[k]
  BY SecretsAreWords DEF Occurs
<1>2. CASE i + Len(v) <= r
  <2>1. i \in 0 .. r /\ Occurs(v, t, i, r)
    BY <1>1, <1>2 DEF Occurs
  <2> QED
    BY <2>1 DEF Matches
<1>3. CASE i + Len(v) > r
  <2> DEFINE n == r - i
  <2>1. n \in 1 .. r /\ n < Len(v) /\ n > r - lo
    BY <1>1, <1>3
  <2>2. \A k \in 1 .. n : t[r - n + k] = v[k]
    <3> TAKE k \in 1 .. n
    <3>1. k \in 1 .. Len(v) /\ r - n + k = i + k
      BY <1>1, <2>1
    <3> QED
      BY <1>1, <3>1
  <2>3. BeginsSecret(t, r, n)
    BY <1>1, <2>1, <2>2 DEF BeginsSecret
  <2> QED
    BY <2>1, <2>3 DEF HeldBack
<1> QED
  BY <1>1, <1>2, <1>3

\* If the redactor finds nothing there is nothing.
LEMMA CleanMeansClean ==
    ASSUME NEW t, NEW lo \in Nat, NEW r \in Nat, NEW hi \in Nat, lo <= r, r <= hi,
           Matches(t, 0, r) = {}, HeldBack(t, lo, r), Matches(t, lo, hi) = {}
    PROVE  Matches(t, 0, hi) = {}
<1> SUFFICES ASSUME NEW i \in 0 .. hi, NEW v \in Secrets, Occurs(v, t, i, hi)
             PROVE FALSE
  BY DEF Matches
<1>1. i \in lo .. hi
  BY NoneStraddles
<1> QED
  BY <1>1 DEF Matches

\* If it finds something there is nothing before the first match.
LEMMA NothingBeforeFirst ==
    ASSUME NEW t, NEW lo \in Nat, NEW r \in Nat, NEW hi \in Nat, lo <= r, r <= hi,
           Matches(t, 0, r) = {}, HeldBack(t, lo, r),
           NEW f \in lo .. hi, FirstMatch(t, lo, hi, f)
    PROVE  Matches(t, 0, f) = {}
<1> SUFFICES ASSUME NEW i \in 0 .. f, NEW v \in Secrets, Occurs(v, t, i, f)
             PROVE FALSE
  BY DEF Matches
<1>1. Len(v) >= 1 /\ Len(v) \in Nat
  BY SecretsAreWords
<1>2. i + Len(v) <= f /\ Occurs(v, t, i, hi)
  BY <1>1 DEF Occurs
<1>3. i \in lo .. hi
  BY <1>2, NoneStraddles
<1>4. f <= i
  BY <1>2, <1>3 DEF FirstMatch, Matches
<1> QED
  BY <1>1, <1>2, <1>4

\* What is held back next holds everything back that must be.
LEMMA CarryHoldsBack ==
    ASSUME NEW t, NEW lo \in Nat, NEW r \in Nat, NEW hi \in Nat, lo <= r, r <= hi,
           HeldBack(t, lo, r), NEW f \in lo .. hi, CarryLength(t, lo, hi, hi - f)
    PROVE  HeldBack(t, f, hi)
<1> SUFFICES ASSUME NEW n \in 1 .. hi, BeginsSecret(t, hi, n) PROVE n <= hi - f
  BY DEF HeldBack
<1>1. CASE n <= hi - lo
  BY <1>1 DEF CarryLength
<1>2. CASE n > hi - lo
  <2>1. PICK m : m = r - (hi - n)
    OBVIOUS
  <2>2. PICK v \in Secrets : n <= Len(v) /\ \A k \in 1 .. n : t[hi - n + k] = v[k]
    BY DEF BeginsSecret
  <2>3. PICK w \in Secrets : n < Len(w)
    BY DEF BeginsSecret
  <2>4. m \in 1 .. r /\ m <= n /\ m > r - lo
    BY <1>2, <2>1
  <2>5. m <= Len(v) /\ m < Len(w)
    BY <2>2, <2>3, <2>4, SecretsAreWords
  <2>6. \A k \in 1 .. m : t[r - m + k] = v[k]
    <3> TAKE k \in 1 .. m
    <3>1. k \in 1 .. n /\ r - m + k = hi - n + k
      BY <2>1, <2>4
    <3> QED
      BY <2>2, <3>1
  <2>7. BeginsSecret(t, r, m)
    BY <2>5, <2>6 DEF BeginsSecret
  <2> QED
    BY <2>4, <2>7 DEF HeldBack
<1> QED
  BY <1>1, <1>2

(* Types                                                                   *)

OutputType ==
    /\ text \in [Streams -> Seq(Char)]
    /\ written \in [Streams -> Nat]
    /\ read \in [Streams -> Nat]
    /\ flushed \in [Streams -> Nat]
    /\ \A s \in Streams :
          flushed[s] <= read[s] /\ read[s] <= written[s] /\ written[s] <= Len(text[s])
    /\ leak \in Streams \cup {"none"}
    /\ raw \in BOOLEAN

GroupType ==
    /\ kind \in [Procs -> SUBSET Traits]
    /\ proc \in [Procs -> {"unborn", "live", "zombie", "gone"}]
    /\ termed \subseteq Procs

EndingType ==
    /\ term \in [Terminations -> {"off", "grace", "forced", "done", "failed"}]
    /\ late \in [Terminations -> BOOLEAN]
    /\ scan \in [by : Terminations \cup {"none"}, left : SUBSET Procs, zombies : BOOLEAN]
    /\ missed \subseteq Procs

ResultType ==
    /\ closed \in BOOLEAN
    /\ waits \subseteq Terminations
    /\ outcome \in {"none", "exit", "leak", "error"}
    /\ unconfirmed \in BOOLEAN

LEMMA TypeParts ==
    /\ TypeOK <=> OutputType /\ GroupType /\ EndingType /\ ResultType
    /\ TypeOK' <=> OutputType' /\ GroupType' /\ EndingType' /\ ResultType'
BY DEF TypeOK, OutputType, GroupType, EndingType, ResultType

\* Where a stream stands is within it.
LEMMA PositionType ==
    ASSUME TypeOK, NEW s \in Streams
    PROVE  /\ text[s] \in Seq(Char) /\ Len(text[s]) \in Nat
           /\ written[s] \in Nat /\ read[s] \in Nat /\ flushed[s] \in Nat
           /\ flushed[s] <= read[s] /\ read[s] <= written[s]
           /\ written[s] <= Len(text[s])
BY DEF TypeOK

LEMMA PartsKept ==
    /\ OutputType /\ UNCHANGED output => OutputType'
    /\ GroupType /\ UNCHANGED group => GroupType'
    /\ EndingType /\ UNCHANGED ending => EndingType'
    /\ ResultType /\ UNCHANGED result => ResultType'
<1>1. OutputType /\ UNCHANGED output => OutputType'
  BY DEF OutputType, output
<1>2. GroupType /\ UNCHANGED group => GroupType'
  BY DEF GroupType, group
<1>3. EndingType /\ UNCHANGED ending => EndingType'
  BY DEF EndingType, ending
<1>4. ResultType /\ UNCHANGED result => ResultType'
  BY DEF ResultType, result
<1> QED
  BY <1>1, <1>2, <1>3, <1>4

LEMMA InitType == Init => TypeOK
<1> SUFFICES ASSUME Init PROVE TypeOK
  OBVIOUS
<1>1. text \in [Streams -> Seq(Char)]
  <2>1. <<>> \in Seq(Char)
    OBVIOUS
  <2>2. [Streams -> {<<>>}] \subseteq [Streams -> Seq(Char)]
    BY <2>1
  <2> QED
    BY <2>2, GuardedRunAssumption DEF Init
<1>2. \A s \in Streams : Len(text[s]) \in Nat
  BY <1>1
<1>3. OutputType
  BY <1>1, <1>2 DEF Init, OutputType
<1>4. GroupType /\ EndingType /\ ResultType
  BY DEF Init, GroupType, EndingType, ResultType, NoScan, Terminations
<1> QED
  BY <1>3, <1>4, TypeParts

LEMMA ProcessesType ==
    ASSUME TypeOK,
           \/ Spawn \/ SpawnFails \/ ReapLeader
           \/ \E p, q \in Procs : Fork(p, q)
           \/ \E p \in Procs : Exit(p) \/ Reap(p)
    PROVE  TypeOK'
<1> USE TypeParts, PartsKept
<1>1. CASE SpawnFails
  BY <1>1 DEF SpawnFails, ResultType
<1>2. CASE Spawn
  <2>1. GroupType'
    BY <1>2, GuardedRunAssumption DEF Spawn, GroupType, Set, Born
  <2> QED
    BY <1>2, <2>1 DEF Spawn
<1>3. CASE ReapLeader
  <2>1. GroupType'
    BY <1>3, GuardedRunAssumption DEF ReapLeader, GroupType, Set
  <2> QED
    BY <1>3, <2>1 DEF ReapLeader
<1>4. ASSUME NEW p \in Procs, NEW q \in Procs, Fork(p, q) PROVE TypeOK'
  <2>1. GroupType'
    BY <1>4, GuardedRunAssumption DEF Fork, GroupType, Set, Born
  <2>2. EndingType'
    BY <1>4 DEF Fork, EndingType
  <2> QED
    BY <1>4, <2>1, <2>2 DEF Fork
<1>5. ASSUME NEW p \in Procs, Exit(p) \/ Reap(p) PROVE TypeOK'
  <2>1. GroupType'
    BY <1>5 DEF Exit, Reap, GroupType, Set
  <2> QED
    BY <1>5, <2>1 DEF Exit, Reap
<1> QED
  BY <1>1, <1>2, <1>3, <1>4, <1>5

\* A termination that begins.
LEMMA TerminateType ==
    ASSUME GroupType, EndingType, NEW r \in Terminations, Terminate(r),
           UNCHANGED <<kind, proc, late, scan, missed>>
    PROVE  GroupType' /\ EndingType'
BY DEF GroupType, EndingType, Terminate, Reachable, Live

\* Signalling the group ends the run at most as an error, and then the child
\* cannot be signalled.
LEMMA SignalOutcome ==
    ASSUME SignalChildTree
    PROVE  outcome' = outcome \/ (outcome' = "error" /\ Unsignallable)
BY DEF SignalChildTree, ChildRefuses

\* A look that decides something.
LEMMA DecisionType ==
    ASSUME GroupType, EndingType, NEW r,
           \/ NotYet(r)
           \/ \E phase \in {"done", "failed"} : Enter(r, phase) /\ UNCHANGED proc,
           UNCHANGED <<kind, termed>>
    PROVE  /\ GroupType'
           /\ term' \in [Terminations -> {"off", "grace", "forced", "done", "failed"}]
           /\ late' \in [Terminations -> BOOLEAN]
<1>1. GroupType'
  BY DEF GroupType, NotYet, Enter
<1>2. \/ UNCHANGED <<term, late>>
      \/ \E phase \in {"forced", "done", "failed"} : Enter(r, phase)
  BY DEF NotYet
<1>3. ASSUME NEW phase \in {"forced", "done", "failed"}, Enter(r, phase)
      PROVE  /\ term' \in [Terminations -> {"off", "grace", "forced", "done", "failed"}]
             /\ late' \in [Terminations -> BOOLEAN]
  BY <1>3 DEF Enter, EndingType
<1> QED
  BY <1>1, <1>2, <1>3 DEF EndingType

LEMMA TerminationType ==
    ASSUME TypeOK,
           \/ Signal \/ EndScan
           \/ \E p \in Procs : ReadStat(p)
           \/ \E r \in Terminations : TimePasses(r) \/ Look(r)
    PROVE  TypeOK'
<1> USE TypeParts, PartsKept
<1>1. CASE Signal
  <2>1. GroupType' /\ EndingType'
    BY <1>1, TerminateType DEF Signal, Terminations
  <2>2. outcome' \in {outcome, "error"}
    BY <1>1, SignalOutcome DEF Signal, Terminate
  <2> QED
    BY <1>1, <2>1, <2>2 DEF Signal, ResultType
<1>2. CASE EndScan
  <2>1. GroupType' /\ EndingType'
    <3>1. /\ GroupType'
          /\ term' \in [Terminations -> {"off", "grace", "forced", "done", "failed"}]
          /\ late' \in [Terminations -> BOOLEAN]
      BY <1>2, DecisionType DEF EndScan
    <3> QED
      BY <1>2, <3>1 DEF EndScan, EndingType, NoScan
  <2>2. outcome' \in {outcome, "error"}
    BY <1>2, SignalOutcome DEF EndScan, NotYet
  <2> QED
    BY <1>2, <2>1, <2>2 DEF EndScan, ResultType
<1>3. ASSUME NEW p \in Procs, ReadStat(p) PROVE TypeOK'
  <2>1. CASE proc[p] = "live"
    <3>1. /\ GroupType'
          /\ term' \in [Terminations -> {"off", "grace", "forced", "done", "failed"}]
          /\ late' \in [Terminations -> BOOLEAN]
      BY <1>3, <2>1, DecisionType DEF ReadStat
    <3>2. scan' = NoScan /\ missed' = {}
      BY <1>3, <2>1 DEF ReadStat
    <3>3. EndingType'
      BY <3>1, <3>2 DEF EndingType, NoScan
    <3>4. outcome' \in {outcome, "error"}
      BY <1>3, <2>1, SignalOutcome DEF ReadStat, NotYet
    <3> QED
      BY <1>3, <3>1, <3>3, <3>4 DEF ReadStat, ResultType
  <2>2. CASE proc[p] # "live"
    <3>1. PICK z \in BOOLEAN :
             scan' = [scan EXCEPT !.left = scan.left \ {p}, !.zombies = z]
      BY <1>3, <2>2 DEF ReadStat
    <3>2. EndingType'
      BY <1>3, <2>2, <3>1 DEF ReadStat, EndingType
    <3>3. GroupType'
      BY <1>3, <2>2 DEF ReadStat, GroupType
    <3> QED
      BY <1>3, <2>2, <3>2, <3>3 DEF ReadStat, ResultType
  <2> QED
    BY <2>1, <2>2
<1>4. ASSUME NEW r \in Terminations, TimePasses(r) PROVE TypeOK'
  <2>1. EndingType'
    BY <1>4 DEF TimePasses, EndingType
  <2> QED
    BY <1>4, <2>1 DEF TimePasses
<1>5. ASSUME NEW r \in Terminations, Look(r) PROVE TypeOK'
  <2>1. EndingType'
    <3>1. CASE \E phase \in {"done", "failed"} : Enter(r, phase) /\ UNCHANGED <<scan, missed>>
      BY <3>1 DEF Enter, EndingType
    <3>2. CASE /\ scan' = [by |-> r, left |-> Members, zombies |-> FALSE]
               /\ missed' = {}
               /\ UNCHANGED <<term, late>>
      BY <3>2 DEF EndingType, Members
    <3> QED
      BY <1>5, <3>1, <3>2 DEF Look
  <2> QED
    BY <1>5, <2>1 DEF Look
<1> QED
  BY <1>1, <1>2, <1>3, <1>4, <1>5

\* Reading, and forwarding some of what was read.
LEMMA ForwardType ==
    ASSUME OutputType, UNCHANGED <<text, written, raw>>,
           read' \in [Streams -> Nat], flushed' \in [Streams -> Nat],
           \A s \in Streams : flushed'[s] <= read'[s] /\ read'[s] <= written[s],
           leak' \in Streams \cup {"none"}
    PROVE  OutputType'
BY DEF OutputType

\* What the close handler does besides ending the redactors.
LEMMA ClosesType ==
    ASSUME TypeOK, Closes PROVE closed' \in BOOLEAN /\ waits' \subseteq Terminations
BY DEF Closes

LEMMA StreamsType ==
    ASSUME TypeOK,
           \/ \E s \in Streams : Write(s) \/ \E hi \in 1 .. Len(text[s]) : Data(s, hi)
           \/ CloseAfterLeak \/ CloseClean \/ CloseLeaking \/ Settle
    PROVE  TypeOK'
<1> USE TypeParts, PartsKept
<1>1. ASSUME NEW s \in Streams, Write(s) PROVE TypeOK'
  <2>1. OutputType'
    BY <1>1 DEF Write, OutputType
  <2> QED
    BY <1>1, <2>1 DEF Write, ending, result
<1>2. ASSUME NEW s \in Streams, NEW hi \in 1 .. Len(text[s]), Data(s, hi) PROVE TypeOK'
  <2>1. /\ hi \in Nat /\ hi > read[s] /\ hi <= written[s]
        /\ read' = [read EXCEPT ![s] = hi] /\ UNCHANGED <<text, written, raw>>
    BY <1>2, PositionType DEF Data
  <2>2. /\ flushed' \in [Streams -> Nat] /\ leak' \in Streams \cup {"none"}
        /\ \/ flushed' = flushed
           \/ \E f \in flushed[s] .. hi : flushed' = [flushed EXCEPT ![s] = f]
    <3>1. /\ leak' \in {leak, s}
          /\ \/ flushed' = flushed
             \/ \E f \in flushed[s] .. hi : flushed' = [flushed EXCEPT ![s] = f]
      BY <1>2 DEF Data, Found, HandleLeak
    <3> QED
      BY <3>1, <2>1, PositionType DEF OutputType
  <2>3. OutputType'
    <3>1. read' \in [Streams -> Nat]
      BY <2>1 DEF OutputType
    <3>2. \A x \in Streams : flushed'[x] <= read'[x] /\ read'[x] <= written[x]
      <4> SUFFICES ASSUME NEW x \in Streams
                   PROVE  flushed'[x] <= read'[x] /\ read'[x] <= written[x]
        OBVIOUS
      <4>1. CASE x = s
        <5>1. read'[s] = hi
          BY <2>1 DEF OutputType
        <5>2. flushed'[s] = flushed[s] \/ flushed'[s] \in flushed[s] .. hi
          BY <2>2 DEF OutputType
        <5> QED
          BY <2>1, <4>1, <5>1, <5>2, PositionType
      <4>2. CASE x # s
        BY <2>1, <2>2, <4>2, PositionType DEF OutputType
      <4> QED
        BY <4>1, <4>2
    <3> QED
      BY <2>1, <2>2, <3>1, <3>2, ForwardType
  <2>4. GroupType' /\ EndingType'
    BY <1>2, TerminateType DEF Data, Found, HandleLeak, Terminations, group, ending
  <2>5. outcome' \in {outcome, "error"}
    BY <1>2, SignalOutcome DEF Data, Found, HandleLeak, Terminate
  <2>6. ResultType'
    BY <1>2, <2>5 DEF Data, ResultType
  <2> QED
    BY <2>3, <2>4, <2>6
<1>3. CASE CloseAfterLeak \/ CloseClean
  <2>1. OutputType'
    <3>1. flushed' \in {flushed, written} /\ read' = written /\ UNCHANGED <<text, written, raw, leak>>
      BY <1>3 DEF CloseAfterLeak, CloseClean, Closes
    <3> QED
      BY <3>1 DEF OutputType
  <2>2. GroupType' /\ EndingType'
    BY <1>3 DEF CloseAfterLeak, CloseClean, Closes, group, ending
  <2>3. outcome' \in {"none", "exit", "leak", "error"} /\ unconfirmed' \in BOOLEAN
    BY <1>3 DEF CloseAfterLeak, CloseClean, Closes, ResultType
  <2> QED
    BY <1>3, <2>1, <2>2, <2>3, ClosesType DEF CloseAfterLeak, CloseClean, ResultType
<1>4. CASE CloseLeaking
  <2>1. OutputType'
    <3>1. read' = written /\ UNCHANGED <<text, written, raw>>
      BY <1>4 DEF CloseLeaking, Closes
    <3>2. /\ flushed' \in [Streams -> Nat] /\ leak' \in Streams
          /\ \A x \in Streams : flushed'[x] <= written[x]
      <4>1. CASE Found("stdout", written["stdout"])
        BY <4>1, PositionType DEF Found, HandleLeak, OutputType, Streams
      <4>2. CASE ~Found("stdout", written["stdout"])
        BY <1>4, <4>2, PositionType DEF CloseLeaking, HandleLeak, OutputType, Streams
      <4> QED
        BY <4>1, <4>2
    <3> QED
      BY <3>1, <3>2 DEF OutputType
  <2>2. GroupType' /\ EndingType'
    BY <1>4, TerminateType
       DEF CloseLeaking, Closes, Found, HandleLeak, Terminations
  <2>3. outcome' \in {outcome, "error"} /\ unconfirmed' = unconfirmed
    BY <1>4, SignalOutcome DEF CloseLeaking, Closes, Found, HandleLeak, Terminate
  <2>4. closed' \in BOOLEAN /\ waits' \subseteq Terminations
    BY <1>4, ClosesType DEF CloseLeaking
  <2> QED
    BY <2>1, <2>2, <2>3, <2>4 DEF ResultType
<1>5. CASE Settle
  <2>1. outcome' \in {"exit", "leak", "error"} /\ unconfirmed' \in BOOLEAN
    BY <1>5 DEF Settle
  <2>2. ResultType'
    BY <1>5, <2>1 DEF Settle, ResultType
  <2> QED
    BY <1>5, <2>2 DEF Settle
<1> QED
  BY <1>1, <1>2, <1>3, <1>4, <1>5

LEMMA NextType == TypeOK /\ [Next]_vars => TypeOK'
<1> SUFFICES ASSUME TypeOK, [Next]_vars PROVE TypeOK'
  OBVIOUS
<1>1. CASE UNCHANGED vars
  BY <1>1, TypeParts, PartsKept DEF vars
<1>2. CASE Next
  BY <1>2, ProcessesType, TerminationType, StreamsType DEF Next
<1> QED
  BY <1>1, <1>2

(* Every position on a stream is within what was read, that within what    *)
(* was written, and that within the text; and the rest is of its type.     *)
THEOREM TypeCorrect == Spec => []TypeOK
<1> QED
  BY InitType, NextType, PTL DEF Spec

----------------------------------------------------------------------------
(* The streams                                                             *)

\* Up to a leak there is no secret in what was read, and what could still
\* become one is held back; after it there is none in what was forwarded.
Searched(s) ==
    /\ leak = "none" => /\ Matches(text[s], 0, read[s]) = {}
                        /\ ~closed => HeldBack(text[s], flushed[s], read[s])
    /\ leak # "none" => Matches(text[s], 0, flushed[s]) = {}

StreamInv == \A s \in Streams : Searched(s)

LEMMA InitStream == Init => StreamInv
<1> SUFFICES ASSUME Init, NEW s \in Streams PROVE Searched(s)
  BY DEF StreamInv
<1>1. leak = "none" /\ read[s] = 0 /\ flushed[s] = 0
  BY DEF Init
<1>2. HeldBack(text[s], 0, 0)
  BY DEF HeldBack
<1> QED
  BY <1>1, <1>2, NoMatchAtStart DEF Searched

\* What was forwarded holds no secret, whether there was a leak or not.
LEMMA ForwardedIsSafe ==
    ASSUME TypeOK, NEW s \in Streams, Searched(s)
    PROVE  Matches(text[s], 0, flushed[s]) = {}
BY PositionType, FewerMatches DEF Searched

\* A stream of which nothing is read or forwarded.
LEMMA StreamKept ==
    ASSUME TypeOK, NEW s \in Streams, Searched(s), text' = text,
           flushed'[s] = flushed[s],
           leak' # "none" \/ (leak' = leak /\ read'[s] = read[s] /\ closed' = closed)
    PROVE  Searched(s)'
BY ForwardedIsSafe DEF Searched

\* A stream on which a secret is found.
LEMMA StreamFound ==
    ASSUME TypeOK, NEW s \in Streams, Searched(s), leak = "none", ~closed,
           NEW hi \in Nat, read[s] <= hi, text' = text, leak' # "none",
           NEW f \in flushed[s] .. hi, FirstMatch(text[s], flushed[s], hi, f),
           flushed'[s] = f
    PROVE  Searched(s)'
<1>1. Matches(text[s], 0, f) = {}
  BY PositionType, NothingBeforeFirst DEF Searched
<1> QED
  BY <1>1 DEF Searched

\* A stream that is clean up to hi.
LEMMA StreamClean ==
    ASSUME TypeOK, NEW s \in Streams, Searched(s), leak = "none", ~closed,
           NEW hi \in Nat, read[s] <= hi, Clean(s, hi)
    PROVE  /\ Matches(text[s], 0, hi) = {}
           /\ \A f \in flushed[s] .. hi :
                 /\ Matches(text[s], 0, f) = {}
                 /\ Forwarded(s, hi, f) => HeldBack(text[s], f, hi)
<1>1. Matches(text[s], 0, hi) = {}
  BY PositionType, CleanMeansClean DEF Searched, Clean
<1>2. ASSUME NEW f \in flushed[s] .. hi
      PROVE  /\ Matches(text[s], 0, f) = {}
             /\ Forwarded(s, hi, f) => HeldBack(text[s], f, hi)
  <2>1. f \in Nat /\ f <= hi
    BY <1>2, PositionType
  <2> QED
    BY <1>1, <2>1, PositionType, FewerMatches, CarryHoldsBack DEF Searched, Forwarded
<1> QED
  BY <1>1, <1>2

LEMMA DataStream ==
    ASSUME TypeOK, StreamInv, NEW s \in Streams, NEW hi \in 1 .. Len(text[s]), Data(s, hi)
    PROVE  StreamInv'
<1> SUFFICES ASSUME NEW x \in Streams PROVE Searched(x)'
  BY DEF StreamInv
<1>1. /\ hi \in Nat /\ read[s] <= hi /\ ~closed /\ closed' = closed /\ text' = text
      /\ read' = [read EXCEPT ![s] = hi] /\ read'[s] = hi /\ Searched(s) /\ Searched(x)
  BY PositionType DEF Data, StreamInv, result, OutputType, TypeOK
<1>2. CASE leak # "none"
  BY <1>1, <1>2, StreamKept DEF Data
<1>3. CASE leak = "none" /\ Found(s, hi)
  <2>1. PICK f \in flushed[s] .. hi :
           FirstMatch(text[s], flushed[s], hi, f) /\ flushed' = [flushed EXCEPT ![s] = f]
    BY <1>3 DEF Found
  <2>2. leak' # "none"
    BY <1>3 DEF Found, HandleLeak, Streams
  <2>3. CASE x = s
    <3>1. flushed'[s] = f
      BY <2>1 DEF TypeOK
    <3> QED
      BY <1>1, <1>3, <2>1, <2>2, <2>3, <3>1, StreamFound
  <2>4. CASE x # s
    <3>1. flushed'[x] = flushed[x]
      BY <2>1, <2>4 DEF TypeOK
    <3> QED
      BY <1>1, <2>2, <3>1, StreamKept
  <2> QED
    BY <2>3, <2>4
<1>4. CASE leak = "none" /\ leak' = leak /\ Clean(s, hi)
           /\ \E f \in flushed[s] .. hi :
                 Forwarded(s, hi, f) /\ flushed' = [flushed EXCEPT ![s] = f]
  <2>1. PICK f \in flushed[s] .. hi :
           Forwarded(s, hi, f) /\ flushed' = [flushed EXCEPT ![s] = f]
    BY <1>4
  <2>2. CASE x = s
    <3>1. flushed'[s] = f
      BY <2>1 DEF TypeOK
    <3>2. Matches(text[s], 0, hi) = {} /\ HeldBack(text[s], f, hi)
      BY <1>1, <1>4, <2>1, StreamClean
    <3> QED
      BY <1>1, <1>4, <2>2, <3>1, <3>2 DEF Searched
  <2>3. CASE x # s
    <3>1. flushed'[x] = flushed[x] /\ read'[x] = read[x]
      BY <1>1, <2>1, <2>3 DEF TypeOK
    <3> QED
      BY <1>1, <1>4, <3>1, StreamKept
  <2> QED
    BY <2>2, <2>3
<1> QED
  BY <1>2, <1>3, <1>4 DEF Data

LEMMA CloseStream ==
    ASSUME TypeOK, StreamInv, CloseAfterLeak \/ CloseClean \/ CloseLeaking
    PROVE  StreamInv'
<1> SUFFICES ASSUME NEW x \in Streams PROVE Searched(x)'
  BY DEF StreamInv
<1>1. /\ text' = text /\ read' = written /\ ~closed /\ closed'
      /\ \A s \in Streams : Searched(s) /\ written[s] \in Nat /\ read[s] <= written[s]
  BY PositionType DEF CloseAfterLeak, CloseClean, CloseLeaking, Closes, StreamInv
<1>2. CASE CloseAfterLeak
  BY <1>1, <1>2, StreamKept DEF CloseAfterLeak
<1>3. CASE CloseClean
  <2>1. leak = "none" /\ leak' = leak /\ Clean(x, written[x])
    BY <1>3 DEF CloseClean
  <2>2. Matches(text[x], 0, written[x]) = {}
    BY <1>1, <2>1, StreamClean
  <2> QED
    BY <1>1, <2>1, <2>2 DEF Searched
<1>4. CASE leak = "none" /\ Found("stdout", written["stdout"])
  <2>1. leak' # "none" /\ "stdout" \in Streams
    BY <1>4 DEF Found, HandleLeak, Streams
  <2>2. PICK f \in flushed["stdout"] .. written["stdout"] :
           /\ FirstMatch(text["stdout"], flushed["stdout"], written["stdout"], f)
           /\ flushed' = [flushed EXCEPT !["stdout"] = f]
    BY <1>4 DEF Found
  <2>3. CASE x = "stdout"
    <3>1. flushed'["stdout"] = f
      BY <2>1, <2>2 DEF TypeOK
    <3> QED
      BY <1>1, <1>4, <2>1, <2>2, <2>3, <3>1, StreamFound
  <2>4. CASE x # "stdout"
    <3>1. flushed'[x] = flushed[x]
      BY <2>2, <2>4 DEF TypeOK
    <3> QED
      BY <1>1, <2>1, <3>1, StreamKept
  <2> QED
    BY <2>3, <2>4
<1>5. CASE CloseLeaking /\ ~Found("stdout", written["stdout"])
  <2>1. /\ leak = "none" /\ leak' # "none" /\ Clean("stdout", written["stdout"])
        /\ "stdout" \in Streams /\ "stderr" \in Streams
    BY <1>5 DEF CloseLeaking, HandleLeak, Streams
  <2>2. PICK f \in flushed["stdout"] .. written["stdout"],
             i \in flushed["stderr"] .. written["stderr"] :
           /\ Forwarded("stdout", written["stdout"], f)
           /\ FirstMatch(text["stderr"], flushed["stderr"], written["stderr"], i)
           /\ flushed' = [flushed EXCEPT !["stdout"] = f, !["stderr"] = i]
    BY <1>5 DEF CloseLeaking
  <2>3. flushed'["stdout"] = f /\ flushed'["stderr"] = i
    BY <2>1, <2>2 DEF TypeOK
  <2>4. CASE x = "stdout"
    <3>1. Matches(text[x], 0, f) = {}
      BY <1>1, <2>1, <2>2, <2>4, StreamClean
    <3> QED
      BY <1>1, <2>1, <2>3, <2>4, <3>1 DEF Searched
  <2>5. CASE x = "stderr"
    BY <1>1, <2>1, <2>2, <2>3, <2>5, StreamFound
  <2> QED
    BY <2>4, <2>5 DEF Streams
<1> QED
  BY <1>2, <1>3, <1>4, <1>5 DEF CloseLeaking

\* Nothing else reads or forwards.
LEMMA OthersKeepStreams ==
    ASSUME [Next]_vars,
           ~(\E s \in Streams : \E hi \in 1 .. Len(text[s]) : Data(s, hi)),
           ~(CloseAfterLeak \/ CloseClean \/ CloseLeaking)
    PROVE  UNCHANGED <<text, read, flushed, leak, raw, closed>>
BY DEF Next, vars, output, result, Spawn, SpawnFails, ReapLeader, Signal, Fork, Exit, Reap,
       ReadStat, Write, Settle, TimePasses, Look, EndScan

LEMMA NextStream == TypeOK /\ StreamInv /\ [Next]_vars => StreamInv'
<1> SUFFICES ASSUME TypeOK, StreamInv, [Next]_vars PROVE StreamInv'
  OBVIOUS
<1>1. CASE UNCHANGED <<text, read, flushed, leak, raw, closed>>
  BY <1>1 DEF StreamInv, Searched
<1> QED
  BY <1>1, DataStream, CloseStream, OthersKeepStreams

----------------------------------------------------------------------------
(* The close handler, the looks at the group, and the outcome              *)

\* Once the close handler has run nobody writes any more.
CloseInv ==
    closed =>
        /\ proc[Leader] = "gone" /\ (raw \/ \A p \in Live : ~Is(p, "pipes"))
        /\ leak = "none" => \A s \in Streams : read[s] = written[s] /\ flushed[s] = written[s]

\* Whatever is alive in the group is still to be looked at, or came later.
ScanInv ==
    scan # NoScan =>
        /\ scan.by \in Terminations /\ Polling(scan.by)
        /\ outcome = "none" /\ proc[Leader] # "unborn"
        /\ \A p \in Live : Is(p, "group") => p \in scan.left \cup missed

\* The terminations that the outcome waits for.
OutcomeInv ==
    /\ leak = "none" => term["leak"] = "off"
    /\ closed /\ outcome = "none" /\ leak = "none" => "relay" \in waits
    /\ outcome = "exit" => closed /\ leak = "none" /\ term["relay"] \in {"off", "done"}
    /\ proc[Leader] = "unborn" => leak = "none"
    /\ outcome # "none" /\ leak # "none" =>
          outcome = "leak" \/ (outcome = "error" /\ Unsignallable)

Inv == TypeOK /\ StreamInv /\ CloseInv /\ ScanInv /\ OutcomeInv

LEMMA InitOthers == Init => CloseInv /\ ScanInv /\ OutcomeInv
BY DEF Init, CloseInv, ScanInv, OutcomeInv, Terminations

Closing == CloseAfterLeak \/ CloseClean \/ CloseLeaking

\* Processes are not born with pipes that no process has.
LEMMA NoNewPipes ==
    ASSUME TypeOK, [Next]_vars, proc[Leader] = "gone", \A p \in Live : ~Is(p, "pipes")
    PROVE  proc'[Leader] = "gone" /\ \A p \in Live' : ~Is(p, "pipes")'
<1>1. CASE UNCHANGED <<proc, kind>>
  BY <1>1 DEF Live, Is
<1>2. ASSUME NEW p \in Procs, NEW q \in Procs, Fork(p, q)
      PROVE  proc'[Leader] = "gone" /\ \A x \in Live' : ~Is(x, "pipes")'
  <2>1. PICK k \in Kinds : k \cap {"group", "pipes"} \subseteq kind[p] /\ Born(q, k)
    BY <1>2 DEF Fork
  <2>2. "pipes" \notin k /\ q # Leader
    BY <1>2, <2>1 DEF Fork, Is
  <2>3. proc'[Leader] = "gone"
    BY <2>1, <2>2 DEF Born, Set, TypeOK
  <2>4. ASSUME NEW x \in Live' PROVE ~Is(x, "pipes")'
    <3>1. CASE x = q
      BY <2>1, <2>2, <3>1 DEF Born, Set, TypeOK, Is
    <3>2. CASE x # q
      BY <2>1, <2>4, <3>2 DEF Born, Set, TypeOK, Is, Live
    <3> QED
      BY <3>1, <3>2
  <2> QED
    BY <2>3, <2>4
<1>3. CASE kind' = kind /\ proc'[Leader] = "gone" /\ Live' \subseteq Live
  BY <1>3 DEF Is
<1>4. CASE Spawn
  BY <1>4 DEF Spawn
<1>5. CASE \/ ReapLeader \/ EndScan
           \/ \E p \in Procs : Exit(p) \/ Reap(p) \/ ReadStat(p)
  <2>1. /\ kind' = kind
        /\ \/ proc' = proc
           \/ \E p \in Procs : \E state \in {"zombie", "gone"} :
                 proc' = [proc EXCEPT ![p] = state] /\ (p # Leader \/ state = "gone")
           \/ proc' = [p \in Procs |-> IF p \in Reachable THEN "zombie" ELSE proc[p]]
    BY <1>5, GuardedRunAssumption
       DEF ReapLeader, EndScan, Exit, Reap, ReadStat, Set, NotYet, Enter, Live, Running
  <2>2. proc'[Leader] = "gone"
    BY <2>1, GuardedRunAssumption DEF TypeOK, Reachable, Live
  <2>3. Live' \subseteq Live
    BY <2>1 DEF TypeOK, Live
  <2> QED
    BY <1>3, <2>1, <2>2, <2>3
<1>6. CASE \/ SpawnFails \/ Signal \/ Closing \/ Settle \/ UNCHANGED vars
           \/ \E s \in Streams : Write(s) \/ \E hi \in 1 .. Len(text[s]) : Data(s, hi)
           \/ \E r \in Terminations : TimePasses(r) \/ Look(r)
  BY <1>1, <1>6
     DEF SpawnFails, Signal, Closing, CloseAfterLeak, CloseClean, CloseLeaking, Closes, Settle,
         Write, Data, TimePasses, Look, vars, group
<1> QED
  BY <1>2, <1>4, <1>5, <1>6 DEF Next, Closing

LEMMA LeaderStaysGone ==
    ASSUME TypeOK, [Next]_vars, proc[Leader] = "gone"
    PROVE  proc'[Leader] = "gone"
<1>1. \/ proc' = proc
      \/ \E p \in Procs : \E state \in {"live", "zombie", "gone"} :
            proc' = [proc EXCEPT ![p] = state] /\ p # Leader
      \/ proc' = [p \in Procs |-> IF p \in Reachable THEN "zombie" ELSE proc[p]]
  BY GuardedRunAssumption
     DEF Next, vars, output, group, result, Spawn, SpawnFails, ReapLeader, Signal, Fork, Exit,
         Reap, Set, Born, ReadStat, NotYet, Enter, Write, Data, CloseAfterLeak, CloseClean,
         CloseLeaking, Closes, Settle, TimePasses, Look, EndScan, Live, Running
<1> QED
  BY <1>1, GuardedRunAssumption DEF TypeOK, Reachable, Live

LEMMA NextClose == Inv /\ [Next]_vars => CloseInv'
<1> SUFFICES ASSUME Inv, [Next]_vars, closed' PROVE CloseInv'
  BY DEF CloseInv
<1>1. CASE ~closed
  <2>1. Closing
    BY <1>1, OthersKeepStreams DEF Closing, Data, result
  <2>2. /\ proc' = proc /\ kind' = kind /\ raw' = raw
        /\ written' = written /\ read' = written
        /\ proc[Leader] = "gone" /\ (raw \/ \A p \in Live : ~Is(p, "pipes"))
    BY <2>1 DEF Closing, CloseAfterLeak, CloseClean, CloseLeaking, Closes
  <2>3. leak' = "none" => flushed' = written
    BY <2>1 DEF Closing, CloseAfterLeak, CloseClean, CloseLeaking, Found, HandleLeak, Streams
  <2> QED
    BY <2>2, <2>3 DEF CloseInv, Live, Is
<1>2. CASE closed
  <2>1. UNCHANGED <<text, read, flushed, leak, raw, closed>>
    BY <1>2, OthersKeepStreams
       DEF Data, CloseAfterLeak, CloseClean, CloseLeaking, Closes
  <2>2. proc'[Leader] = "gone"
    <3>1. CASE raw
      BY <1>2, <3>1, LeaderStaysGone DEF Inv, CloseInv
    <3>2. CASE ~raw
      BY <1>2, <3>2, NoNewPipes DEF Inv, CloseInv
    <3> QED
      BY <3>1, <3>2
  <2>3. raw' \/ \A p \in Live' : ~Is(p, "pipes")'
    BY <1>2, <2>1, NoNewPipes DEF Inv, CloseInv
  <2>4. written' = written
    <3>1. ASSUME NEW s \in Streams, Write(s) PROVE FALSE
      BY <1>2, <3>1 DEF Write, Inv, CloseInv
    <3> QED
      BY <1>2, <3>1
         DEF Next, vars, output, result, Spawn, SpawnFails, ReapLeader, Signal, Fork, Exit,
             Reap, ReadStat, Data, CloseAfterLeak, CloseClean, CloseLeaking, Closes, Settle,
             TimePasses, Look, EndScan
  <2> QED
    BY <1>2, <2>1, <2>2, <2>3, <2>4 DEF Inv, CloseInv
<1> QED
  BY <1>1, <1>2

\* The members of the group that are alive are the same, or fewer.
LEMMA FewerMembers ==
    ASSUME ScanInv, scan # NoScan, scan' = scan, missed' = missed, kind' = kind,
           Live' \subseteq Live, Polling(scan.by)', outcome' = "none",
           proc'[Leader] # "unborn"
    PROVE  ScanInv'
BY DEF ScanInv, Is

LEMMA NextScan == Inv /\ [Next]_vars => ScanInv'
<1> SUFFICES ASSUME Inv, [Next]_vars, scan' # NoScan PROVE ScanInv'
  BY DEF ScanInv
<1>0. TypeOK /\ ScanInv
  BY DEF Inv
<1>1. ASSUME NEW r \in Terminations, Look(r) PROVE ScanInv'
  <2>1. /\ scan' = [by |-> r, left |-> Members, zombies |-> FALSE] /\ term' = term
        /\ Polling(r) /\ outcome' = "none" /\ proc' = proc /\ kind' = kind
        /\ proc[Leader] # "unborn"
    BY <1>1 DEF Look, Running, group, result
  <2>2. scan'.by = r /\ scan'.left = Members
    BY <2>1
  <2>3. \A p \in Live' : Is(p, "group")' => p \in Members
    BY <2>1 DEF Live, Is, Members
  <2>4. Polling(r)'
    BY <2>1 DEF Polling
  <2> QED
    BY <2>1, <2>2, <2>3, <2>4 DEF ScanInv
<1>2. ASSUME NEW p \in Procs, NEW q \in Procs, Fork(p, q) PROVE ScanInv'
  <2>1. PICK k \in Kinds : Born(q, k)
    BY <1>2 DEF Fork
  <2>2. /\ scan' = scan /\ term' = term /\ outcome' = outcome /\ missed' = missed \cup {q}
        /\ q # Leader
    BY <1>2 DEF Fork, result
  <2>3. proc'[Leader] = proc[Leader]
    BY <2>1, <2>2, GuardedRunAssumption DEF Born, Set, TypeOK, Inv
  <2>4. ASSUME NEW x \in Live', Is(x, "group")', x # q PROVE x \in Live /\ Is(x, "group")
    BY <1>0, <2>1, <2>4 DEF Born, Set, TypeOK, Is, Live
  <2> QED
    BY <1>0, <2>2, <2>3, <2>4 DEF ScanInv, Polling
<1>3. ASSUME NEW p \in Procs, ReadStat(p) PROVE ScanInv'
  <2>1. /\ proc[p] # "live" /\ UNCHANGED <<term, proc, kind, missed, outcome>>
        /\ scan # NoScan
    BY <1>3 DEF ReadStat, result, NoScan
  <2>2. scan'.by = scan.by /\ scan'.left = scan.left \ {p}
    BY <1>0, <1>3, <2>1 DEF ReadStat, TypeOK
  <2> QED
    BY <1>0, <2>1, <2>2 DEF ScanInv, Polling, Live, Is
<1>4. ASSUME NEW p \in Procs, Exit(p) \/ Reap(p) PROVE ScanInv'
  <2>1. /\ UNCHANGED <<scan, missed, kind, term, outcome>>
        /\ \E state \in {"zombie", "gone"} : proc' = [proc EXCEPT ![p] = state]
    BY <1>4 DEF Exit, Reap, Set, ending, result
  <2>2. Live' \subseteq Live /\ (proc[Leader] # "unborn" => proc'[Leader] # "unborn")
    BY <1>0, <2>1, GuardedRunAssumption DEF Live, TypeOK
  <2> QED
    BY <1>0, <2>1, <2>2, FewerMembers DEF ScanInv, Polling
<1>5. CASE UNCHANGED <<scan, missed, kind, proc, term, outcome>>
  BY <1>0, <1>5 DEF ScanInv, Live, Is, Polling
<1>6. CASE Spawn \/ SpawnFails
  <2>1. scan = NoScan
    BY <1>0, <1>6 DEF ScanInv, Spawn, SpawnFails
  <2> QED
    BY <1>6, <2>1 DEF Spawn, SpawnFails, ending
<1>7. CASE ReapLeader \/ Signal \/ Closing \/ Settle
           \/ \E s \in Streams : \E hi \in 1 .. Len(text[s]) : Data(s, hi)
  BY <1>7 DEF ReapLeader, Signal, Closing, CloseAfterLeak, CloseClean, CloseLeaking, Closes,
              Settle, Data, Running, ending
<1>8. CASE EndScan
  BY <1>8 DEF EndScan
<1> QED
  BY <1>1, <1>2, <1>3, <1>4, <1>5, <1>6, <1>7, <1>8
     DEF Next, Closing, Write, TimePasses, vars, group, ending, result

\* The phases that a look can enter, and for which termination.
LEMMA PhaseSteps ==
    ASSUME Inv, [Next]_vars, NEW r \in Terminations, term'[r] # term[r]
    PROVE  /\ outcome = "none"
           /\ \/ Polling(r)
              \/ r = "relay" /\ Signal
              \/ r = "leak" /\ term'[r] = "grace" /\ leak' # "none"
<1>0. TypeOK /\ ScanInv
  BY DEF Inv
<1>1. CASE Signal
  BY <1>0, <1>1 DEF Signal, Running, Terminate, TypeOK
<1>2. ASSUME NEW x \in Terminations, Look(x) PROVE outcome = "none" /\ Polling(r)
  BY <1>0, <1>2 DEF Look, Running, Enter, TypeOK
<1>3. CASE EndScan \/ \E p \in Procs : ReadStat(p)
  <2>1. scan # NoScan
    <3>1. NoScan.left = {}
      BY DEF NoScan
    <3> QED
      BY <1>3, <3>1 DEF EndScan, ReadStat
  <2>2. \/ term' = term
        \/ \E phase \in {"forced", "done", "failed"} : Enter(scan.by, phase)
    BY <1>3 DEF EndScan, ReadStat, NotYet
  <2> QED
    BY <1>0, <2>1, <2>2 DEF ScanInv, Enter, TypeOK
<1>4. CASE term' = [term EXCEPT !["leak"] = "grace"] /\ leak' \in Streams /\ outcome = "none"
  BY <1>0, <1>4 DEF TypeOK, Streams
<1>5. CASE \/ Closing
           \/ \E s \in Streams : \E hi \in 1 .. Len(text[s]) : Data(s, hi)
  <2>1. term' = [term EXCEPT !["leak"] = "grace"] /\ leak' \in Streams /\ outcome = "none"
    BY <1>5 DEF Closing, CloseAfterLeak, CloseClean, CloseLeaking, Closes, Data, Found,
                HandleLeak, Terminate, Running, Streams
  <2> QED
    BY <1>4, <2>1
<1> QED
  BY <1>1, <1>2, <1>3, <1>5
     DEF Next, Closing, vars, ending, Spawn, SpawnFails, ReapLeader, Fork, Exit, Reap, Write,
         Settle, TimePasses

LEMMA LeakRemains ==
    ASSUME [Next]_vars, leak # "none" PROVE leak' # "none"
<1>1. CASE \E s \in Streams : \E hi \in 1 .. Len(text[s]) : Data(s, hi)
  BY <1>1 DEF Data
<1>2. CASE Closing
  BY <1>2 DEF Closing, CloseAfterLeak, CloseClean, CloseLeaking
<1> QED
  BY <1>1, <1>2, OthersKeepStreams DEF Closing

\* The outcome is the last thing that happens.
LEMMA OutcomeIsLast ==
    ASSUME ScanInv, [Next]_vars, outcome # "none"
    PROVE  UNCHANGED vars
<1>1. scan = NoScan
  BY DEF ScanInv
<1>2. NoScan.left = {}
  BY DEF NoScan
<1> QED
  BY <1>1, <1>2
     DEF Next, Spawn, SpawnFails, ReapLeader, Fork, Exit, Reap, Write, Signal, Data, ReadStat,
         CloseAfterLeak, CloseClean, CloseLeaking, Closes, Settle, TimePasses, Look, EndScan,
         Running

\* A child that refuses does not change by that.
LEMMA RefusalRemains ==
    ASSUME Unsignallable, kind' = kind,
           \/ proc' = proc
           \/ proc' = [p \in Procs |-> IF p \in Reachable THEN "zombie" ELSE proc[p]]
    PROVE  Unsignallable'
BY GuardedRunAssumption DEF Unsignallable, Is, Reachable

\* A run that ends after a leak ends as one, or with a child that refuses.
LEMMA LeakIsReported ==
    ASSUME Inv, [Next]_vars, outcome = "none", outcome' # "none", leak' # "none"
    PROVE  outcome' = "leak" \/ (outcome' = "error" /\ Unsignallable')
<1>0. TypeOK /\ ScanInv /\ OutcomeInv
  BY DEF Inv
<1>1. CASE \/ Signal \/ CloseLeaking
           \/ \E s \in Streams : \E hi \in 1 .. Len(text[s]) : Data(s, hi)
  <2>1. SignalChildTree /\ UNCHANGED <<kind, proc>>
    BY <1>1 DEF Signal, CloseLeaking, Closes, Data, Found, HandleLeak, Terminate
  <2> QED
    BY <2>1, SignalOutcome, RefusalRemains
<1>2. CASE EndScan \/ \E p \in Procs : ReadStat(p)
  <2>1. /\ SignalChildTree /\ kind' = kind
        /\ proc' = [p \in Procs |-> IF p \in Reachable THEN "zombie" ELSE proc[p]]
    BY <1>2 DEF EndScan, ReadStat, NotYet
  <2> QED
    BY <2>1, SignalOutcome, RefusalRemains
<1>3. CASE CloseAfterLeak \/ CloseClean \/ Settle
  BY <1>3 DEF CloseAfterLeak, CloseClean, Settle, output
<1>4. CASE SpawnFails
  BY <1>0, <1>4 DEF SpawnFails, OutcomeInv, output
<1>5. CASE UNCHANGED outcome
  BY <1>5
<1> QED
  BY <1>1, <1>2, <1>3, <1>4, <1>5
     DEF Next, vars, result, Spawn, ReapLeader, Fork, Exit, Reap, Write, TimePasses, Look

LEMMA LeaderStaysBorn ==
    ASSUME TypeOK, [Next]_vars, proc'[Leader] = "unborn"
    PROVE  proc[Leader] = "unborn"
<1>1. \/ proc' = proc
      \/ \E p \in Procs : \E state \in {"live", "zombie", "gone"} :
            proc' = [proc EXCEPT ![p] = state]
      \/ proc' = [p \in Procs |-> IF p \in Reachable THEN "zombie" ELSE proc[p]]
  BY GuardedRunAssumption
     DEF Next, vars, output, group, result, Spawn, SpawnFails, ReapLeader, Signal, Fork, Exit,
         Reap, Set, Born, ReadStat, NotYet, Enter, Write, Data, CloseAfterLeak, CloseClean,
         CloseLeaking, Closes, Settle, TimePasses, Look, EndScan, Live, Running
<1> QED
  BY <1>1, GuardedRunAssumption DEF TypeOK

LEMMA NextOutcome == Inv /\ [Next]_vars => OutcomeInv'
<1> SUFFICES ASSUME Inv, [Next]_vars PROVE OutcomeInv'
  OBVIOUS
<1>0. TypeOK /\ ScanInv /\ OutcomeInv /\ "relay" \in Terminations /\ "leak" \in Terminations
  BY DEF Inv, Terminations
<1>1. leak' = "none" => term'["leak"] = "off"
  BY <1>0, LeakRemains, PhaseSteps DEF OutcomeInv, Polling
<1>2. proc'[Leader] = "unborn" => leak' = "none"
  <2> SUFFICES ASSUME proc'[Leader] = "unborn" PROVE leak' = "none"
    OBVIOUS
  <2>1. proc[Leader] = "unborn" /\ leak = "none"
    BY <1>0, LeaderStaysBorn DEF OutcomeInv
  <2>2. ~Closing /\ ~\E s \in Streams : \E hi \in 1 .. Len(text[s]) : Data(s, hi)
    BY <2>1 DEF Closing, CloseAfterLeak, CloseClean, CloseLeaking, Closes, Data, Running
  <2> QED
    BY <2>1, <2>2, OthersKeepStreams DEF Closing
<1>3. outcome' # "none" /\ leak' # "none" =>
         outcome' = "leak" \/ (outcome' = "error" /\ Unsignallable')
  <2>1. CASE outcome = "none"
    BY <2>1, LeakIsReported
  <2>2. CASE outcome # "none"
    <3>1. UNCHANGED <<outcome, leak, proc, kind>>
      BY <1>0, <2>2, OutcomeIsLast DEF vars, output, group, result
    <3> QED
      BY <1>0, <2>2, <3>1 DEF OutcomeInv, Unsignallable, Is
  <2> QED
    BY <2>1, <2>2
<1>4. CASE CloseClean
  <2>1. /\ leak = "none" /\ leak' = leak /\ term' = term /\ outcome = "none" /\ closed'
        /\ waits' = {r \in Terminations : term[r] # "off"}
        /\ outcome' = IF waits' = {} THEN "exit" ELSE "none"
    BY <1>4 DEF CloseClean, Closes, Running
  <2>2. "leak" \notin waits'
    BY <1>0, <2>1 DEF OutcomeInv
  <2> QED
    BY <1>0, <1>1, <1>2, <1>3, <2>1, <2>2 DEF OutcomeInv, Terminations
<1>5. CASE CloseAfterLeak \/ CloseLeaking
  <2>1. leak' # "none"
    BY <1>5 DEF CloseAfterLeak, CloseLeaking, Closes, Found, HandleLeak, Streams
  <2> QED
    BY <1>2, <1>3, <2>1 DEF OutcomeInv
<1>6. CASE Settle
  <2>1. /\ closed /\ outcome = "none" /\ UNCHANGED <<leak, term, closed, waits>>
        /\ outcome' # "none"
        /\ outcome' = "exit" => leak = "none" /\ \A r \in waits : term[r] = "done"
    BY <1>6 DEF Settle, Running, output, ending
  <2> QED
    BY <1>0, <1>1, <1>2, <1>3, <2>1 DEF OutcomeInv
<1>7. CASE outcome = "none" /\ ~Closing /\ ~Settle
  <2>1. closed' = closed /\ waits' = waits
    BY <1>7
       DEF Next, Closing, vars, result, Spawn, SpawnFails, ReapLeader, Fork, Exit, Reap, Write,
           Signal, Data, ReadStat, TimePasses, Look, EndScan
  <2>2. outcome' \in {"none", "error"}
    BY <1>7
       DEF Next, Closing, vars, result, Spawn, SpawnFails, ReapLeader, Fork, Exit, Reap, Write,
           Signal, Terminate, SignalChildTree, Data, Found, HandleLeak, ReadStat, NotYet,
           TimePasses, Look, EndScan
  <2>3. leak' = "none" => leak = "none"
    BY LeakRemains
  <2> QED
    BY <1>0, <1>1, <1>2, <1>3, <1>7, <2>1, <2>2, <2>3 DEF OutcomeInv
<1>8. CASE outcome # "none"
  <2>1. UNCHANGED vars
    BY <1>0, <1>8, OutcomeIsLast
  <2> QED
    BY <1>0, <1>1, <1>2, <1>3, <2>1 DEF OutcomeInv, vars, output, ending, result
<1> QED
  BY <1>4, <1>5, <1>6, <1>7, <1>8 DEF Closing

LEMMA Invariance == Spec => []Inv
<1>1. Init => Inv
  BY InitType, InitStream, InitOthers DEF Inv
<1>2. Inv /\ [Next]_vars => Inv'
  BY NextType, NextStream, NextClose, NextScan, NextOutcome DEF Inv
<1> QED
  BY <1>1, <1>2, PTL DEF Spec

----------------------------------------------------------------------------
(* What was promised                                                       *)

(* No complete value that is looked for is forwarded, for all values and   *)
(* texts and however they are cut into chunks.                             *)
THEOREM NeverForwarded == Spec => []NoSecretForwarded
<1>1. Inv => NoSecretForwarded
  BY ForwardedIsSafe DEF Inv, StreamInv, NoSecretForwarded
<1> QED
  BY <1>1, Invariance, PTL

(* A run that ends like its child has forwarded all that was written, and  *)
(* there was no secret in it; and one in which there was ends as a leak,   *)
(* or as an error with a child that cannot be signalled.                   *)
THEOREM CompleteAtExit == Spec => []CleanExitIsComplete
<1>1. Inv => CleanExitIsComplete
  <2> SUFFICES ASSUME Inv PROVE CleanExitIsComplete
    OBVIOUS
  <2>1. ASSUME outcome = "exit", NEW s \in Streams
        PROVE  flushed[s] = written[s] /\ Matches(text[s], 0, written[s]) = {}
    <3>1. closed /\ leak = "none" /\ Searched(s)
      BY <2>1 DEF Inv, OutcomeInv, StreamInv
    <3> QED
      BY <3>1 DEF Inv, CloseInv, Searched
  <2>2. /\ outcome = "exit" => term["relay"] \in {"off", "done"}
        /\ outcome # "none" /\ leak # "none" =>
              outcome = "leak" \/ (outcome = "error" /\ Unsignallable)
    BY DEF Inv, OutcomeInv
  <2> QED
    BY <2>1, <2>2 DEF CleanExitIsComplete
<1> QED
  BY <1>1, Invariance, PTL

(* Nothing is forwarded on either stream after a value was found on one.   *)
THEOREM SilentAfter == Spec => SilentAfterLeak
<1>1. [Next]_vars => [leak # "none" => flushed' = flushed]_vars
  <2> SUFFICES ASSUME [Next]_vars, leak # "none" PROVE flushed' = flushed
    OBVIOUS
  <2>1. CASE \E s \in Streams : \E hi \in 1 .. Len(text[s]) : Data(s, hi)
    BY <2>1 DEF Data
  <2>2. CASE Closing
    BY <2>2 DEF Closing, CloseAfterLeak, CloseClean, CloseLeaking
  <2> QED
    BY <2>1, <2>2, OthersKeepStreams DEF Closing
<1> QED
  BY <1>1, PTL DEF Spec, SilentAfterLeak

(* Whenever the end of the group is confirmed, whoever is alive in it was  *)
(* forked after /proc was listed.                                          *)
THEOREM ConfirmedIsDead == Spec => ConfirmedMeansListedDead
<1> DEFINE Confirmed ==
             \A r \in Terminations : term'[r] = "done" /\ term[r] # "done"
                 => {p \in Live : Is(p, "group")}' \subseteq missed'
<1>1. Inv /\ [Next]_vars => [Confirmed]_vars
  <2> SUFFICES ASSUME Inv, [Next]_vars, NEW r \in Terminations,
                      term'[r] = "done", term[r] # "done"
               PROVE  {p \in Live : Is(p, "group")}' \subseteq missed'
    OBVIOUS
  <2>0. TypeOK /\ ScanInv
    BY DEF Inv
  <2>1. Polling(r)
    BY <2>0, PhaseSteps DEF Signal, Terminate, TypeOK
  <2>2. ASSUME NEW x \in Terminations, Look(x)
        PROVE  {p \in Live : Is(p, "group")}' = {}
    <3>1. Members = {} /\ proc' = proc /\ kind' = kind
      BY <2>0, <2>2 DEF Look, Enter, TypeOK, group
    <3> QED
      BY <3>1 DEF Members, Live, Is
  <2>3. CASE EndScan
    <3>1. /\ scan # NoScan /\ scan.left = {}
          /\ UNCHANGED <<proc, kind, missed>>
      BY <2>0, <2>1, <2>3 DEF EndScan, NotYet, Enter, TypeOK, Polling
    <3> QED
      BY <2>0, <3>1 DEF ScanInv, Live, Is
  <2>4. ASSUME NEW p \in Procs, ReadStat(p) PROVE FALSE
    <3>1. term' # term
      OBVIOUS
    <3>2. NotYet(scan.by)
      BY <2>4, <3>1 DEF ReadStat
    <3> QED
      BY <2>0, <3>2 DEF NotYet, Enter, TypeOK
  <2>5. CASE \/ Closing \/ Signal
             \/ \E s \in Streams : \E hi \in 1 .. Len(text[s]) : Data(s, hi)
    BY <2>0, <2>5
       DEF Closing, CloseAfterLeak, CloseClean, CloseLeaking, Closes, Data, Found,
           HandleLeak, Terminate, Signal, TypeOK
  <2> QED
    BY <2>2, <2>3, <2>4, <2>5
       DEF Next, Closing, vars, ending, Spawn, SpawnFails, ReapLeader, Fork, Exit, Reap, Write,
           Settle, TimePasses
<1> QED
  BY <1>1, Invariance, PTL DEF Spec, ConfirmedMeansListedDead
=============================================================================
