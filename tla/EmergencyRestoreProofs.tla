---------------------- MODULE EmergencyRestoreProofs ----------------------
(***************************************************************************)
(* What EmergencyRestore promises, proved for any number of files and of   *)
(* restores stacked on each other.  A directory is described by its        *)
(* history: for each restore begun, the directory it began over.  From     *)
(* that one and the journal follows where every file is, for the last      *)
(* restore begun whose journal is there; the older ones are among the      *)
(* files it took over, and describe the directory again once it is undone. *)
(***************************************************************************)
EXTENDS EmergencyRestore, FiniteSetTheorems, TLAPS

\* The phases a journal on disk or in memory may have.
Phases == {"staging", "publishing", "committed", "rollback"} \cup CleanupPhases

\* The vault directory, and what has happened to it.
Now == [disk |-> disk, dirs |-> dirs, current |-> current, count |-> begun]

\* The restores whose journal is in the directory itself, and the last of them.
JournalsOf(t) == {i \in 1..t.count : <<JournalOf(i)>> \in DOMAIN t.disk}
IsLatest(t, k) == k \in JournalsOf(t) /\ \A i \in JournalsOf(t) : i <= k

\* What a restore begun over t takes over: the files in the directory itself
\* and the files and directories of the transactions pending in it.
InPending(t, p) == \E i \in JournalsOf(t) : p[1] \in {StagingOf(i), PreviousOf(i)}
TakenOver(t) == {p \in DOMAIN t.disk : Len(p) = 1 \/ InPending(t, p)}
TakenDirectories(t) == {d \in t.dirs : InPending(t, d)}

\* Names, the ones that n restores can have made, and paths made of them.
Names == {"file", "journal", "temporary", "key", "staging", "previous"} \X Nat
DirectoryNames(n) == {"staging", "previous"} \X (1..n)
FileNames(n) == ({"file"} \X Managed) \cup ({"journal", "temporary", "key"} \X (1..n))

Path(p, n) ==
    /\ p \in Seq(Names) /\ p # <<>>
    /\ \A m \in 1..(Len(p) - 1) : p[m] \in DirectoryNames(n)

\* What a directory that at most t.count restores worked on can hold.
Typed(t) ==
    /\ t.count \in Nat /\ t.current \in 0..t.count
    /\ IsFiniteSet(DOMAIN t.disk) /\ IsFiniteSet(t.dirs)
    /\ \A p \in DOMAIN t.disk :
          /\ Path(p, t.count) /\ p[Len(p)] \in FileNames(t.count)
          /\ p[Len(p)][1] = "file" => \E i \in 0..t.count : t.disk[p] = Image(i)
    /\ \A d \in t.dirs :
          /\ Path(d, t.count) /\ d[Len(d)] \in DirectoryNames(t.count)
          /\ d[1][1] = "staging" => Len(d) = 1

\* Every file and directory is in a directory that is there.
Tree(t) == \A p \in DOMAIN t.disk \cup t.dirs : Len(p) > 1 => Front(p) \in t.dirs

\* An entry is a record of two fields, and the directories are a sequence.
IsEntry(e) == e = [path |-> e.path, content |-> e.content]
IsList(l) == l = [n \in 1..Len(l) |-> l[n]]

\* What the journal of the next restore begun over s records.
RecordOK(r, s) ==
    /\ r = [phase |-> r.phase, branch |-> r.branch, id |-> r.id,
             directories |-> r.directories, previous |-> r.previous]
    /\ r.id = s.count + 1
    /\ r.phase \in Phases /\ r.branch \in {"healthy", "damaged"}
    /\ DOMAIN r.previous = 1..Len(r.previous) /\ Len(r.previous) \in Nat
    /\ \A n \in DOMAIN r.previous :
          /\ r.previous[n].path \in TakenOver(s)
          /\ r.previous[n].content = s.disk[r.previous[n].path]
          /\ IsEntry(r.previous[n])
    /\ \A p \in TakenOver(s) : \E n \in DOMAIN r.previous : r.previous[n].path = p
    /\ DOMAIN r.directories = 1..Len(r.directories) /\ Len(r.directories) \in Nat
    /\ IsList(r.directories)
    /\ \A n \in DOMAIN r.directories : r.directories[n] \in TakenDirectories(s)
    /\ \A d \in TakenDirectories(s) : \E n \in DOMAIN r.directories : r.directories[n] = d
    /\ \A m, n \in DOMAIN r.directories :
          IsStrictPrefix(r.directories[m], r.directories[n]) => m < n
    /\ r.branch = "healthy" => JournalsOf(s) = {}

\* Every journal, wherever it was moved to, is the one its restore wrote over
\* the directory b holds for it.
RecordsOK(t, b) ==
    \A p \in DOMAIN t.disk : p[Len(p)][1] = "journal" => RecordOK(t.disk[p], b[p[Len(p)][2]])

\* With nothing pending the files are one image.
WholeOK(t) ==
    JournalsOf(t) = {} =>
        \A n \in Managed : <<File(n)>> \in DOMAIN t.disk /\ t.disk[<<File(n)>>] = Image(t.current)

\* Where a staging directory is, its journal is somewhere too.
LeftoversOK(t) ==
    \A d \in t.dirs : d[1][1] = "staging" =>
        \E p \in DOMAIN t.disk : p[Len(p)] = <<"journal", d[1][2]>>

\* The three places of a file p of s that the restore of r takes over.
Home(t, s, r, p) ==
    p \in DOMAIN t.disk /\ t.disk[p] = s.disk[p] /\ Kept(r, p) \notin DOMAIN t.disk
\* It was moved to the evidence, and a file of the backup may be in its place.
Away(t, s, r, p) ==
    /\ Kept(r, p) \in DOMAIN t.disk /\ t.disk[Kept(r, p)] = s.disk[p]
    /\ p \in DOMAIN t.disk => \E n \in Managed : p = <<File(n)>> /\ t.disk[p] = Image(r.id)
\* A temporary journal that recovery swept.
Gone(t, r, p) == OfTemporary(p) /\ p \notin DOMAIN t.disk /\ Kept(r, p) \notin DOMAIN t.disk

\* The two places of a file of the backup.
Ready(t, s, r, n) ==
    /\ Staged(r, n) \in DOMAIN t.disk /\ t.disk[Staged(r, n)] = Image(r.id)
    /\ <<File(n)>> \in DOMAIN t.disk =>
          t.disk[<<File(n)>>] # Image(r.id) /\ <<File(n)>> \in DOMAIN s.disk
\* A file of the backup that was moved to its place.
Published(t, r, n) ==
    /\ <<File(n)>> \in DOMAIN t.disk /\ t.disk[<<File(n)>>] = Image(r.id)
    /\ Staged(r, n) \notin DOMAIN t.disk

\* The directories a restore makes.
Wanted(r) == {<<StagingOf(r.id)>>, <<PreviousOf(r.id)>>}
                \cup {Kept(r, r.directories[n]) : n \in DOMAIN r.directories}

\* The files that are neither taken over nor of the restore stay what they are.
Frame(t, s, r) ==
    /\ IsFiniteSet(DOMAIN t.disk) /\ IsFiniteSet(t.dirs)
    /\ r.id <= t.count
    /\ \A p \in DOMAIN s.disk \ TakenOver(s) : p \in DOMAIN t.disk /\ t.disk[p] = s.disk[p]
    /\ \A p \in DOMAIN t.disk :
          \/ p \in DOMAIN s.disk
          \/ \E q \in TakenOver(s) : p = Kept(r, q)
          \/ \E n \in Managed : p \in {<<File(n)>>, Staged(r, n)}
          \/ \E i \in r.id..t.count : p \in {<<KeyOf(i)>>, <<TemporaryOf(i)>>}
          \/ p = <<JournalOf(r.id)>>
    /\ \A n \in Managed : Staged(r, n) \in DOMAIN t.disk => t.disk[Staged(r, n)] = Image(r.id)
    /\ t.dirs \subseteq s.dirs \cup Wanted(r)
    /\ \A d \in s.dirs : d \in t.dirs \/ (r.phase = "committed-cleanup" /\ d \in TakenDirectories(s))

\* Nothing was moved.
InStaging(t, s, r) ==
    /\ t.current = s.current
    /\ \A p \in TakenOver(s) : Home(t, s, r, p) \/ Gone(t, r, p)
    /\ \A n \in Managed : <<File(n)>> \in DOMAIN t.disk => <<File(n)>> \in DOMAIN s.disk

\* The vault's files go to the evidence before the first of the backup comes.
InExchange(t, s, r) ==
    /\ t.current = s.current
    /\ Wanted(r) \subseteq t.dirs
    /\ \A p \in TakenOver(s) : Home(t, s, r, p) \/ Away(t, s, r, p) \/ Gone(t, r, p)
    /\ \A n \in Managed : Ready(t, s, r, n) \/ Published(t, r, n)
    /\ (\E n \in Managed : Published(t, r, n)) => \A p \in TakenOver(s) : Away(t, s, r, p)

\* All was moved.
InCommitted(t, s, r) ==
    /\ t.current \in {s.current, r.id}
    /\ Wanted(r) \subseteq t.dirs
    /\ \A p \in TakenOver(s) : Away(t, s, r, p)
    /\ \A n \in Managed : Published(t, r, n)

\* The backup is in place; what was taken over is only in the evidence, and a
\* restore over a healthy vault unlinks it there.
InCleanup(t, s, r) ==
    /\ t.current = r.id
    /\ \A n \in Managed : <<File(n)>> \in DOMAIN t.disk /\ t.disk[<<File(n)>>] = Image(r.id)
    /\ \A p \in TakenOver(s) :
          /\ p \in DOMAIN t.disk => \E n \in Managed : p = <<File(n)>>
          /\ Kept(r, p) \in DOMAIN t.disk => t.disk[Kept(r, p)] = s.disk[p]
          /\ Kept(r, p) \in DOMAIN t.disk \/ r.branch = "healthy"

\* How far the restore of journal r, begun over the directory s, has come in t.
Progress(t, s, r) ==
    /\ Frame(t, s, r)
    /\ r.phase \in {"staging"} \cup UndonePhases => InStaging(t, s, r)
    /\ r.phase \in {"publishing", "rollback"} => InExchange(t, s, r)
    /\ r.phase = "committed" => InCommitted(t, s, r)
    /\ r.phase = "committed-cleanup" => InCleanup(t, s, r)

\* The last restore begun is the only one that moved anything since.
LatestOK(t, b) ==
    \A k \in JournalsOf(t) : IsLatest(t, k) =>
        /\ <<KeyOf(k)>> \in DOMAIN t.disk /\ t.disk[<<KeyOf(k)>>] = Whole
        /\ Progress(t, b[k], t.disk[<<JournalOf(k)>>])

\* A directory as some restores begun and interrupted can have left it, where
\* b gives for each of them the directory it began over.
SnapshotOK(t, b) ==
    Typed(t) /\ Tree(t) /\ RecordsOK(t, b) /\ WholeOK(t) /\ LeftoversOK(t) /\ LatestOK(t, b)

\* The directories the restores began over were such directories themselves.
HistoryOK(b) == \A i \in 1..begun : b[i].count = i - 1 /\ SnapshotOK(b[i], b)

----------------------------------------------------------------------------
\* The step the process has reached, or reaches once its journal is written.
Writing == pc \in {"persist", "publishJournal"}
At == IF Writing THEN then ELSE pc

\* Nothing of what the restore took over is lost, not even a temporary.
NoneGone(s) == \A p \in TakenOver(s) : ~Gone(Now, mem, p)

\* Before its journal is published for the first time.
NewOK(s) ==
    /\ Writing /\ then = "mkdir" /\ command = "restore"
    /\ mem.id = begun /\ mem.phase = "staging" /\ mem.branch = "damaged"
    /\ dirs = s.dirs /\ current = s.current
    /\ \A p \in DOMAIN s.disk : p \in DOMAIN disk /\ disk[p] = s.disk[p]
    /\ \A p \in DOMAIN disk : p \in DOMAIN s.disk \/ p \in {KeyPath, TemporaryPath}

\* The phase at each step, and what the steps before it have done.
PhaseAt(s) ==
    \/ /\ At \in {"mkdir", "stage"} /\ command = "restore" /\ mem.phase = "staging"
       /\ At = "stage" => Wanted(mem) \subseteq dirs
    \/ /\ At \in {"preserve", "publish"} /\ command = "restore" /\ mem.phase = "publishing"
       /\ At = "preserve" => \A n \in Managed : Ready(Now, s, mem, n)
       /\ At = "publish" => \A p \in TakenOver(s) : Away(Now, s, mem, p)
    \/ At = "finish" /\ mem.phase = "committed"
    \/ /\ pc = "rollback" /\ command = "settle"
       /\ mem.phase \in {"staging", "publishing", "rollback", "committed"}
       /\ mem.phase = "committed" => current = s.current
       /\ Journals # {mem.id} => NoneGone(s)
    \/ At = "reverse" /\ command = "settle" /\ mem.phase = "rollback" /\ NoneGone(s)
    \/ At = "cleanup" /\ command = "settle" /\ mem.phase \in CleanupPhases
    \/ /\ pc \in {"rmdir", "unlinkJournal"} /\ command = "settle" /\ mem.phase \in CleanupPhases
       /\ \A n \in DOMAIN Doomed(mem) : Doomed(mem)[n].path \notin DOMAIN disk
       /\ pc = "unlinkJournal" =>
             \A n \in DOMAIN DoomedDirectories(mem) : DoomedDirectories(mem)[n] \notin dirs

\* Once the journal is there.
JournaledOK(s) ==
    /\ IsLatest(Now, mem.id)
    /\ ~Writing => mem = disk[JournalPath]
    /\ Progress(Now, s, mem)
    /\ command = "restore" =>
          /\ mem.id = begun /\ NoneGone(s) /\ current = s.current
          /\ disk[JournalPath].phase \in {"staging", "publishing", "committed"}
    /\ PhaseAt(s)

\* Once the journal is gone again.
UnlinkedOK == pc = "unlinkKey" /\ command = "settle" /\ \A i \in JournalsOf(Now) : i < mem.id

\* A process that works on the restore begun over s.
WorkingOK(s) ==
    /\ mem.id \in 1..begun /\ RecordOK(mem, s)
    /\ pc = "publishJournal" => KeyPath \in DOMAIN disk /\ disk[KeyPath] = Whole
    /\ pc # "publishJournal" => TemporaryPath \notin DOMAIN disk
    /\ \/ mem.id \notin JournalsOf(Now) /\ NewOK(s)
       \/ JournaledOK(s)
       \/ UnlinkedOK

\* A process is idle, looks for what to recover, or works on a restore.
ProcessOK(b) ==
    \/ pc = "idle" /\ command = "none" /\ mem = NoJournal
    \/ pc = "sweep" /\ command = "settle" /\ mem = NoJournal /\ \A i, k \in JournalsOf(Now) : i = k
    \/ pc \notin {"idle", "sweep"} /\ command \in {"restore", "settle"} /\ WorkingOK(b[mem.id])

\* Why recovery gave up.
RefusalOK ==
    /\ refusal \in {"none", "multiple", "mixed-state", "torn-key"}
    /\ pc # "idle" => refusal = "none"
    /\ refusal = "mixed-state" /\ pc = "idle" =>
          \E k \in JournalsOf(Now) :
              /\ \A i \in JournalsOf(Now) : i = k
              /\ disk[<<JournalOf(k)>>].phase \in {"publishing", "rollback"}

\* The inductive invariant, for a history b; Inv says that there is one.
InvOf(b) == HistoryOK(b) /\ SnapshotOK(Now, b) /\ ProcessOK(b) /\ RefusalOK

----------------------------------------------------------------------------
(* Numbers and finite sets                                                 *)

\* Induction, in the form of a least counterexample.
LEMMA LeastNumber ==
    ASSUME NEW T \in SUBSET Nat, T # {}
    PROVE  Min(T) \in T /\ \A m \in T : Min(T) <= m
<1> DEFINE R == {ss \in Nat \X Nat : ss[1] < ss[2]}
<1>1. IsWellFoundedOn(R, Nat)
  BY NatLessThanWellFounded DEF OpToRel
<1>2. \E n \in T : \A m \in T : ~(<<m, n>> \in R)
  <2> HIDE DEF R
  <2> QED
    BY <1>1, WFMin
<1>3. PICK n \in T : \A m \in T : ~(<<m, n>> \in R)
  BY <1>2
<1>4. n \in Nat /\ \A m \in T : m \in Nat /\ ~(m < n)
  BY <1>3
<1>5. \A m \in T : n <= m
  BY <1>4
<1> QED
  BY <1>5 DEF Min

\* A set of numbers with a bound has a greatest one.
LEMMA GreatestNumber ==
    ASSUME NEW N \in Nat, NEW T \in SUBSET (1..N), T # {}
    PROVE  Max(T) \in T /\ \A m \in T : m <= Max(T)
<1> DEFINE U == {k \in Nat : N - k \in T}
<1>1. PICK x \in T : TRUE
  OBVIOUS
<1>2. N - x \in U
  OBVIOUS
<1>3. Min(U) \in U /\ \A k \in U : Min(U) <= k
  BY <1>2, LeastNumber
<1>4. N - Min(U) \in T /\ Min(U) \in Nat
  BY <1>3
<1>5. ASSUME NEW m \in T PROVE m <= N - Min(U)
  <2>1. N - m \in U /\ m \in Int
    OBVIOUS
  <2>2. Min(U) <= N - m
    BY <2>1, <1>3
  <2> QED
    BY <2>1, <2>2, <1>4
<1> HIDE DEF U
<1> QED
  BY <1>4, <1>5 DEF Max

----------------------------------------------------------------------------
(* Paths                                                                   *)


\* A path is a strict prefix of a longer one that agrees with it.
LEMMA PrefixMeans ==
    ASSUME NEW p \in Seq(Names), NEW q \in Seq(Names)
    PROVE  IsStrictPrefix(p, q) <=> Len(p) < Len(q) /\ \A m \in 1..Len(p) : p[m] = q[m]
<1>1. ASSUME IsStrictPrefix(p, q)
      PROVE  Len(p) < Len(q) /\ \A m \in 1..Len(p) : p[m] = q[m]
  <2>1. Len(p) <= Len(q) /\ SubSeq(p, 1, Len(p)) = SubSeq(q, 1, Len(p)) /\ p # q
    BY <1>1 DEF IsStrictPrefix, IsPrefix
  <2>2. \A m \in 1..Len(p) : p[m] = q[m]
    <3> TAKE m \in 1..Len(p)
    <3>1. SubSeq(p, 1, Len(p))[m] = p[m] /\ SubSeq(q, 1, Len(p))[m] = q[m]
      BY <2>1
    <3> QED
      BY <2>1, <3>1
  <2>3. Len(p) # Len(q)
    BY <2>1, <2>2
  <2> QED
    BY <2>1, <2>2, <2>3
<1>2. ASSUME Len(p) < Len(q), \A m \in 1..Len(p) : p[m] = q[m]
      PROVE  IsStrictPrefix(p, q)
  <2>1. SubSeq(p, 1, Len(p)) = SubSeq(q, 1, Len(p))
    BY <1>2
  <2> QED
    BY <1>2, <2>1 DEF IsStrictPrefix, IsPrefix
<1> QED
  BY <1>1, <1>2

\* The parent of a path is one shorter and a prefix of it.
LEMMA FrontMeans ==
    ASSUME NEW p \in Seq(Names), Len(p) > 1
    PROVE  /\ Front(p) \in Seq(Names) /\ Len(Front(p)) = Len(p) - 1 /\ Front(p) # <<>>
           /\ \A m \in 1..(Len(p) - 1) : Front(p)[m] = p[m]
           /\ IsStrictPrefix(Front(p), p)
<1>1. /\ Front(p) \in Seq(Names) /\ Len(Front(p)) = Len(p) - 1 /\ Front(p) # <<>>
      /\ \A m \in 1..(Len(p) - 1) : Front(p)[m] = p[m]
  <2>1. Front(p) = SubSeq(p, 1, Len(p) - 1)
    BY DEF Front
  <2>2. Front(p) \in Seq(Names)
    BY <2>1
  <2>3. Len(Front(p)) = Len(p) - 1 /\ \A m \in 1..(Len(p) - 1) : Front(p)[m] = p[m]
    BY <2>1
  <2> QED
    BY <2>2, <2>3
<1> QED
  BY <1>1, PrefixMeans

\* Paths of the same names are equal.
LEMMA SamePath ==
    ASSUME NEW p \in Seq(Names), NEW q \in Seq(Names), Len(p) = Len(q),
           \A m \in 1..Len(p) : p[m] = q[m]
    PROVE  p = q
OBVIOUS

\* A name alone is a path.
LEMMA OneName ==
    ASSUME NEW x \in Names
    PROVE  <<x>> \in Seq(Names) /\ Len(<<x>>) = 1 /\ <<x>>[1] = x /\ <<x>> # <<>>
OBVIOUS

\* Every file and directory of a restore has a name.
LEMMA NamesAre ==
    ASSUME NEW i \in Nat
    PROVE  {File(i), JournalOf(i), TemporaryOf(i), KeyOf(i), StagingOf(i), PreviousOf(i)}
              \subseteq Names
<1>1. File(i) \in Names
  BY DEF Names, File
<1>2. JournalOf(i) \in Names
  BY DEF Names, JournalOf
<1>3. TemporaryOf(i) \in Names
  BY DEF Names, TemporaryOf
<1>4. KeyOf(i) \in Names
  BY DEF Names, KeyOf
<1>5. StagingOf(i) \in Names
  BY DEF Names, StagingOf
<1>6. PreviousOf(i) \in Names
  BY DEF Names, PreviousOf
<1> QED
  BY <1>1, <1>2, <1>3, <1>4, <1>5, <1>6

\* Under the evidence a path is the same path one level deeper.
LEMMA KeptMeans ==
    ASSUME NEW r, r.id \in Nat, NEW p \in Seq(Names)
    PROVE  /\ Kept(r, p) \in Seq(Names) /\ Len(Kept(r, p)) = Len(p) + 1
           /\ Kept(r, p)[1] = PreviousOf(r.id)
           /\ \A m \in 1..Len(p) : Kept(r, p)[m + 1] = p[m]
           /\ p # <<>> => Kept(r, p)[Len(p) + 1] = p[Len(p)]
<1>1. <<PreviousOf(r.id)>> \in Seq(Names)
  BY OneName, NamesAre
<1> QED
  BY <1>1 DEF Kept

\* Two paths stay two in the evidence.
LEMMA KeptInjective ==
    ASSUME NEW r, r.id \in Nat, NEW p \in Seq(Names), NEW q \in Seq(Names),
           Kept(r, p) = Kept(r, q)
    PROVE  p = q
<1>1. Len(p) = Len(q)
  BY KeptMeans
<1>2. /\ \A m \in 1..Len(p) : Kept(r, p)[m + 1] = p[m]
      /\ \A m \in 1..Len(p) : Kept(r, q)[m + 1] = q[m]
  BY <1>1, KeptMeans
<1>3. \A m \in 1..Len(p) : p[m] = q[m]
  BY <1>2
<1> QED
  BY <1>1, <1>3, SamePath

\* The parent of a path in the evidence is its parent's place in the evidence.
LEMMA KeptFront ==
    ASSUME NEW r, r.id \in Nat, NEW p \in Seq(Names), p # <<>>
    PROVE  /\ Len(p) > 1 => Front(Kept(r, p)) = Kept(r, Front(p))
           /\ Len(p) = 1 => Front(Kept(r, p)) = <<PreviousOf(r.id)>>
<1> DEFINE k == Kept(r, p)
<1>1. /\ k \in Seq(Names) /\ Len(k) = Len(p) + 1 /\ k[1] = PreviousOf(r.id)
      /\ \A m \in 1..Len(p) : k[m + 1] = p[m]
  BY KeptMeans
<1>2. Len(k) > 1 /\ Len(p) \in Nat
  BY <1>1
<1>3. /\ Front(k) \in Seq(Names) /\ Len(Front(k)) = Len(p)
      /\ \A m \in 1..Len(p) : Front(k)[m] = k[m]
  <2> HIDE DEF k
  <2>1. Len(k) - 1 = Len(p)
    BY <1>1, <1>2
  <2> QED
    BY <1>1, <1>2, <2>1, FrontMeans
<1>4. ASSUME Len(p) > 1 PROVE Front(k) = Kept(r, Front(p))
  <2>1. /\ Front(p) \in Seq(Names) /\ Len(Front(p)) = Len(p) - 1
        /\ \A m \in 1..(Len(p) - 1) : Front(p)[m] = p[m]
    BY <1>4, FrontMeans
  <2>2. /\ Kept(r, Front(p)) \in Seq(Names) /\ Len(Kept(r, Front(p))) = Len(p)
        /\ Kept(r, Front(p))[1] = PreviousOf(r.id)
        /\ \A m \in 1..(Len(p) - 1) : Kept(r, Front(p))[m + 1] = p[m]
    BY <2>1, <1>2, KeptMeans
  <2> HIDE DEF k
  <2>3. \A m \in 1..Len(p) : m = 1 \/ (m - 1 \in 1..(Len(p) - 1) /\ m - 1 \in 1..Len(p))
    BY <1>2
  <2>4. \A m \in 1..Len(p) : m # 1 => k[(m - 1) + 1] = p[m - 1]
                                      /\ Kept(r, Front(p))[(m - 1) + 1] = p[m - 1]
    BY <2>2, <2>3, <1>1
  <2>5. \A m \in 1..Len(p) : (m - 1) + 1 = m
    BY <1>2
  <2>6. \A m \in 1..Len(p) : k[m] = Kept(r, Front(p))[m]
    BY <2>2, <2>4, <2>5, <1>1
  <2> QED
    BY <1>3, <2>2, <2>6, SamePath
<1>5. ASSUME Len(p) = 1 PROVE Front(k) = <<PreviousOf(r.id)>>
  <2>1. <<PreviousOf(r.id)>> \in Seq(Names)
    BY OneName, NamesAre
  <2> HIDE DEF k
  <2>2. Front(k)[1] = PreviousOf(r.id) /\ Len(Front(k)) = 1
    BY <1>1, <1>3, <1>5
  <2> QED
    BY <2>1, <2>2, <1>3, SamePath
<1> QED
  BY <1>4, <1>5

\* What is within a directory in the evidence was within it before.
LEMMA KeptPrefix ==
    ASSUME NEW r, r.id \in Nat, NEW p \in Seq(Names), NEW q \in Seq(Names),
           IsStrictPrefix(Kept(r, p), Kept(r, q))
    PROVE  IsStrictPrefix(p, q)
<1>1. /\ Len(Kept(r, p)) < Len(Kept(r, q))
      /\ \A m \in 1..Len(Kept(r, p)) : Kept(r, p)[m] = Kept(r, q)[m]
  BY KeptMeans, PrefixMeans
<1>2. Len(p) < Len(q) /\ Len(p) \in Nat /\ Len(q) \in Nat
  <2>1. Len(Kept(r, p)) = Len(p) + 1 /\ Len(Kept(r, q)) = Len(q) + 1
    BY KeptMeans
  <2>2. Len(p) \in Nat /\ Len(q) \in Nat
    OBVIOUS
  <2> QED
    BY <1>1, <2>1, <2>2
<1>3. \A m \in 1..Len(p) : Kept(r, p)[m + 1] = Kept(r, q)[m + 1]
  BY <1>1, KeptMeans
<1>4. \A m \in 1..Len(p) : p[m] = q[m]
  BY <1>2, <1>3, KeptMeans
<1> QED
  BY <1>2, <1>4, PrefixMeans

\* What is at each index of two sequences put together.
LEMMA Concatenation ==
    ASSUME NEW S, NEW a \in Seq(S), NEW c \in Seq(S), NEW d, d = a \o c
    PROVE  /\ d \in Seq(S) /\ Len(d) = Len(a) + Len(c) /\ Len(d) \in Nat
           /\ DOMAIN d = 1..(Len(a) + Len(c))
           /\ \A n \in 1..Len(a) : d[n] = a[n] /\ n \in DOMAIN d
           /\ \A n \in 1..Len(c) : d[n + Len(a)] = c[n] /\ n + Len(a) \in DOMAIN d
           /\ \A n \in DOMAIN d : \/ n \in 1..Len(a)
                                  \/ n - Len(a) \in 1..Len(c) /\ (n - Len(a)) + Len(a) = n
<1>1. Len(a) \in Nat /\ Len(c) \in Nat
  OBVIOUS
<1>2. a \o c \in Seq(S) /\ Len(a \o c) = Len(a) + Len(c) /\ DOMAIN (a \o c) = 1..(Len(a) + Len(c))
  OBVIOUS
<1>3. \A n \in 1..Len(a) : (a \o c)[n] = a[n]
  BY <1>1
<1>4. ASSUME NEW n \in 1..Len(c) PROVE (a \o c)[n + Len(a)] = c[n]
  <2>1. n + Len(a) \in 1..(Len(a) + Len(c)) /\ n + Len(a) > Len(a) /\ (n + Len(a)) - Len(a) = n
    BY <1>1
  <2> QED
    BY <1>1, <2>1
<1>5. \A m, k \in Nat : /\ \A n \in 1..m : n \in 1..(m + k)
                        /\ \A n \in 1..k : n + m \in 1..(m + k)
                        /\ \A n \in 1..(m + k) : n \in 1..m \/ (n - m \in 1..k /\ (n - m) + m = n)
                        /\ m + k \in Nat
  OBVIOUS
<1> QED
  BY <1>1, <1>2, <1>3, <1>4, <1>5

----------------------------------------------------------------------------
(* Sorted listings                                                         *)

\* Every kind of name has a place in the order of the kinds.
LEMMA KindHasRank ==
    ASSUME NEW kind \in {"file", "journal", "temporary", "key", "staging", "previous"}
    PROVE  \E n \in DOMAIN Kinds : Kinds[n] = kind
<1>1. DOMAIN Kinds = 1..6
  BY DEF Kinds
<1>2. /\ Kinds[1] = "key" /\ Kinds[2] = "previous" /\ Kinds[3] = "staging"
      /\ Kinds[4] = "journal" /\ Kinds[5] = "temporary" /\ Kinds[6] = "file"
  BY DEF Kinds
<1>3. 1 \in 1..6 /\ 2 \in 1..6 /\ 3 \in 1..6 /\ 4 \in 1..6 /\ 5 \in 1..6 /\ 6 \in 1..6
  OBVIOUS
<1> QED
  BY <1>1, <1>2, <1>3, Zenon

\* The place of a name's kind in the order of the kinds.
Rank(name) == CHOOSE n \in DOMAIN Kinds : Kinds[n] = name[1]

\* The rank of a name is a number that tells its kind.
LEMMA RankMeans ==
    ASSUME NEW a \in Names
    PROVE  Rank(a) \in Nat /\ Kinds[Rank(a)] = a[1]
<1>1. a[1] \in {"file", "journal", "temporary", "key", "staging", "previous"}
  BY DEF Names
<1>2. \E n \in DOMAIN Kinds : Kinds[n] = a[1]
  BY <1>1, KindHasRank
<1>3. Rank(a) \in DOMAIN Kinds /\ Kinds[Rank(a)] = a[1]
  BY <1>2 DEF Rank
<1>4. DOMAIN Kinds = 1..6
  BY DEF Kinds
<1> QED
  BY <1>3, <1>4

\* NameBefore in terms of ranks.
LEMMA NameBeforeMeans ==
    ASSUME NEW a \in Names, NEW b \in Names
    PROVE  NameBefore(a, b) <=> Rank(a) < Rank(b) \/ (Rank(a) = Rank(b) /\ a[2] < b[2])
BY DEF NameBefore, Rank

\* The order of the names is total and strict.
LEMMA NameOrder ==
    ASSUME NEW a \in Names, NEW b \in Names, NEW c \in Names
    PROVE  /\ ~NameBefore(a, a)
           /\ NameBefore(a, b) /\ NameBefore(b, c) => NameBefore(a, c)
           /\ a # b => NameBefore(a, b) \/ NameBefore(b, a)
<1>1. /\ a[2] \in Nat /\ b[2] \in Nat /\ c[2] \in Nat
      /\ a[1] = b[1] /\ a[2] = b[2] => a = b
  BY DEF Names
<1>2. /\ Rank(a) \in Nat /\ Rank(b) \in Nat /\ Rank(c) \in Nat
      /\ Rank(a) = Rank(b) => a[1] = b[1]
  BY RankMeans
<1>3. /\ ~NameBefore(a, a)
      /\ NameBefore(a, b) /\ NameBefore(b, c) => NameBefore(a, c)
  BY <1>1, <1>2, NameBeforeMeans
<1>4. a # b => NameBefore(a, b) \/ NameBefore(b, a)
  BY <1>1, <1>2, NameBeforeMeans
<1> QED
  BY <1>3, <1>4

\* Before, at the first place where two paths differ.
BeforeAt(p, q, n) ==
    /\ n \in 1..Len(q)
    /\ \A m \in 1..(n - 1) : m \in 1..Len(p) /\ p[m] = q[m]
    /\ n = Len(p) + 1 \/ (n \in 1..Len(p) /\ NameBefore(p[n], q[n]))

\* The order of the paths is decided where they first differ.
LEMMA BeforeMeans ==
    ASSUME NEW p \in Seq(Names), NEW q \in Seq(Names)
    PROVE  Before(p, q) <=> \E n \in Nat : BeforeAt(p, q, n)
<1>1. DOMAIN p = 1..Len(p) /\ DOMAIN q = 1..Len(q)
  OBVIOUS
<1> QED
  BY <1>1 DEF Before, BeforeAt

\* The order of the paths is irreflexive,
LEMMA BeforeIrreflexive ==
    ASSUME NEW p \in Seq(Names)
    PROVE  ~Before(p, p)
<1>1. ASSUME NEW n \in Nat, BeforeAt(p, p, n) PROVE FALSE
  <2>1. n \in 1..Len(p) /\ n # Len(p) + 1 /\ p[n] \in Names
    BY <1>1 DEF BeforeAt
  <2> QED
    BY <1>1, <2>1, NameOrder DEF BeforeAt
<1> QED
  BY <1>1, BeforeMeans

\* transitive,
LEMMA BeforeTransitive ==
    ASSUME NEW p \in Seq(Names), NEW q \in Seq(Names), NEW r \in Seq(Names),
           Before(p, q), Before(q, r)
    PROVE  Before(p, r)
<1>1. PICK n \in Nat : BeforeAt(p, q, n)
  BY BeforeMeans
<1>2. PICK k \in Nat : BeforeAt(q, r, k)
  BY BeforeMeans
<1>3. /\ \A m \in 1..Len(p) : p[m] \in Names
      /\ \A m \in 1..Len(q) : q[m] \in Names
      /\ \A m \in 1..Len(r) : r[m] \in Names
      /\ Len(p) \in Nat /\ Len(q) \in Nat /\ Len(r) \in Nat
  OBVIOUS
<1>4. CASE n < k
  <2>1. /\ n \in 1..(k - 1) /\ q[n] = r[n] /\ n \in 1..Len(r)
        /\ \A m \in 1..(n - 1) : m \in 1..(k - 1)
    BY <1>1, <1>2, <1>3, <1>4 DEF BeforeAt
  <2>2. BeforeAt(p, r, n)
    BY <1>1, <1>2, <2>1 DEF BeforeAt
  <2> QED
    BY <2>2, BeforeMeans
<1>5. CASE k < n
  <2>1. /\ k \in 1..(n - 1) /\ k \in 1..Len(p) /\ p[k] = q[k] /\ k # Len(q) + 1
        /\ \A m \in 1..(k - 1) : m \in 1..(n - 1)
    BY <1>1, <1>2, <1>3, <1>5 DEF BeforeAt
  <2>2. BeforeAt(p, r, k)
    BY <1>1, <1>2, <2>1 DEF BeforeAt
  <2> QED
    BY <2>2, BeforeMeans
<1>6. CASE n = k
  <2>1. n \in 1..Len(q) /\ n # Len(q) + 1 /\ n \in 1..Len(r)
    BY <1>1, <1>2, <1>3, <1>6 DEF BeforeAt
  <2>2. NameBefore(q[n], r[n]) /\ q[n] \in Names /\ r[n] \in Names
    BY <1>2, <1>3, <1>6, <2>1 DEF BeforeAt
  <2>3. n = Len(p) + 1 \/ (n \in 1..Len(p) /\ NameBefore(p[n], r[n]))
    BY <1>1, <1>3, <2>1, <2>2, NameOrder DEF BeforeAt
  <2>4. BeforeAt(p, r, n)
    BY <1>1, <1>2, <1>6, <2>1, <2>3 DEF BeforeAt
  <2> QED
    BY <2>4, BeforeMeans
<1> QED
  BY <1>4, <1>5, <1>6

\* and total,
LEMMA BeforeTotal ==
    ASSUME NEW p \in Seq(Names), NEW q \in Seq(Names), p # q
    PROVE  Before(p, q) \/ Before(q, p)
<1> DEFINE Differ == {m \in Nat \ {0} : ~(m \in 1..Len(p) /\ m \in 1..Len(q) /\ p[m] = q[m])}
           n == Min(Differ)
<1>1. Len(p) + 1 \in Differ /\ Differ \in SUBSET Nat
  OBVIOUS
<1>2. n \in Differ /\ \A m \in Differ : n <= m
  BY <1>1, LeastNumber
<1>3. n \in Nat /\ n # 0 /\ ~(n \in 1..Len(p) /\ n \in 1..Len(q) /\ p[n] = q[n])
  BY <1>2
<1>4. \A m \in 1..(n - 1) : m \in 1..Len(p) /\ m \in 1..Len(q) /\ p[m] = q[m]
  <2> TAKE m \in 1..(n - 1)
  <2>1. m \in Nat \ {0} /\ ~(n <= m)
    BY <1>3
  <2> QED
    BY <1>2, <2>1
<1> HIDE DEF n, Differ
<1>5. n - 1 <= Len(p) /\ n - 1 <= Len(q)
  <2>1. CASE n = 1
    BY <2>1
  <2>2. CASE n # 1
    <3>1. n - 1 \in 1..(n - 1)
      BY <1>3, <2>2
    <3> QED
      BY <1>4, <3>1
  <2> QED
    BY <2>1, <2>2
<1>6. CASE n \in 1..Len(p) /\ n \in 1..Len(q)
  <2>1. p[n] # q[n] /\ p[n] \in Names /\ q[n] \in Names
    BY <1>3, <1>6
  <2>2. BeforeAt(p, q, n) \/ BeforeAt(q, p, n)
    BY <1>4, <1>6, <2>1, NameOrder DEF BeforeAt
  <2> QED
    BY <1>3, <2>2, BeforeMeans
<1>7. CASE n \notin 1..Len(p) /\ n \in 1..Len(q)
  <2>1. n = Len(p) + 1
    BY <1>3, <1>5, <1>7
  <2>2. BeforeAt(p, q, n)
    BY <1>4, <1>7, <2>1 DEF BeforeAt
  <2> QED
    BY <1>3, <2>2, BeforeMeans
<1>8. CASE n \in 1..Len(p) /\ n \notin 1..Len(q)
  <2>1. n = Len(q) + 1
    BY <1>3, <1>5, <1>8
  <2>2. BeforeAt(q, p, n)
    BY <1>4, <1>8, <2>1 DEF BeforeAt
  <2> QED
    BY <1>3, <2>2, BeforeMeans
<1>9. CASE n \notin 1..Len(p) /\ n \notin 1..Len(q)
  <2>1. Len(p) = n - 1 /\ Len(q) = n - 1
    BY <1>3, <1>5, <1>9
  <2> QED
    BY <1>4, <2>1, SamePath
<1> QED
  BY <1>6, <1>7, <1>8, <1>9

\* and a directory comes before what it holds.
LEMMA PrefixBefore ==
    ASSUME NEW p \in Seq(Names), NEW q \in Seq(Names), IsStrictPrefix(p, q)
    PROVE  Before(p, q)
<1>1. Len(p) < Len(q) /\ \A m \in 1..Len(p) : p[m] = q[m]
  BY PrefixMeans
<1>2. BeforeAt(p, q, Len(p) + 1) /\ Len(p) + 1 \in Nat
  BY <1>1 DEF BeforeAt
<1> QED
  BY <1>2, BeforeMeans

\* A sorted listing has every path once, a directory before what it holds.
LEMMA SortedMeans ==
    ASSUME NEW P \in SUBSET Seq(Names), IsFiniteSet(P)
    PROVE  /\ Len(Sorted(P)) \in Nat /\ DOMAIN Sorted(P) = 1..Len(Sorted(P))
           /\ Sorted(P) \in Seq(P)
           /\ \A p \in P : \E n \in DOMAIN Sorted(P) : Sorted(P)[n] = p
           /\ \A m, n \in DOMAIN Sorted(P) :
                 IsStrictPrefix(Sorted(P)[m], Sorted(P)[n]) => m < n
<1> DEFINE Lower(p) == {q \in P : Before(q, p)}
           size == Cardinality(P)
           rank == [p \in P |-> Cardinality(Lower(p))]
<1>1. size \in Nat
  BY FS_CardinalityType
<1>2. ASSUME NEW p \in P
      PROVE  IsFiniteSet(Lower(p)) /\ rank[p] \in 0..(size - 1)
  <2>1. Lower(p) \in SUBSET P /\ p \notin Lower(p)
    BY BeforeIrreflexive
  <2>2. /\ IsFiniteSet(Lower(p)) /\ Cardinality(Lower(p)) <= size
        /\ size = Cardinality(Lower(p)) => P = Lower(p)
    BY <2>1, FS_Subset
  <2>3. Cardinality(Lower(p)) \in Nat
    BY <2>2, FS_CardinalityType
  <2>4. Cardinality(Lower(p)) # size
    BY <2>1, <2>2
  <2> HIDE DEF Lower, size
  <2> QED
    BY <1>1, <2>2, <2>3, <2>4
<1>3. ASSUME NEW p \in P, NEW q \in P, Before(p, q)
      PROVE  rank[p] < rank[q]
  <2>1. Lower(p) \in SUBSET Lower(q)
    BY <1>3, BeforeTransitive
  <2>2. p \in Lower(q) /\ p \notin Lower(p)
    BY <1>3, BeforeIrreflexive
  <2> HIDE DEF Lower
  <2>3. /\ Cardinality(Lower(p)) <= Cardinality(Lower(q))
        /\ Cardinality(Lower(q)) = Cardinality(Lower(p)) => Lower(q) = Lower(p)
    BY <1>2, <2>1, FS_Subset
  <2>4. Cardinality(Lower(p)) \in Nat /\ Cardinality(Lower(q)) \in Nat
    BY <1>2, FS_CardinalityType
  <2> QED
    BY <2>2, <2>3, <2>4
<1>4. \A p, q \in P : rank[p] = rank[q] => p = q
  <2> SUFFICES ASSUME NEW p \in P, NEW q \in P, rank[p] = rank[q], p # q PROVE FALSE
    OBVIOUS
  <2>1. Before(p, q) \/ Before(q, p)
    BY BeforeTotal
  <2> HIDE DEF rank, size, Lower
  <2>2. rank[p] \in 0..(size - 1) /\ rank[q] \in 0..(size - 1)
    BY <1>2
  <2>3. rank[p] \in Int /\ rank[q] \in Int
    BY <1>1, <2>2
  <2> QED
    BY <1>3, <2>1, <2>3
<1>5. rank \in Injection(P, 0..(size - 1))
  <2>1. rank \in [P -> 0..(size - 1)]
    BY <1>2
  <2> HIDE DEF rank, size
  <2> QED
    BY <1>4, <2>1 DEF Injection, IsInjective
<1>6. rank \in Surjection(P, 0..(size - 1))
  <2> HIDE DEF rank, size
  <2>1. IsFiniteSet(0..(size - 1)) /\ Cardinality(0..(size - 1)) = size
    BY <1>1, FS_Interval
  <2> QED
    BY <1>5, <2>1, FS_Injection DEF size
<1>7. Sorted(P) = [n \in 1..size |-> CHOOSE p \in P : Cardinality(Lower(p)) = n - 1]
  BY DEF Sorted
<1>8. \A n \in 1..size : Sorted(P)[n] \in P /\ rank[Sorted(P)[n]] = n - 1
  <2> TAKE n \in 1..size
  <2>1. n - 1 \in 0..(size - 1)
    BY <1>1
  <2>2. \E p \in P : rank[p] = n - 1
    <3> HIDE DEF rank, size
    <3> QED
      BY <1>6, <2>1 DEF Surjection
  <2>3. \E p \in P : Cardinality(Lower(p)) = n - 1
    BY <2>2
  <2> HIDE DEF Lower
  <2> QED
    BY <1>7, <2>3
<1> HIDE DEF rank, size
<1>9. DOMAIN Sorted(P) = 1..size /\ Sorted(P) \in Seq(P) /\ Len(Sorted(P)) = size
  <2>1. Sorted(P) \in [1..size -> P]
    BY <1>7, <1>8
  <2> HIDE DEF Lower
  <2> QED
    BY <1>1, <2>1
<1>10. ASSUME NEW p \in P PROVE \E n \in 1..size : Sorted(P)[n] = p
  <2>1. rank[p] \in 0..(size - 1)
    BY <1>2
  <2>2. rank[p] \in Int /\ rank[p] + 1 \in 1..size /\ (rank[p] + 1) - 1 = rank[p]
    BY <1>1, <2>1
  <2>3. Sorted(P)[rank[p] + 1] = p
    BY <1>4, <1>8, <2>2
  <2> QED
    BY <2>2, <2>3
<1>11. ASSUME NEW m \in 1..size, NEW n \in 1..size,
              IsStrictPrefix(Sorted(P)[m], Sorted(P)[n])
       PROVE  m < n
  <2>1. Before(Sorted(P)[m], Sorted(P)[n])
    BY <1>8, <1>11, PrefixBefore
  <2>2. m - 1 < n - 1
    BY <1>3, <1>8, <2>1
  <2> QED
    BY <1>1, <2>2
<1> QED
  BY <1>1, <1>9, <1>10, <1>11

----------------------------------------------------------------------------
(* Which paths there are                                                   *)

\* Files of the directory itself are told apart by their kind and number.
LEMMA Singles ==
    ASSUME NEW i, NEW k
    PROVE  /\ <<File(i)>> = <<File(k)>> => i = k
           /\ <<JournalOf(i)>> = <<JournalOf(k)>> => i = k
           /\ <<TemporaryOf(i)>> = <<TemporaryOf(k)>> => i = k
           /\ <<KeyOf(i)>> = <<KeyOf(k)>> => i = k
           /\ <<StagingOf(i)>> = <<StagingOf(k)>> => i = k
           /\ <<PreviousOf(i)>> = <<PreviousOf(k)>> => i = k
           /\ <<File(i)>> \notin {<<JournalOf(k)>>, <<TemporaryOf(k)>>, <<KeyOf(k)>>,
                                  <<StagingOf(k)>>, <<PreviousOf(k)>>}
           /\ <<JournalOf(i)>> \notin {<<TemporaryOf(k)>>, <<KeyOf(k)>>,
                                       <<StagingOf(k)>>, <<PreviousOf(k)>>}
           /\ <<TemporaryOf(i)>> \notin {<<KeyOf(k)>>, <<StagingOf(k)>>, <<PreviousOf(k)>>}
           /\ <<KeyOf(i)>> \notin {<<StagingOf(k)>>, <<PreviousOf(k)>>}
           /\ <<StagingOf(i)>> # <<PreviousOf(k)>>
BY DEF File, JournalOf, TemporaryOf, KeyOf, StagingOf, PreviousOf

\* A staged file is in the staging directory.
LEMMA StagedMeans ==
    ASSUME NEW r, r.id \in Nat, NEW n \in Nat
    PROVE  /\ Staged(r, n) \in Seq(Names) /\ Len(Staged(r, n)) = 2
           /\ Staged(r, n)[1] = StagingOf(r.id) /\ Staged(r, n)[2] = File(n)
<1>1. StagingOf(r.id) \in Names /\ File(n) \in Names
  BY NamesAre
<1> QED
  BY <1>1 DEF Staged

\* A staged file is not in the directory itself, and not in the evidence.
LEMMA StagedShape ==
    ASSUME NEW r, r.id \in Nat, NEW n \in Nat
    PROVE  /\ \A x : Staged(r, n) # <<x>>
           /\ \A m \in Nat : Staged(r, m) = Staged(r, n) => m = n
           /\ \A q \in Seq(Names) : Kept(r, q) # Staged(r, n)
           /\ Front(Staged(r, n)) = <<StagingOf(r.id)>>
<1>1. \A x : Staged(r, n) # <<x>>
  BY DEF Staged
<1>2. \A m \in Nat : Staged(r, m) = Staged(r, n) => m = n
  BY DEF Staged, File
<1>3. \A q \in Seq(Names) : Kept(r, q) # Staged(r, n)
  BY KeptMeans, StagedMeans DEF StagingOf, PreviousOf
<1>4. Front(Staged(r, n)) = <<StagingOf(r.id)>>
  <2>1. /\ Front(Staged(r, n)) \in Seq(Names) /\ Len(Front(Staged(r, n))) = 1
        /\ Front(Staged(r, n))[1] = StagingOf(r.id)
    <3> DEFINE p == Staged(r, n)
    <3>1. p \in Seq(Names) /\ Len(p) = 2 /\ Len(p) > 1 /\ p[1] = StagingOf(r.id)
      BY StagedMeans
    <3> HIDE DEF p
    <3>2. Len(Front(p)) = Len(p) - 1 /\ Front(p) \in Seq(Names)
          /\ \A m \in 1..(Len(p) - 1) : Front(p)[m] = p[m]
      BY <3>1, FrontMeans
    <3> QED
      BY <3>1, <3>2 DEF p
  <2>2. <<StagingOf(r.id)>> \in Seq(Names) /\ Len(<<StagingOf(r.id)>>) = 1
    BY OneName, NamesAre
  <2> QED
    BY <2>1, <2>2, SamePath
<1> QED
  BY <1>1, <1>2, <1>3, <1>4

\* A path in the evidence is not in the directory itself.
LEMMA KeptShape ==
    ASSUME NEW r, r.id \in Nat, NEW q \in Seq(Names), q # <<>>
    PROVE  /\ \A x : Kept(r, q) # <<x>>
           /\ Len(Kept(r, q)) > 1
           /\ Kept(r, q)[Len(Kept(r, q))] = q[Len(q)]
<1>1. Len(q) \in Nat /\ Len(q) # 0
  OBVIOUS
<1>2. Len(Kept(r, q)) = Len(q) + 1 /\ Kept(r, q)[Len(q) + 1] = q[Len(q)]
  BY KeptMeans
<1> QED
  BY <1>1, <1>2

\* The paths of a directory in which `count` restores have begun.
LEMMA PathMeans ==
    ASSUME NEW p, NEW count \in Nat, Path(p, count)
    PROVE  /\ p \in Seq(Names) /\ p # <<>> /\ Len(p) \in Nat \ {0}
           /\ Len(p) # 1 => Len(p) > 1 /\ p[1] \in DirectoryNames(count)
           /\ \A x : p = <<x>> => Len(p) = 1 /\ p[1] = x
           /\ Len(p) = 1 => p = <<p[1]>>
<1>1. p \in Seq(Names) /\ p # <<>> /\ \A m \in 1..(Len(p) - 1) : p[m] \in DirectoryNames(count)
  BY DEF Path
<1>2. Len(p) \in Nat \ {0}
  BY <1>1
<1>3. Len(p) # 1 => Len(p) > 1 /\ p[1] \in DirectoryNames(count)
  <2>1. \A n \in Nat \ {0} : n # 1 => n > 1 /\ 1 \in 1..(n - 1)
    OBVIOUS
  <2> QED
    BY <1>1, <1>2, <2>1
<1>4. Len(p) = 1 => p = <<p[1]>>
  BY <1>1
<1>5. \A x : p = <<x>> => Len(p) = 1 /\ p[1] = x
  OBVIOUS
<1> QED
  BY <1>1, <1>2, <1>3, <1>4, <1>5

\* A file in the vault directory itself is of one of four kinds.
LEMMA TopFile ==
    ASSUME NEW p, NEW count \in Nat, Path(p, count), p[Len(p)] \in FileNames(count), Len(p) = 1
    PROVE  \/ \E n \in Managed : p = <<File(n)>>
           \/ \E i \in 1..count : p \in {<<JournalOf(i)>>, <<TemporaryOf(i)>>, <<KeyOf(i)>>}
<1>1. p = <<p[1]>> /\ p[1] \in FileNames(count)
  BY PathMeans
<1>2. \/ \E n \in Managed : p[1] = File(n)
      \/ \E i \in 1..count : p[1] \in {JournalOf(i), TemporaryOf(i), KeyOf(i)}
  BY <1>1 DEF FileNames, File, JournalOf, TemporaryOf, KeyOf
<1> QED
  BY <1>1, <1>2

\* What is in a directory has a path.
LEMMA TypedPaths ==
    ASSUME NEW t, Typed(t)
    PROVE  /\ t.count \in Nat
           /\ \A p \in DOMAIN t.disk \cup t.dirs :
                 /\ Path(p, t.count) /\ p \in Seq(Names) /\ p # <<>> /\ Len(p) \in Nat \ {0}
                 /\ Len(p) # 1 => Len(p) > 1 /\ p[1] \in DirectoryNames(t.count)
BY PathMeans DEF Typed

\* Nothing of the next restore is there yet.
LEMMA NothingOfNext ==
    ASSUME NEW s, Typed(s), NEW i \in Nat, i > s.count
    PROVE  /\ \A p \in DOMAIN s.disk \cup s.dirs : p[1] \notin {StagingOf(i), PreviousOf(i)}
           /\ {<<JournalOf(i)>>, <<TemporaryOf(i)>>, <<KeyOf(i)>>} \cap DOMAIN s.disk = {}
<1>1. s.count \in Nat
  BY DEF Typed
<1>2. {StagingOf(i), PreviousOf(i)} \cap DirectoryNames(s.count) = {}
  BY <1>1 DEF StagingOf, PreviousOf, DirectoryNames
<1>3. {JournalOf(i), TemporaryOf(i), KeyOf(i), StagingOf(i), PreviousOf(i)}
         \cap FileNames(s.count) = {}
  BY <1>1 DEF StagingOf, PreviousOf, JournalOf, TemporaryOf, KeyOf, FileNames
<1>4. ASSUME NEW p \in DOMAIN s.disk \cup s.dirs
      PROVE  p[1] \notin {StagingOf(i), PreviousOf(i)}
  <2>1. Len(p) # 1 => p[1] \in DirectoryNames(s.count)
    BY TypedPaths
  <2>2. p[Len(p)] \in FileNames(s.count) \cup DirectoryNames(s.count)
    BY DEF Typed
  <2> QED
    BY <1>2, <1>3, <2>1, <2>2
<1>5. ASSUME NEW x, <<x>> \in DOMAIN s.disk PROVE x \in FileNames(s.count)
  <2>1. <<x>>[Len(<<x>>)] \in FileNames(s.count)
    BY <1>5 DEF Typed
  <2> QED
    BY <2>1
<1> QED
  BY <1>3, <1>4, <1>5

\* So what the next restore makes is not there.
LEMMA NewPaths ==
    ASSUME NEW s, Typed(s), NEW r, r.id = s.count + 1
    PROVE  /\ r.id \in Nat /\ r.id > s.count
           /\ \A q \in Seq(Names) : Kept(r, q) \notin DOMAIN s.disk \cup s.dirs
           /\ \A n \in Nat : Staged(r, n) \notin DOMAIN s.disk \cup s.dirs
           /\ {<<StagingOf(r.id)>>, <<PreviousOf(r.id)>>} \cap s.dirs = {}
           /\ \A i \in Nat : i >= r.id =>
                 {<<JournalOf(i)>>, <<TemporaryOf(i)>>, <<KeyOf(i)>>} \cap DOMAIN s.disk = {}
<1>1. r.id \in Nat /\ r.id > s.count /\ \A i \in Nat : i >= r.id => i > s.count
  BY DEF Typed
<1>2. \A p \in DOMAIN s.disk \cup s.dirs : p[1] \notin {StagingOf(r.id), PreviousOf(r.id)}
  BY <1>1, NothingOfNext
<1>3. \A q \in Seq(Names) : Kept(r, q) \notin DOMAIN s.disk \cup s.dirs
  BY <1>1, <1>2, KeptMeans
<1>4. \A n \in Nat : Staged(r, n) \notin DOMAIN s.disk \cup s.dirs
  BY <1>1, <1>2, StagedMeans
<1>5. <<StagingOf(r.id)>>[1] = StagingOf(r.id) /\ <<PreviousOf(r.id)>>[1] = PreviousOf(r.id)
  OBVIOUS
<1>6. {<<StagingOf(r.id)>>, <<PreviousOf(r.id)>>} \cap s.dirs = {}
  BY <1>2, <1>5
<1>7. \A i \in Nat : i >= r.id =>
         {<<JournalOf(i)>>, <<TemporaryOf(i)>>, <<KeyOf(i)>>} \cap DOMAIN s.disk = {}
  BY <1>1, NothingOfNext
<1> QED
  BY <1>1, <1>3, <1>4, <1>6, <1>7

----------------------------------------------------------------------------
(* Keys and temporaries of the last restore, and all temporaries, may come *)
(* and go: nothing that is said of a directory depends on them.            *)

\* t and u differ by temporary journals, and by keys of restores begun after all
\* that are pending.
Alike(t, u) ==
    /\ u.count \in Nat /\ u.count >= t.count /\ IsFiniteSet(DOMAIN u.disk)
    /\ u.dirs = t.dirs /\ u.current = t.current
    /\ \A p \in DOMAIN t.disk :
          \/ p \in DOMAIN u.disk /\ u.disk[p] = t.disk[p]
          \/ p \notin DOMAIN u.disk /\ \E i \in Nat : p = <<TemporaryOf(i)>>
          \/ \E i \in 1..u.count : p = <<KeyOf(i)>> /\ \A k \in JournalsOf(t) : k < i
    /\ \A p \in DOMAIN u.disk :
          \/ p \in DOMAIN t.disk
          \/ \E i \in 1..u.count : /\ p \in {<<KeyOf(i)>>, <<TemporaryOf(i)>>}
                                   /\ \A k \in JournalsOf(t) : k <= i

\* The only files in which two such directories differ.
IsKeyOrTemporary(p) == \E i \in Nat : p \in {<<KeyOf(i)>>, <<TemporaryOf(i)>>}

\* They hold the same other files, and the same journals.
LEMMA AlikeFiles ==
    ASSUME NEW t, NEW u, t.count \in Nat, Alike(t, u)
    PROVE  /\ \A p \in DOMAIN t.disk : IsKeyOrTemporary(p) \/ (p \in DOMAIN u.disk /\ u.disk[p] = t.disk[p])
           /\ \A p \in DOMAIN u.disk : IsKeyOrTemporary(p) \/ (p \in DOMAIN t.disk /\ u.disk[p] = t.disk[p])
           /\ JournalsOf(t) \subseteq JournalsOf(u)
           /\ Typed(t) => JournalsOf(u) = JournalsOf(t)
<1>1. \A p \in DOMAIN t.disk : IsKeyOrTemporary(p) \/ (p \in DOMAIN u.disk /\ u.disk[p] = t.disk[p])
  BY DEF Alike, IsKeyOrTemporary
<1>2. \A p \in DOMAIN u.disk : IsKeyOrTemporary(p) \/ (p \in DOMAIN t.disk /\ u.disk[p] = t.disk[p])
  BY <1>1 DEF Alike, IsKeyOrTemporary
<1>3. \A i : ~IsKeyOrTemporary(<<JournalOf(i)>>)
  BY Singles DEF IsKeyOrTemporary
<1>4. \A i \in 1..t.count : i \in 1..u.count
  BY DEF Alike
<1>5. JournalsOf(t) \subseteq JournalsOf(u)
  BY <1>1, <1>3, <1>4 DEF JournalsOf
<1>6. ASSUME Typed(t) PROVE JournalsOf(u) \subseteq JournalsOf(t)
  <2>1. SUFFICES ASSUME NEW i \in JournalsOf(u) PROVE i \in JournalsOf(t)
    OBVIOUS
  <2>2. i \in Nat /\ <<JournalOf(i)>> \in DOMAIN t.disk /\ i \in 1..u.count
    BY <1>2, <1>3, <2>1 DEF JournalsOf, Alike
  <2>3. ~(i > t.count)
    BY <1>6, <2>2, NothingOfNext
  <2> QED
    BY <2>2, <2>3 DEF JournalsOf, Alike
<1> QED
  BY <1>1, <1>2, <1>5, <1>6

\* The same as far as a restore with this id can tell: only its own keys, journal
\* and temporaries, those of later ones, and temporaries removed, differ.
AlikeFrom(t, u, id) ==
    /\ u.count \in Nat /\ u.count >= t.count /\ IsFiniteSet(DOMAIN u.disk)
    /\ u.dirs = t.dirs /\ u.current = t.current
    /\ \A p \in DOMAIN t.disk :
          \/ p \in DOMAIN u.disk /\ u.disk[p] = t.disk[p]
          \/ p \notin DOMAIN u.disk /\ \E i \in Nat : p = <<TemporaryOf(i)>>
          \/ \E i \in Nat : i >= id /\ p \in {<<KeyOf(i)>>, <<JournalOf(i)>>}
    /\ \A p \in DOMAIN u.disk :
          \/ p \in DOMAIN t.disk
          \/ \E i \in id..u.count : p \in {<<KeyOf(i)>>, <<TemporaryOf(i)>>}
          \/ p = <<JournalOf(id)>>

\* Such directories differ by nothing older than any pending restore.
LEMMA AlikeIsFrom ==
    ASSUME NEW t, NEW u, Alike(t, u), NEW id \in JournalsOf(t)
    PROVE  AlikeFrom(t, u, id)
<1>1. id \in Nat
  BY DEF JournalsOf
<1>2. \A i \in 1..u.count : id <= i => i \in id..u.count
  BY <1>1 DEF Alike
<1>3. \A i \in 1..u.count : id < i => i \in Nat /\ i >= id
  BY <1>1 DEF Alike
<1> QED
  BY <1>2, <1>3 DEF Alike, AlikeFrom

\* As far as the files of a snapshot and those that replace them go.
LEMMA AlikeFacts ==
    ASSUME NEW t, NEW u, t.count \in Nat,
           NEW s, Typed(s), NEW r, r.id = s.count + 1, AlikeFrom(t, u, r.id)
    PROVE  /\ \A p \in DOMAIN s.disk : p \in DOMAIN u.disk => p \in DOMAIN t.disk
           /\ \A p \in DOMAIN s.disk \cap DOMAIN t.disk :
                 \/ p \in DOMAIN u.disk /\ u.disk[p] = t.disk[p]
                 \/ OfTemporary(p) /\ p \notin DOMAIN u.disk
           /\ \A p \in DOMAIN s.disk : Kept(r, p) \in DOMAIN u.disk <=> Kept(r, p) \in DOMAIN t.disk
           /\ \A p \in DOMAIN s.disk :
                 Kept(r, p) \in DOMAIN u.disk => u.disk[Kept(r, p)] = t.disk[Kept(r, p)]
           /\ \A n \in Managed : Staged(r, n) \in DOMAIN u.disk <=> Staged(r, n) \in DOMAIN t.disk
           /\ \A n \in Managed :
                 Staged(r, n) \in DOMAIN u.disk => u.disk[Staged(r, n)] = t.disk[Staged(r, n)]
           /\ \A n \in Managed : <<File(n)>> \in DOMAIN u.disk <=> <<File(n)>> \in DOMAIN t.disk
           /\ \A n \in Managed :
                 <<File(n)>> \in DOMAIN u.disk => u.disk[<<File(n)>>] = t.disk[<<File(n)>>]
<1>1. r.id \in Nat /\ \A i \in Nat : i >= r.id =>
         {<<KeyOf(i)>>, <<TemporaryOf(i)>>, <<JournalOf(i)>>} \cap DOMAIN s.disk = {}
  BY NewPaths
<1>2. \A i \in r.id..u.count : i \in Nat /\ i >= r.id
  BY <1>1 DEF AlikeFrom
<1>3. \A p \in DOMAIN s.disk : p \in DOMAIN u.disk => p \in DOMAIN t.disk
  <2> SUFFICES ASSUME NEW p \in DOMAIN s.disk, p \in DOMAIN u.disk, p \notin DOMAIN t.disk
               PROVE  FALSE
    OBVIOUS
  <2>1. \E i \in Nat : i >= r.id /\ p \in {<<KeyOf(i)>>, <<TemporaryOf(i)>>, <<JournalOf(i)>>}
    BY <1>1, <1>2 DEF AlikeFrom
  <2> QED
    BY <1>1, <2>1
<1>4. ASSUME NEW p \in DOMAIN s.disk, p \in DOMAIN t.disk
      PROVE  \/ p \in DOMAIN u.disk /\ u.disk[p] = t.disk[p]
             \/ OfTemporary(p) /\ p \notin DOMAIN u.disk
  <2>1. CASE p \notin DOMAIN u.disk /\ \E i \in Nat : p = <<TemporaryOf(i)>>
    BY <2>1 DEF OfTemporary, TemporaryOf
  <2>2. ~ \E i \in Nat : i >= r.id /\ p \in {<<KeyOf(i)>>, <<JournalOf(i)>>}
    BY <1>1, <1>4
  <2> QED
    BY <1>4, <2>1, <2>2 DEF AlikeFrom
<1> DEFINE Other(p) == \A i \in Nat : p \notin {<<KeyOf(i)>>, <<TemporaryOf(i)>>, <<JournalOf(i)>>}
<1>5. \A p : Other(p) => /\ p \in DOMAIN t.disk <=> p \in DOMAIN u.disk
                         /\ p \in DOMAIN u.disk => u.disk[p] = t.disk[p]
  BY <1>1, <1>2 DEF AlikeFrom
<1>6. \A p \in DOMAIN s.disk : Other(Kept(r, p))
  BY <1>1, TypedPaths, KeptShape
<1>7. \A n \in Managed : Other(Staged(r, n)) /\ Other(<<File(n)>>)
  <2> TAKE n \in Managed
  <2>1. n \in Nat
    BY SizeAssumption DEF Managed
  <2>2. Other(Staged(r, n))
    BY <1>1, <2>1, StagedShape
  <2>3. Other(<<File(n)>>)
    BY Singles
  <2> QED
    BY <2>2, <2>3
<1> HIDE DEF Other
<1> QED
  BY <1>3, <1>4, <1>5, <1>6, <1>7

\* A restore has come as far in both.
LEMMA AlikeProgress ==
    ASSUME NEW t, NEW u, t.count \in Nat,
           NEW s, Typed(s), NEW r, r.id = s.count + 1, AlikeFrom(t, u, r.id),
           Progress(t, s, r)
    PROVE  Progress(u, s, r)
<1> DEFINE Facts ==
           /\ \A p \in DOMAIN s.disk : p \in DOMAIN u.disk => p \in DOMAIN t.disk
           /\ \A p \in DOMAIN s.disk \cap DOMAIN t.disk :
                 \/ p \in DOMAIN u.disk /\ u.disk[p] = t.disk[p]
                 \/ OfTemporary(p) /\ p \notin DOMAIN u.disk
           /\ \A p \in DOMAIN s.disk : Kept(r, p) \in DOMAIN u.disk <=> Kept(r, p) \in DOMAIN t.disk
           /\ \A p \in DOMAIN s.disk :
                 Kept(r, p) \in DOMAIN u.disk => u.disk[Kept(r, p)] = t.disk[Kept(r, p)]
           /\ \A n \in Managed : Staged(r, n) \in DOMAIN u.disk <=> Staged(r, n) \in DOMAIN t.disk
           /\ \A n \in Managed :
                 Staged(r, n) \in DOMAIN u.disk => u.disk[Staged(r, n)] = t.disk[Staged(r, n)]
           /\ \A n \in Managed : <<File(n)>> \in DOMAIN u.disk <=> <<File(n)>> \in DOMAIN t.disk
           /\ \A n \in Managed :
                 <<File(n)>> \in DOMAIN u.disk => u.disk[<<File(n)>>] = t.disk[<<File(n)>>]
<1>1. Facts
  BY AlikeFacts
<1>2. /\ u.dirs = t.dirs /\ u.current = t.current /\ u.count >= t.count
      /\ u.count \in Nat /\ IsFiniteSet(DOMAIN u.disk)
  BY DEF AlikeFrom
<1>3. TakenOver(s) \subseteq DOMAIN s.disk
  BY DEF TakenOver
<1>4. \A p \in TakenOver(s) :
         /\ Home(t, s, r, p) => Home(u, s, r, p) \/ Gone(u, r, p)
         /\ Away(t, s, r, p) => Away(u, s, r, p)
         /\ Gone(t, r, p) => Gone(u, r, p)
  <2> TAKE p \in TakenOver(s)
  <2>1. Home(t, s, r, p) => Home(u, s, r, p) \/ Gone(u, r, p)
    BY <1>1, <1>3 DEF Home, Gone
  <2>2. Away(t, s, r, p) => Away(u, s, r, p)
    BY <1>1, <1>3 DEF Away
  <2>3. Gone(t, r, p) => Gone(u, r, p)
    BY <1>1, <1>3 DEF Gone
  <2> QED
    BY <2>1, <2>2, <2>3
<1>5. \A n \in Managed : /\ Ready(t, s, r, n) <=> Ready(u, s, r, n)
                         /\ Published(t, r, n) <=> Published(u, r, n)
  BY <1>1 DEF Ready, Published
<1>6. Frame(u, s, r)
  <2> USE DEF Frame, Progress
  <2>1. r.id <= u.count /\ IsFiniteSet(u.dirs)
    BY <1>2, NewPaths
  <2>2. \A p \in DOMAIN s.disk \ TakenOver(s) : p \in DOMAIN u.disk /\ u.disk[p] = s.disk[p]
    <3> SUFFICES ASSUME NEW p \in DOMAIN s.disk \ TakenOver(s)
                 PROVE  p \in DOMAIN u.disk /\ u.disk[p] = s.disk[p]
      OBVIOUS
    <3>1. Len(p) > 1 /\ p[1] \in DirectoryNames(s.count)
      BY TypedPaths DEF TakenOver
    <3>2. ~OfTemporary(p)
      BY <3>1 DEF OfTemporary, DirectoryNames
    <3> QED
      BY <1>1, <3>2
  <2>3. ASSUME NEW p \in DOMAIN u.disk
        PROVE  \/ p \in DOMAIN s.disk
               \/ \E q \in TakenOver(s) : p = Kept(r, q)
               \/ \E n \in Managed : p \in {<<File(n)>>, Staged(r, n)}
               \/ \E i \in r.id..u.count : p \in {<<KeyOf(i)>>, <<TemporaryOf(i)>>}
               \/ p = <<JournalOf(r.id)>>
    <3>1. CASE p \in DOMAIN t.disk
      <4>1. \A i \in r.id..t.count : i \in r.id..u.count
        BY <1>2, NewPaths
      <4> QED
        BY <3>1, <4>1
    <3>2. CASE p \notin DOMAIN t.disk
      BY <2>3, <3>2 DEF AlikeFrom
    <3> QED
      BY <3>1, <3>2
  <2>4. \A n \in Managed : Staged(r, n) \in DOMAIN u.disk => u.disk[Staged(r, n)] = Image(r.id)
    BY <1>1
  <2> QED
    BY <1>2, <2>1, <2>2, <2>3, <2>4
<1> HIDE DEF Facts
<1>7. InStaging(t, s, r) => InStaging(u, s, r)
  <2>1. \A n \in Managed : <<File(n)>> \in DOMAIN u.disk => <<File(n)>> \in DOMAIN t.disk
    BY <1>1 DEF Facts
  <2> QED
    BY <1>2, <1>4, <2>1 DEF InStaging
<1>8. InExchange(t, s, r) => InExchange(u, s, r)
  BY <1>2, <1>4, <1>5 DEF InExchange
<1>9. InCommitted(t, s, r) => InCommitted(u, s, r)
  BY <1>2, <1>4, <1>5 DEF InCommitted
<1>10. InCleanup(t, s, r) => InCleanup(u, s, r)
  <2> SUFFICES ASSUME InCleanup(t, s, r) PROVE InCleanup(u, s, r)
    OBVIOUS
  <2>1. u.current = r.id
    BY <1>2 DEF InCleanup
  <2>2. \A n \in Managed : <<File(n)>> \in DOMAIN u.disk /\ u.disk[<<File(n)>>] = Image(r.id)
    BY <1>1 DEF InCleanup, Facts
  <2>3. \A p \in TakenOver(s) :
          /\ p \in DOMAIN u.disk => \E n \in Managed : p = <<File(n)>>
          /\ Kept(r, p) \in DOMAIN u.disk => u.disk[Kept(r, p)] = s.disk[p]
          /\ Kept(r, p) \in DOMAIN u.disk \/ r.branch = "healthy"
    BY <1>1, <1>3 DEF InCleanup, Facts
  <2> QED
    BY <2>1, <2>2, <2>3 DEF InCleanup
<1> QED
  BY <1>6, <1>7, <1>8, <1>9, <1>10 DEF Progress

\* What n restores can have made, more can.
LEMMA PathGrows ==
    ASSUME NEW m \in Nat, NEW n \in Nat, m <= n
    PROVE  /\ \A p : Path(p, m) => Path(p, n)
           /\ DirectoryNames(m) \subseteq DirectoryNames(n) /\ FileNames(m) \subseteq FileNames(n)
<1>1. 1..m \subseteq 1..n
  OBVIOUS
<1>2. DirectoryNames(m) \subseteq DirectoryNames(n)
  BY <1>1 DEF DirectoryNames
<1>3. FileNames(m) \subseteq FileNames(n)
  BY <1>1 DEF FileNames
<1> QED
  BY <1>2, <1>3 DEF Path

\* A file's name is a path.
LEMMA TopPath ==
    ASSUME NEW count \in Nat, NEW x \in FileNames(count)
    PROVE  Path(<<x>>, count) /\ Len(<<x>>) = 1 /\ <<x>>[Len(<<x>>)] = x /\ <<x>>[1] = x
<1>1. x \in Names
  BY SizeAssumption DEF FileNames, Names, Managed
<1> QED
  BY <1>1, OneName DEF Path

\* The names of files of the directory itself.
LEMMA TopNames ==
    ASSUME NEW count \in Nat
    PROVE  /\ \A i \in 1..count : {JournalOf(i), TemporaryOf(i), KeyOf(i)} \subseteq FileNames(count)
           /\ \A n \in Managed : File(n) \in FileNames(count)
BY DEF FileNames, JournalOf, TemporaryOf, KeyOf, File

\* The snapshots of the history, as far as they are needed for a directory in
\* which `count` restores have begun.
Recorded(b, count) == \A i \in 1..count : b[i].count = i - 1 /\ Typed(b[i])

\* What can be left behind can be left behind with other keys and temporaries.
LEMMA AlikeSnapshot ==
    ASSUME NEW b, NEW t, NEW u, Recorded(b, t.count), SnapshotOK(t, b), Alike(t, u)
    PROVE  SnapshotOK(u, b)
<1> USE DEF SnapshotOK
<1>1. /\ \A p \in DOMAIN t.disk : IsKeyOrTemporary(p) \/ (p \in DOMAIN u.disk /\ u.disk[p] = t.disk[p])
      /\ \A p \in DOMAIN u.disk : IsKeyOrTemporary(p) \/ (p \in DOMAIN t.disk /\ u.disk[p] = t.disk[p])
      /\ JournalsOf(u) = JournalsOf(t)
  BY AlikeFiles DEF Typed
<1>2. /\ u.dirs = t.dirs /\ u.current = t.current /\ u.count >= t.count
      /\ u.count \in Nat /\ IsFiniteSet(DOMAIN u.disk) /\ t.count \in Nat
  BY DEF Alike, Typed
<1>3. \A p : IsKeyOrTemporary(p) => /\ Len(p) = 1 /\ p[Len(p)][1] \in {"key", "temporary"}
                                    /\ p[Len(p)] = p[1]
  BY DEF IsKeyOrTemporary, KeyOf, TemporaryOf
<1>4. \A p \in DOMAIN u.disk :
         p \in DOMAIN t.disk \/ \E x \in FileNames(u.count) : p = <<x>>
  BY <1>2, TopNames DEF Alike
<1>5. Typed(u)
  <2>1. u.count \in Nat /\ u.current \in 0..u.count
    BY <1>2 DEF Typed
  <2>2. IsFiniteSet(u.dirs)
    BY <1>2 DEF Typed
  <2>3. \A p \in DOMAIN u.disk : Path(p, u.count) /\ p[Len(p)] \in FileNames(u.count)
    <3> TAKE p \in DOMAIN u.disk
    <3>1. CASE p \in DOMAIN t.disk
      BY <3>1, <1>2, PathGrows DEF Typed
    <3>2. CASE \E x \in FileNames(u.count) : p = <<x>>
      BY <3>2, <1>2, TopPath
    <3> QED
      BY <1>4, <3>1, <3>2
  <2>4. \A p \in DOMAIN u.disk :
           p[Len(p)][1] = "file" => \E i \in 0..u.count : u.disk[p] = Image(i)
    <3> SUFFICES ASSUME NEW p \in DOMAIN u.disk, p[Len(p)][1] = "file"
                 PROVE  \E i \in 0..u.count : u.disk[p] = Image(i)
      OBVIOUS
    <3>1. p \in DOMAIN t.disk /\ u.disk[p] = t.disk[p]
      BY <1>1, <1>3
    <3>2. PICK i \in 0..t.count : t.disk[p] = Image(i)
      BY <3>1 DEF Typed
    <3>3. i \in 0..u.count
      BY <1>2
    <3> QED
      BY <3>1, <3>2, <3>3
  <2>5. \A d \in u.dirs : /\ Path(d, u.count) /\ d[Len(d)] \in DirectoryNames(u.count)
                          /\ d[1][1] = "staging" => Len(d) = 1
    BY <1>2, PathGrows DEF Typed
  <2> QED
    BY <1>2, <2>1, <2>2, <2>3, <2>4, <2>5 DEF Typed
<1>6. Tree(u)
  <2> SUFFICES ASSUME NEW p \in DOMAIN u.disk \cup u.dirs, Len(p) > 1 PROVE Front(p) \in u.dirs
    BY DEF Tree
  <2>1. p \in DOMAIN t.disk \cup t.dirs
    BY <1>1, <1>2, <1>3
  <2> QED
    BY <1>2, <2>1 DEF Tree
<1>7. RecordsOK(u, b)
  <2> SUFFICES ASSUME NEW p \in DOMAIN u.disk, p[Len(p)][1] = "journal"
               PROVE  RecordOK(u.disk[p], b[p[Len(p)][2]])
    BY DEF RecordsOK
  <2>1. p \in DOMAIN t.disk /\ u.disk[p] = t.disk[p]
    BY <1>1, <1>3
  <2> QED
    BY <2>1 DEF RecordsOK
<1>8. WholeOK(u)
  <2>1. \A n \in Managed : ~IsKeyOrTemporary(<<File(n)>>)
    BY Singles DEF IsKeyOrTemporary
  <2> QED
    BY <1>1, <1>2, <2>1 DEF WholeOK
<1>9. LeftoversOK(u)
  <2> SUFFICES ASSUME NEW d \in u.dirs, d[1][1] = "staging"
               PROVE  \E p \in DOMAIN u.disk : p[Len(p)] = <<"journal", d[1][2]>>
    BY DEF LeftoversOK
  <2>1. PICK p \in DOMAIN t.disk : p[Len(p)] = <<"journal", d[1][2]>>
    BY <1>2 DEF LeftoversOK
  <2>2. p[Len(p)][1] = "journal"
    BY <2>1
  <2> QED
    BY <1>1, <1>3, <2>1, <2>2
<1>10. LatestOK(u, b)
  <2> SUFFICES ASSUME NEW k \in JournalsOf(u), IsLatest(u, k)
               PROVE  /\ <<KeyOf(k)>> \in DOMAIN u.disk /\ u.disk[<<KeyOf(k)>>] = Whole
                      /\ Progress(u, b[k], u.disk[<<JournalOf(k)>>])
    BY DEF LatestOK
  <2>1. k \in JournalsOf(t) /\ IsLatest(t, k) /\ k \in 1..t.count
    BY <1>1 DEF IsLatest, JournalsOf
  <2>2. /\ <<KeyOf(k)>> \in DOMAIN t.disk /\ t.disk[<<KeyOf(k)>>] = Whole
        /\ Progress(t, b[k], t.disk[<<JournalOf(k)>>])
    BY <2>1 DEF LatestOK
  <2>3. <<JournalOf(k)>> \in DOMAIN t.disk /\ u.disk[<<JournalOf(k)>>] = t.disk[<<JournalOf(k)>>]
    <3>1. ~IsKeyOrTemporary(<<JournalOf(k)>>)
      BY Singles DEF IsKeyOrTemporary
    <3> QED
      BY <1>1, <2>1, <3>1 DEF JournalsOf
  <2>4. Typed(b[k]) /\ b[k].count = k - 1
    BY <2>1 DEF Recorded
  <2>5. RecordOK(t.disk[<<JournalOf(k)>>], b[k])
    <3>1. <<JournalOf(k)>>[Len(<<JournalOf(k)>>)] = JournalOf(k)
      OBVIOUS
    <3>2. JournalOf(k)[1] = "journal" /\ JournalOf(k)[2] = k
      BY DEF JournalOf
    <3> QED
      BY <2>3, <3>1, <3>2 DEF RecordsOK
  <2>6. t.disk[<<JournalOf(k)>>].id = b[k].count + 1 /\ t.disk[<<JournalOf(k)>>].id = k
    <3>1. t.disk[<<JournalOf(k)>>].id = b[k].count + 1
      BY <2>5, Zenon DEF RecordOK
    <3>2. k \in Nat
      BY <1>2, <2>1
    <3> QED
      BY <2>4, <3>1, <3>2
  <2>7. Progress(u, b[k], t.disk[<<JournalOf(k)>>])
    BY <1>2, <2>1, <2>2, <2>4, <2>6, AlikeIsFrom, AlikeProgress
  <2>8. <<KeyOf(k)>> \in DOMAIN u.disk /\ u.disk[<<KeyOf(k)>>] = t.disk[<<KeyOf(k)>>]
    <3>1. \A i : <<KeyOf(k)>> # <<TemporaryOf(i)>>
      BY Singles
    <3>2. \A i \in 1..u.count : <<KeyOf(k)>> = <<KeyOf(i)>> => ~(k < i)
      BY <2>1, <1>2, Singles
    <3> QED
      BY <2>1, <2>2, <3>1, <3>2 DEF Alike
  <2> QED
    BY <2>2, <2>3, <2>7, <2>8
<1> QED
  BY <1>5, <1>6, <1>7, <1>8, <1>9, <1>10

----------------------------------------------------------------------------
(* What a restore that has got so far says of the whole directory          *)

\* Progress, by the kind of the phase.
LEMMA PhasesAre ==
    ASSUME NEW t, NEW s, NEW r, Progress(t, s, r), r.phase \in Phases
    PROVE  \/ InStaging(t, s, r) /\ r.phase \in {"staging"} \cup UndonePhases
           \/ InExchange(t, s, r) /\ r.phase \in {"publishing", "rollback"}
           \/ InCommitted(t, s, r) /\ r.phase = "committed"
           \/ InCleanup(t, s, r) /\ r.phase = "committed-cleanup"
BY DEF Progress, Phases, CleanupPhases, UndonePhases

\* Every file is one that was there, in its place or in the evidence, one of
\* the backup, a later key or temporary, or the journal.
LEMMA ProgressFiles ==
    ASSUME NEW t, NEW s, NEW r, Typed(s), r.id = s.count + 1,
           Progress(t, s, r), r.phase \in Phases, NEW p \in DOMAIN t.disk
    PROVE  \/ p \in DOMAIN s.disk /\ t.disk[p] = s.disk[p]
           \/ \E q \in TakenOver(s) : p = Kept(r, q) /\ t.disk[p] = s.disk[q]
           \/ \E n \in Managed : p \in {<<File(n)>>, Staged(r, n)} /\ t.disk[p] = Image(r.id)
           \/ \E i \in r.id..t.count : p \in {<<KeyOf(i)>>, <<TemporaryOf(i)>>}
           \/ p = <<JournalOf(r.id)>>
<1>1. \/ InStaging(t, s, r) \/ InExchange(t, s, r) \/ InCommitted(t, s, r) \/ InCleanup(t, s, r)
  BY PhasesAre
<1>2. Frame(t, s, r)
  BY DEF Progress
<1>3. CASE p \in DOMAIN s.disk /\ p \notin TakenOver(s)
  BY <1>2, <1>3 DEF Frame
<1>4. CASE p \in TakenOver(s)
  <2>1. p \in DOMAIN s.disk
    BY <1>4 DEF TakenOver
  <2>2. CASE InStaging(t, s, r)
    BY <1>4, <2>1, <2>2 DEF InStaging, Home, Gone
  <2>3. CASE InExchange(t, s, r)
    <3>1. Home(t, s, r, p) \/ Away(t, s, r, p) \/ Gone(t, r, p)
      BY <1>4, <2>3 DEF InExchange
    <3> QED
      BY <2>1, <3>1 DEF Home, Away, Gone
  <2>4. CASE InCommitted(t, s, r)
    BY <1>4, <2>4 DEF InCommitted, Away
  <2>5. CASE InCleanup(t, s, r)
    BY <1>4, <2>5 DEF InCleanup
  <2> QED
    BY <1>1, <2>2, <2>3, <2>4, <2>5
<1>5. ASSUME NEW q \in TakenOver(s), p = Kept(r, q)
      PROVE  t.disk[p] = s.disk[q]
  BY <1>1, <1>5 DEF InStaging, InExchange, InCommitted, InCleanup, Home, Away, Gone
<1>6. ASSUME NEW n \in Managed, p = <<File(n)>>, p \notin DOMAIN s.disk
      PROVE  t.disk[p] = Image(r.id)
  BY <1>1, <1>6 DEF InStaging, InExchange, InCommitted, InCleanup, Ready, Published
<1>7. ASSUME NEW n \in Managed, p = Staged(r, n)
      PROVE  t.disk[p] = Image(r.id)
  BY <1>2, <1>7 DEF Frame
<1>8. TakenOver(s) \subseteq DOMAIN s.disk
  BY DEF TakenOver
<1>9. \/ p \in DOMAIN s.disk
      \/ \E q \in TakenOver(s) : p = Kept(r, q)
      \/ \E n \in Managed : p \in {<<File(n)>>, Staged(r, n)}
      \/ \E i \in r.id..t.count : p \in {<<KeyOf(i)>>, <<TemporaryOf(i)>>}
      \/ p = <<JournalOf(r.id)>>
  BY <1>2 DEF Frame
<1> QED
  BY <1>3, <1>4, <1>5, <1>6, <1>7, <1>9

\* The evidence of what n restores made is what one more can have made.
LEMMA KeptPath ==
    ASSUME NEW s, Typed(s), NEW r, r.id = s.count + 1, NEW count \in Nat, r.id <= count,
           NEW q, Path(q, s.count)
    PROVE  Path(Kept(r, q), count) /\ Kept(r, q)[Len(Kept(r, q))] = q[Len(q)]
<1>1. r.id \in Nat /\ s.count \in Nat /\ s.count <= count /\ r.id \in 1..count
  BY DEF Typed
<1>2. q \in Seq(Names) /\ q # <<>> /\ Len(q) \in Nat \ {0}
  BY <1>1, PathMeans
<1>3. /\ Kept(r, q) \in Seq(Names) /\ Len(Kept(r, q)) = Len(q) + 1
      /\ Kept(r, q)[1] = PreviousOf(r.id)
      /\ \A m \in 1..Len(q) : Kept(r, q)[m + 1] = q[m]
  BY <1>1, <1>2, KeptMeans
<1>4. PreviousOf(r.id) \in DirectoryNames(count)
  BY <1>1 DEF DirectoryNames, PreviousOf
<1>5. \A m \in 1..(Len(q) - 1) : q[m] \in DirectoryNames(count)
  BY <1>1, PathGrows DEF Path
<1>6. ASSUME NEW m \in 1..(Len(Kept(r, q)) - 1)
      PROVE  Kept(r, q)[m] \in DirectoryNames(count)
  <2>1. m = 1 \/ (m - 1 \in 1..(Len(q) - 1) /\ m - 1 \in 1..Len(q) /\ (m - 1) + 1 = m)
    BY <1>2, <1>3
  <2>2. CASE m = 1
    BY <1>3, <1>4, <2>2
  <2>3. CASE m - 1 \in 1..(Len(q) - 1) /\ m - 1 \in 1..Len(q) /\ (m - 1) + 1 = m
    <3>1. Kept(r, q)[(m - 1) + 1] = q[m - 1]
      BY <1>3, <2>3
    <3> QED
      BY <1>5, <2>3, <3>1
  <2> QED
    BY <2>1, <2>2, <2>3
<1>7. Kept(r, q) # <<>> /\ Kept(r, q)[Len(Kept(r, q))] = q[Len(q)]
  BY <1>1, <1>2, KeptShape
<1> QED
  BY <1>3, <1>6, <1>7 DEF Path

\* So are the directories it makes.
LEMMA WantedPaths ==
    ASSUME NEW s, Typed(s), NEW r, RecordOK(r, s), NEW count \in Nat, r.id <= count,
           NEW d \in Wanted(r)
    PROVE  /\ Path(d, count) /\ d[Len(d)] \in DirectoryNames(count)
           /\ d[1] \in {StagingOf(r.id), PreviousOf(r.id)}
           /\ d[1][1] = "staging" => d = <<StagingOf(r.id)>> /\ Len(d) = 1
<1>1. r.id = s.count + 1 /\ r.id \in Nat /\ r.id \in 1..count /\ s.count \in Nat /\ s.count <= count
  BY DEF RecordOK, Typed
<1>2. /\ {StagingOf(r.id), PreviousOf(r.id)} \subseteq DirectoryNames(count) \cap Names
      /\ PreviousOf(r.id)[1] # "staging"
  BY <1>1, NamesAre DEF DirectoryNames, StagingOf, PreviousOf
<1>3. CASE d \in {<<StagingOf(r.id)>>, <<PreviousOf(r.id)>>}
  <2>1. PICK x \in {StagingOf(r.id), PreviousOf(r.id)} : d = <<x>>
    BY <1>3
  <2>2. x \in Names /\ x \in DirectoryNames(count)
    BY <1>2
  <2>3. d \in Seq(Names) /\ Len(d) = 1 /\ d[1] = x /\ d # <<>>
    BY <2>1, <2>2, OneName
  <2> QED
    BY <1>2, <2>1, <2>2, <2>3 DEF Path
<1>4. CASE \E n \in DOMAIN r.directories : d = Kept(r, r.directories[n])
  <2>1. PICK n \in DOMAIN r.directories : d = Kept(r, r.directories[n])
    BY <1>4
  <2>2. r.directories[n] \in s.dirs
    BY DEF RecordOK, TakenDirectories
  <2>3. /\ Path(r.directories[n], s.count)
        /\ r.directories[n][Len(r.directories[n])] \in DirectoryNames(count)
    BY <1>1, <2>2, PathGrows DEF Typed
  <2>4. r.directories[n] \in Seq(Names)
    BY <2>3 DEF Path
  <2>5. d[1] = PreviousOf(r.id)
    BY <1>1, <2>1, <2>4, KeptMeans
  <2> QED
    BY <1>1, <1>2, <2>1, <2>3, <2>5, KeptPath
<1> QED
  BY <1>3, <1>4 DEF Wanted

\* A restore at work keeps the directory well-typed.
LEMMA ProgressTyped ==
    ASSUME NEW t, t.count \in Nat, NEW s, NEW r, Typed(s), RecordOK(r, s), Progress(t, s, r)
    PROVE  Typed(t)
<1>1. /\ r.id = s.count + 1 /\ r.id \in Nat /\ r.id <= t.count /\ s.count \in Nat
      /\ s.count <= t.count /\ r.phase \in Phases /\ s.current \in 0..s.count
      /\ r.id \in 1..t.count
  BY DEF RecordOK, Typed, Progress, Frame
<1>2. t.current \in 0..t.count
  BY <1>1, PhasesAre DEF InStaging, InExchange, InCommitted, InCleanup
<1>3. ASSUME NEW p \in DOMAIN t.disk
      PROVE  /\ Path(p, t.count) /\ p[Len(p)] \in FileNames(t.count)
             /\ p[Len(p)][1] = "file" => \E i \in 0..t.count : t.disk[p] = Image(i)
  <2>1. CASE p \in DOMAIN s.disk /\ t.disk[p] = s.disk[p]
    <3>1. Path(p, t.count) /\ p[Len(p)] \in FileNames(t.count)
      BY <1>1, <2>1, PathGrows DEF Typed
    <3>2. ASSUME p[Len(p)][1] = "file" PROVE \E i \in 0..t.count : t.disk[p] = Image(i)
      <4>1. PICK i \in 0..s.count : t.disk[p] = Image(i)
        BY <2>1, <3>2 DEF Typed
      <4>2. i \in 0..t.count
        BY <1>1
      <4> QED
        BY <4>1, <4>2
    <3> QED
      BY <3>1, <3>2
  <2>2. CASE \E q \in TakenOver(s) : p = Kept(r, q) /\ t.disk[p] = s.disk[q]
    <3>1. PICK q \in TakenOver(s) : p = Kept(r, q) /\ t.disk[p] = s.disk[q]
      BY <2>2
    <3>2. q \in DOMAIN s.disk /\ Path(q, s.count) /\ q[Len(q)] \in FileNames(t.count)
      BY <1>1, PathGrows DEF Typed, TakenOver
    <3>3. Path(p, t.count) /\ p[Len(p)] = q[Len(q)]
      BY <1>1, <3>1, <3>2, KeptPath
    <3>4. ASSUME q[Len(q)][1] = "file" PROVE \E i \in 0..t.count : t.disk[p] = Image(i)
      <4>1. PICK i \in 0..s.count : t.disk[p] = Image(i)
        BY <3>1, <3>2, <3>4 DEF Typed
      <4>2. i \in 0..t.count
        BY <1>1
      <4> QED
        BY <4>1, <4>2
    <3> QED
      BY <3>2, <3>3, <3>4
  <2>3. CASE \E n \in Managed : p \in {<<File(n)>>, Staged(r, n)} /\ t.disk[p] = Image(r.id)
    <3>1. PICK n \in Managed : p \in {<<File(n)>>, Staged(r, n)} /\ t.disk[p] = Image(r.id)
      BY <2>3
    <3>2. n \in Nat /\ r.id \in 0..t.count /\ File(n) \in FileNames(t.count)
      BY <1>1, SizeAssumption, TopNames DEF Managed
    <3>3. CASE p = <<File(n)>>
      BY <1>1, <3>1, <3>2, <3>3, TopPath
    <3>4. CASE p = Staged(r, n)
      <4>1. p \in Seq(Names) /\ Len(p) = 2 /\ p[1] = StagingOf(r.id) /\ p[2] = File(n)
        BY <1>1, <3>2, <3>4, StagedMeans
      <4>2. p # <<>> /\ p[Len(p)] = File(n)
        <5>1. \A k : k = 2 => p[k] = File(n)
          BY <4>1
        <5> QED
          BY <4>1, <5>1
      <4>4. \A m \in 1..(Len(p) - 1) : m = 1
        <5>1. \A k : k = 2 => \A m \in 1..(k - 1) : m = 1
          OBVIOUS
        <5> QED
          BY <4>1, <5>1, Zenon
      <4>3. StagingOf(r.id) \in DirectoryNames(t.count)
        BY <1>1 DEF DirectoryNames, StagingOf
      <4> QED
        BY <3>1, <3>2, <4>1, <4>2, <4>3, <4>4 DEF Path
    <3> QED
      BY <3>1, <3>3, <3>4
  <2>4. CASE \/ \E i \in r.id..t.count : p \in {<<KeyOf(i)>>, <<TemporaryOf(i)>>}
             \/ p = <<JournalOf(r.id)>>
    <3>1. PICK i \in 1..t.count : p \in {<<KeyOf(i)>>, <<TemporaryOf(i)>>, <<JournalOf(i)>>}
      BY <1>1, <2>4
    <3>2. {JournalOf(i), TemporaryOf(i), KeyOf(i)} \subseteq FileNames(t.count)
      BY TopNames
    <3>3. JournalOf(i)[1] # "file" /\ TemporaryOf(i)[1] # "file" /\ KeyOf(i)[1] # "file"
      BY DEF JournalOf, TemporaryOf, KeyOf
    <3>4. PICK x \in {JournalOf(i), TemporaryOf(i), KeyOf(i)} : p = <<x>>
      BY <3>1
    <3> QED
      BY <3>2, <3>3, <3>4, TopPath
  <2> QED
    BY <1>1, <2>1, <2>2, <2>3, <2>4, ProgressFiles
<1>4. ASSUME NEW d \in t.dirs
      PROVE  /\ Path(d, t.count) /\ d[Len(d)] \in DirectoryNames(t.count)
             /\ d[1][1] = "staging" => Len(d) = 1
  <2>1. CASE d \in s.dirs
    BY <1>1, <2>1, PathGrows DEF Typed
  <2>2. CASE d \in Wanted(r)
    BY <1>1, <2>2, WantedPaths
  <2> QED
    BY <2>1, <2>2 DEF Progress, Frame
<1> QED
  BY <1>2, <1>3, <1>4 DEF Typed, Progress, Frame

\* It keeps the journals of the others what they were.
LEMMA ProgressRecords ==
    ASSUME NEW b, NEW t, NEW s, Typed(s), RecordsOK(s, b), NEW r, RecordOK(r, s),
           Progress(t, s, r), b[r.id] = s, t.disk[<<JournalOf(r.id)>>] = r
    PROVE  RecordsOK(t, b)
<1>1. r.id = s.count + 1 /\ r.id \in Nat /\ r.phase \in Phases /\ s.count \in Nat
  BY DEF RecordOK, Typed
<1> SUFFICES ASSUME NEW p \in DOMAIN t.disk, p[Len(p)][1] = "journal"
             PROVE  RecordOK(t.disk[p], b[p[Len(p)][2]])
  BY DEF RecordsOK
<1>2. CASE p \in DOMAIN s.disk /\ t.disk[p] = s.disk[p]
  BY <1>2 DEF RecordsOK
<1>3. CASE \E q \in TakenOver(s) : p = Kept(r, q) /\ t.disk[p] = s.disk[q]
  <2>1. PICK q \in TakenOver(s) : p = Kept(r, q) /\ t.disk[p] = s.disk[q]
    BY <1>3
  <2>2. q \in DOMAIN s.disk /\ q \in Seq(Names) /\ q # <<>>
    BY TypedPaths DEF TakenOver
  <2>3. p[Len(p)] = q[Len(q)]
    BY <1>1, <2>1, <2>2, KeptShape
  <2> QED
    BY <2>1, <2>2, <2>3 DEF RecordsOK
<1>4. ASSUME NEW x, x[1] # "journal" PROVE p # <<x>>
  <2>1. <<x>>[Len(<<x>>)] = x
    OBVIOUS
  <2> QED
    BY <1>4, <2>1
<1>5. \A i : p # <<File(i)>> /\ p # <<KeyOf(i)>> /\ p # <<TemporaryOf(i)>>
  BY <1>4 DEF File, KeyOf, TemporaryOf
<1>6. ASSUME NEW n \in Managed PROVE p # Staged(r, n)
  <2>1. n \in Nat
    BY SizeAssumption DEF Managed
  <2>2. Len(Staged(r, n)) = 2 /\ Staged(r, n)[2] = File(n)
    BY <1>1, <2>1, StagedMeans
  <2>3. Staged(r, n)[Len(Staged(r, n))][1] # "journal"
    BY <2>2 DEF File
  <2> QED
    BY <2>3
<1>7. CASE p = <<JournalOf(r.id)>>
  <2>1. p[Len(p)] = JournalOf(r.id)
    BY <1>7
  <2>2. p[Len(p)][2] = r.id
    BY <2>1 DEF JournalOf
  <2> QED
    BY <1>7, <2>2
<1> QED
  BY <1>1, <1>2, <1>3, <1>5, <1>6, <1>7, ProgressFiles

\* The last name of a journal's path is the journal's.
LEMMA JournalIsLast ==
    ASSUME NEW i
    PROVE  <<JournalOf(i)>>[Len(<<JournalOf(i)>>)] = <<"journal", i>>
<1>1. <<JournalOf(i)>>[Len(<<JournalOf(i)>>)] = JournalOf(i)
  OBVIOUS
<1> QED
  BY <1>1 DEF JournalOf

\* A journal that the restore takes over is at home or in its previous
\* directory, whatever the restore has come to.
LEMMA ProgressJournals ==
    ASSUME NEW t, NEW s, Typed(s), NEW r, RecordOK(r, s), Progress(t, s, r),
           NEW p \in DOMAIN s.disk, p[Len(p)][1] = "journal"
    PROVE  p \in DOMAIN t.disk \/ Kept(r, p) \in DOMAIN t.disk
<1>1. r.phase \in Phases /\ (r.branch = "healthy" => JournalsOf(s) = {})
      /\ r.id = s.count + 1 /\ s.count \in Nat
  BY DEF RecordOK, Typed
<1>2. CASE p \notin TakenOver(s)
  BY <1>2 DEF Progress, Frame
<1>3. ~OfTemporary(p)
  <2>1. CASE Len(p) = 1
    BY <2>1 DEF OfTemporary
  <2>2. CASE Len(p) # 1
    <3>1. p[1] \in DirectoryNames(s.count)
      BY <2>2, TypedPaths
    <3> QED
      BY <3>1 DEF DirectoryNames, OfTemporary
  <2> QED
    BY <2>1, <2>2
<1>4. CASE p \in TakenOver(s) /\ r.branch = "healthy"
  <2>1. Len(p) = 1
    BY <1>1, <1>4 DEF TakenOver, InPending
  <2>2. Path(p, s.count) /\ p[Len(p)] \in FileNames(s.count) /\ p = <<p[1]>>
    BY <1>1, <2>1, PathMeans DEF Typed
  <2>3. PICK i \in 1..s.count : p[1] = JournalOf(i)
    BY <2>1, <2>2 DEF FileNames, JournalOf
  <2>4. i \in JournalsOf(s)
    BY <2>2, <2>3 DEF JournalsOf
  <2> QED
    BY <1>1, <1>4, <2>4
<1>5. CASE p \in TakenOver(s) /\ r.branch # "healthy"
  <2>1. \/ Home(t, s, r, p) \/ Away(t, s, r, p) \/ Gone(t, r, p)
        \/ Kept(r, p) \in DOMAIN t.disk
    BY <1>1, <1>5, PhasesAre DEF InStaging, InExchange, InCommitted, InCleanup
  <2> QED
    BY <1>3, <2>1 DEF Home, Away, Gone
<1> QED
  BY <1>2, <1>4, <1>5

\* It leaves no staging directory without its journal.
LEMMA ProgressLeftovers ==
    ASSUME NEW t, NEW s, Typed(s), LeftoversOK(s), NEW r, RecordOK(r, s), Progress(t, s, r),
           <<JournalOf(r.id)>> \in DOMAIN t.disk
    PROVE  LeftoversOK(t)
<1>1. r.id = s.count + 1 /\ r.id \in Nat
  BY DEF RecordOK, Typed
<1> SUFFICES ASSUME NEW d \in t.dirs, d[1][1] = "staging"
             PROVE  \E p \in DOMAIN t.disk : p[Len(p)] = <<"journal", d[1][2]>>
  BY DEF LeftoversOK
<1>2. CASE d \in s.dirs
  <2>1. PICK p \in DOMAIN s.disk : p[Len(p)] = <<"journal", d[1][2]>>
    BY <1>2 DEF LeftoversOK
  <2>2. p[Len(p)][1] = "journal" /\ p \in Seq(Names) /\ p # <<>>
    BY <2>1, TypedPaths
  <2>3. p \in DOMAIN t.disk \/ Kept(r, p) \in DOMAIN t.disk
    BY <2>2, ProgressJournals
  <2>4. Kept(r, p)[Len(Kept(r, p))] = p[Len(p)]
    BY <1>1, <2>2, KeptShape
  <2> QED
    BY <2>1, <2>3, <2>4
<1>3. CASE d \in Wanted(r)
  <2>1. d = <<StagingOf(r.id)>>
    <3>1. r.id <= r.id
      BY <1>1
    <3> QED
      BY <1>1, <1>3, <3>1, WantedPaths
  <2>2. d[1] = StagingOf(r.id)
    BY <2>1
  <2>3. d[1][2] = r.id
    BY <2>2 DEF StagingOf
  <2> QED
    BY <2>3, JournalIsLast
<1> QED
  BY <1>2, <1>3 DEF Progress, Frame

\* A restore with its journal in place leaves a directory that recovery can
\* start from, wherever it is interrupted.
LEMMA ProgressSnapshot ==
    ASSUME NEW b, NEW t, t.count \in Nat,
           NEW s, Typed(s), RecordsOK(s, b), LeftoversOK(s),
           NEW r, RecordOK(r, s), Progress(t, s, r), b[r.id] = s,
           IsLatest(t, r.id), t.disk[<<JournalOf(r.id)>>] = r,
           <<KeyOf(r.id)>> \in DOMAIN t.disk, t.disk[<<KeyOf(r.id)>>] = Whole,
           Tree(t)
    PROVE  SnapshotOK(t, b)
<1>1. Typed(t)
  BY ProgressTyped
<1>2. RecordsOK(t, b)
  BY ProgressRecords
<1>3. r.id \in JournalsOf(t) /\ <<JournalOf(r.id)>> \in DOMAIN t.disk
  BY DEF IsLatest, JournalsOf
<1>4. WholeOK(t)
  BY <1>3 DEF WholeOK
<1>5. LeftoversOK(t)
  BY <1>3, ProgressLeftovers
<1>6. LatestOK(t, b)
  <2>1. \A k \in JournalsOf(t) : IsLatest(t, k) => k = r.id
    BY DEF IsLatest, JournalsOf
  <2> QED
    BY <2>1 DEF LatestOK
<1> QED
  BY <1>1, <1>2, <1>4, <1>5, <1>6 DEF SnapshotOK

----------------------------------------------------------------------------
(* The process                                                             *)

\* What is known at every step of a restore or of its settlement.
LEMMA WorkFacts ==
    ASSUME NEW b, InvOf(b), pc \notin {"idle", "sweep"}
    PROVE  /\ WorkingOK(b[mem.id]) /\ command \in {"restore", "settle"} /\ refusal = "none"
           /\ mem.id \in 1..begun /\ mem.id \in Nat /\ begun \in Nat
           /\ RecordOK(mem, b[mem.id])
           /\ SnapshotOK(b[mem.id], b) /\ Typed(b[mem.id]) /\ b[mem.id].count = mem.id - 1
           /\ mem.id = b[mem.id].count + 1
           /\ Recorded(b, begun) /\ SnapshotOK(Now, b) /\ Typed(Now) /\ Now.count = begun
           /\ mem.phase \in Phases
<1>1. SnapshotOK(Now, b) /\ Typed(Now) /\ Now.count = begun /\ begun \in Nat
  BY DEF InvOf, SnapshotOK, Typed, Now
<1>2. /\ WorkingOK(b[mem.id]) /\ command \in {"restore", "settle"} /\ refusal = "none"
      /\ mem.id \in 1..begun /\ RecordOK(mem, b[mem.id])
  BY DEF InvOf, ProcessOK, RefusalOK, WorkingOK
<1>3. Recorded(b, begun) /\ SnapshotOK(b[mem.id], b) /\ b[mem.id].count = mem.id - 1
  BY <1>2 DEF InvOf, HistoryOK, Recorded, SnapshotOK
<1> QED
  BY <1>1, <1>2, <1>3 DEF SnapshotOK, RecordOK

\* The restore with the journal is the last there is.
LEMMA ProgressLatest ==
    ASSUME NEW t, NEW s, Typed(s), NEW r, RecordOK(r, s), Progress(t, s, r), t.count \in Nat,
           <<JournalOf(r.id)>> \in DOMAIN t.disk
    PROVE  IsLatest(t, r.id)
<1>1. r.id = s.count + 1 /\ r.id \in Nat /\ s.count \in Nat /\ r.id <= t.count /\ r.id \in 1..t.count
  BY DEF RecordOK, Typed, Progress, Frame
<1>2. r.id \in JournalsOf(t)
  BY <1>1 DEF JournalsOf
<1>3. ASSUME NEW i \in JournalsOf(t) PROVE i <= r.id
  <2>1. i \in Nat /\ <<JournalOf(i)>> \in DOMAIN t.disk
    BY DEF JournalsOf
  <2>2. \/ <<JournalOf(i)>> \in DOMAIN s.disk
        \/ \E q \in TakenOver(s) : <<JournalOf(i)>> = Kept(r, q)
        \/ \E n \in Managed : <<JournalOf(i)>> \in {<<File(n)>>, Staged(r, n)}
        \/ \E k \in r.id..t.count : <<JournalOf(i)>> \in {<<KeyOf(k)>>, <<TemporaryOf(k)>>}
        \/ <<JournalOf(i)>> = <<JournalOf(r.id)>>
    BY <2>1 DEF Progress, Frame
  <2>3. \A q \in TakenOver(s) : <<JournalOf(i)>> # Kept(r, q)
    BY <1>1, TypedPaths, KeptShape DEF TakenOver
  <2>4. \A n \in Managed : <<JournalOf(i)>> # Staged(r, n)
    BY <1>1, StagedShape, SizeAssumption DEF Managed
  <2>5. <<JournalOf(i)>> \in DOMAIN s.disk => ~(i > s.count)
    BY <2>1, NothingOfNext
  <2>6. <<JournalOf(i)>> \in DOMAIN s.disk \/ i = r.id
    BY <2>2, <2>3, <2>4, Singles
  <2> QED
    BY <1>1, <2>1, <2>5, <2>6
<1> QED
  BY <1>2, <1>3 DEF IsLatest

\* A step that leaves the files of the journal alone, and does something else
\* in the directory as its restore goes on.
LEMMA Goes ==
    ASSUME NEW b, NEW s, s = b[mem.id], InvOf(b),
           pc \notin {"idle", "sweep", "persist", "publishJournal"}, JournaledOK(s),
           mem' = mem, begun' = begun, refusal' = refusal, command' = command,
           pc' \notin {"idle", "sweep", "publishJournal"},
           \A p \in {JournalPath, KeyPath, TemporaryPath} :
              /\ p \in DOMAIN disk' <=> p \in DOMAIN disk
              /\ p \in DOMAIN disk => disk'[p] = disk[p],
           Tree(Now'), Progress(Now', s, mem),
           command = "restore" => NoneGone(s)' /\ current' = current,
           PhaseAt(s)'
    PROVE  InvOf(b)'
<1>1. /\ mem.id \in 1..begun /\ mem.id \in Nat /\ begun \in Nat /\ RecordOK(mem, s)
      /\ SnapshotOK(s, b) /\ Typed(s) /\ command \in {"restore", "settle"} /\ WorkingOK(s)
      /\ SnapshotOK(Now, b)
  BY WorkFacts
<1>2. /\ IsLatest(Now, mem.id) /\ mem = disk[JournalPath]
      /\ command = "restore" => /\ mem.id = begun /\ current = s.current
                                /\ mem.phase \in {"staging", "publishing", "committed"}
  BY DEF JournaledOK, Writing
<1>3. JournalPath \in DOMAIN disk /\ KeyPath \in DOMAIN disk /\ disk[KeyPath] = Whole
  <2>1. <<KeyOf(mem.id)>> \in DOMAIN Now.disk /\ Now.disk[<<KeyOf(mem.id)>>] = Whole
    BY <1>1, <1>2 DEF SnapshotOK, LatestOK, IsLatest
  <2> QED
    BY <1>2, <2>1 DEF IsLatest, JournalsOf, Now, JournalPath, KeyPath
<1>4. TemporaryPath \notin DOMAIN disk
  BY <1>1 DEF WorkingOK
<1>5. /\ <<JournalOf(mem.id)>> \in DOMAIN Now'.disk /\ Now'.disk[<<JournalOf(mem.id)>>] = mem
      /\ <<KeyOf(mem.id)>> \in DOMAIN Now'.disk /\ Now'.disk[<<KeyOf(mem.id)>>] = Whole
      /\ Now'.count = begun /\ Now'.disk = disk'
  BY <1>2, <1>3 DEF Now, JournalPath, KeyPath
<1>6. IsLatest(Now', mem.id)
  BY <1>1, <1>5, ProgressLatest
<1>7. SnapshotOK(Now', b)
  BY <1>1, <1>5, <1>6, ProgressSnapshot DEF SnapshotOK
<1>8. JournaledOK(s)'
  BY <1>2, <1>5, <1>6 DEF JournaledOK, JournalPath
<1>9. WorkingOK(s)'
  BY <1>1, <1>4, <1>8 DEF WorkingOK, TemporaryPath
<1>10. ProcessOK(b)'
  BY <1>1, <1>9 DEF ProcessOK
<1>11. HistoryOK(b)'
  BY DEF InvOf, HistoryOK
<1>12. RefusalOK'
  BY DEF InvOf, RefusalOK
<1> QED
  BY <1>7, <1>10, <1>11, <1>12 DEF InvOf

\* What holds at a step that does not write.
LEMMA AtWork ==
    ASSUME NEW b, NEW s, s = b[mem.id], InvOf(b),
           pc \notin {"idle", "sweep", "persist", "publishJournal", "unlinkKey"}
    PROVE  /\ JournaledOK(s) /\ PhaseAt(s) /\ Progress(Now, s, mem) /\ mem = disk[JournalPath]
           /\ At = pc /\ TemporaryPath \notin DOMAIN disk /\ IsLatest(Now, mem.id)
<1>1. WorkingOK(s)
  BY WorkFacts
<1>2. ~Writing /\ ~UnlinkedOK
  BY DEF Writing, UnlinkedOK
<1>3. JournaledOK(s) /\ TemporaryPath \notin DOMAIN disk
  BY <1>1, <1>2 DEF WorkingOK, NewOK
<1> QED
  BY <1>2, <1>3 DEF JournaledOK, At

\* Only the id, the directories and the branch of a record matter.
LEMMA SameRestore ==
    ASSUME NEW q, NEW r, q.id = r.id, q.directories = r.directories
    PROVE  /\ \A p : Kept(q, p) = Kept(r, p)
           /\ \A n : Staged(q, n) = Staged(r, n)
           /\ Wanted(q) = Wanted(r)
           /\ \A t, s, p : /\ Home(t, s, q, p) <=> Home(t, s, r, p)
                           /\ Away(t, s, q, p) <=> Away(t, s, r, p)
                           /\ Gone(t, q, p) <=> Gone(t, r, p)
           /\ \A t, s, n : /\ Ready(t, s, q, n) <=> Ready(t, s, r, n)
                           /\ Published(t, q, n) <=> Published(t, r, n)
           /\ \A t, s : r.phase # "committed-cleanup" /\ Frame(t, s, r) => Frame(t, s, q)
<1>1. \A p : Kept(q, p) = Kept(r, p)
  BY DEF Kept
<1>2. \A n : Staged(q, n) = Staged(r, n)
  BY DEF Staged
<1>3. Wanted(q) = Wanted(r)
  BY <1>1 DEF Wanted
<1>4. \A t, s, p : /\ Home(t, s, q, p) <=> Home(t, s, r, p)
                   /\ Away(t, s, q, p) <=> Away(t, s, r, p)
                   /\ Gone(t, q, p) <=> Gone(t, r, p)
  BY <1>1 DEF Home, Away, Gone
<1>5. \A t, s, n : /\ Ready(t, s, q, n) <=> Ready(t, s, r, n)
                   /\ Published(t, q, n) <=> Published(t, r, n)
  BY <1>2 DEF Ready, Published
<1>6. \A t, s : r.phase # "committed-cleanup" /\ Frame(t, s, r) => Frame(t, s, q)
  BY <1>1, <1>2, <1>3 DEF Frame
<1> QED
  BY <1>1, <1>2, <1>3, <1>4, <1>5, <1>6

\* A journal with another phase is a journal of the same restore.
LEMMA Rephased ==
    ASSUME NEW s, NEW r, RecordOK(r, s), NEW phase \in Phases
    PROVE  LET q == [r EXCEPT !.phase = phase]
           IN  /\ RecordOK(q, s) /\ q.phase = phase /\ q.id = r.id /\ q.branch = r.branch
               /\ q.directories = r.directories /\ q.previous = r.previous
<1> DEFINE q == [r EXCEPT !.phase = phase]
<1>1. r = [phase |-> r.phase, branch |-> r.branch, id |-> r.id,
           directories |-> r.directories, previous |-> r.previous]
  BY DEF RecordOK
<1>2. q = [phase |-> phase, branch |-> r.branch, id |-> r.id,
           directories |-> r.directories, previous |-> r.previous]
  BY <1>1
<1> HIDE DEF q
<1>3. /\ q.phase = phase /\ q.id = r.id /\ q.branch = r.branch
      /\ q.directories = r.directories /\ q.previous = r.previous
  BY <1>2
<1>4. q = [phase |-> q.phase, branch |-> q.branch, id |-> q.id,
           directories |-> q.directories, previous |-> q.previous]
  BY <1>2, <1>3
<1>5. RecordOK(q, s)
  BY <1>3, <1>4 DEF RecordOK
<1> QED
  BY <1>3, <1>5 DEF q

\* A step that decides to write the journal, in its next phase.
LEMMA Advances ==
    ASSUME NEW b, NEW s, s = b[mem.id], InvOf(b),
           pc \notin {"idle", "sweep", "persist", "publishJournal"}, JournaledOK(s),
           UNCHANGED <<disk, dirs, begun, current, refusal>>,
           pc' = "persist", command' \in {"restore", "settle"},
           command' = "restore" => command = "restore",
           mem'.id = mem.id, mem'.directories = mem.directories,
           RecordOK(mem', s), Progress(Now, s, mem'), PhaseAt(s)'
    PROVE  InvOf(b)'
<1>1. mem.id \in 1..begun /\ WorkingOK(s) /\ SnapshotOK(Now, b)
  BY WorkFacts
<1>2. /\ IsLatest(Now, mem.id)
      /\ command = "restore" => /\ mem.id = begun /\ NoneGone(s) /\ current = s.current
                                /\ disk[JournalPath].phase \in {"staging", "publishing", "committed"}
  BY DEF JournaledOK
<1>10. JournalPath' = JournalPath
  BY DEF JournalPath
<1>3. Now' = Now
  BY DEF Now
<1>4. NoneGone(s) => NoneGone(s)'
  BY <1>3, SameRestore DEF NoneGone
<1>5. JournaledOK(s)'
  BY <1>2, <1>3, <1>4, <1>10 DEF JournaledOK, Writing
<1>6. WorkingOK(s)'
  BY <1>1, <1>5 DEF WorkingOK, TemporaryPath
<1>7. ProcessOK(b)'
  BY <1>6 DEF ProcessOK
<1>8. SnapshotOK(Now, b)' /\ HistoryOK(b)' /\ RefusalOK'
  BY <1>1, <1>3 DEF InvOf, HistoryOK, RefusalOK
<1> QED
  BY <1>7, <1>8 DEF InvOf

----------------------------------------------------------------------------
(* The directories                                                         *)

\* The directories a restore makes, by their index.
LEMMA WantedIndex ==
    ASSUME NEW s, NEW r, RecordOK(r, s)
    PROVE  /\ DOMAIN WantedDirectories(r) = 1..(Len(r.directories) + 2)
           /\ WantedDirectories(r)[1] = <<StagingOf(r.id)>>
           /\ WantedDirectories(r)[2] = <<PreviousOf(r.id)>>
           /\ \A n \in DOMAIN r.directories :
                 /\ n + 2 \in DOMAIN WantedDirectories(r)
                 /\ WantedDirectories(r)[n + 2] = Kept(r, r.directories[n])
           /\ \A n \in DOMAIN WantedDirectories(r) :
                 n \in {1, 2} \/ n - 2 \in DOMAIN r.directories
           /\ \A d : d \in Wanted(r) <=> \E n \in DOMAIN WantedDirectories(r) : WantedDirectories(r)[n] = d
<1> DEFINE kept == [n \in DOMAIN r.directories |-> Kept(r, r.directories[n])]
           own == <<<<StagingOf(r.id)>>, <<PreviousOf(r.id)>>>>
           S == {kept[n] : n \in DOMAIN r.directories} \cup {own[1], own[2]}
           N == Len(r.directories)
<1>1. DOMAIN r.directories = 1..N /\ N \in Nat
  BY DEF RecordOK
<1>2. kept \in Seq(S) /\ Len(kept) = N
  <2>1. kept \in [1..N -> S]
    BY <1>1
  <2> HIDE DEF kept, S, N
  <2> QED
    BY <1>1, <2>1
<1>3. own \in Seq(S) /\ Len(own) = 2
  <2> HIDE DEF kept
  <2> QED
    OBVIOUS
<1>4. WantedDirectories(r) = own \o kept
  BY DEF WantedDirectories
<1> HIDE DEF kept, S, N
<1>5. /\ DOMAIN WantedDirectories(r) = 1..(N + 2)
      /\ \A n \in 1..2 : WantedDirectories(r)[n] = own[n]
      /\ \A n \in 1..N : WantedDirectories(r)[n + 2] = kept[n]
  <2> HIDE DEF own
  <2>1. kept \in Seq(S) /\ own \in Seq(S)
    BY <1>2, <1>3
  <2>2. DOMAIN WantedDirectories(r) = 1..(Len(own) + Len(kept))
    BY <1>4, <2>1, Concatenation
  <2>3. \A n \in 1..Len(own) : WantedDirectories(r)[n] = own[n]
    BY <1>4, <2>1, Concatenation
  <2>4. \A n \in 1..Len(kept) : WantedDirectories(r)[n + Len(own)] = kept[n]
    BY <1>4, <2>1, Concatenation
  <2>5. 2 + N = N + 2
    BY <1>1
  <2> QED
    BY <1>2, <1>3, <2>2, <2>3, <2>4, <2>5
<1>6. WantedDirectories(r)[1] = own[1] /\ WantedDirectories(r)[2] = own[2]
  BY <1>5
<1>7. \A n \in 1..N : kept[n] = Kept(r, r.directories[n])
  BY <1>1 DEF kept
<1>8. /\ \A n \in 1..N : n + 2 \in 1..(N + 2)
      /\ \A n \in 1..(N + 2) : n \in {1, 2} \/ (n - 2 \in 1..N /\ (n - 2) + 2 = n)
      /\ 1 \in 1..(N + 2) /\ 2 \in 1..(N + 2)
  BY <1>1
<1>9. \A d : d \in Wanted(r) <=> \/ d = own[1] \/ d = own[2]
                                 \/ \E n \in 1..N : d = Kept(r, r.directories[n])
  BY <1>1 DEF Wanted
<1>10. \A d : d \in Wanted(r) <=> \E n \in 1..(N + 2) : WantedDirectories(r)[n] = d
  <2> TAKE d
  <2>1. ASSUME d \in Wanted(r) PROVE \E n \in 1..(N + 2) : WantedDirectories(r)[n] = d
    BY <1>5, <1>6, <1>7, <1>8, <1>9, <2>1
  <2>2. ASSUME NEW n \in 1..(N + 2), WantedDirectories(r)[n] = d PROVE d \in Wanted(r)
    <3>1. CASE n \in {1, 2}
      BY <1>6, <1>9, <2>2, <3>1
    <3>2. CASE n - 2 \in 1..N /\ (n - 2) + 2 = n
      <4>1. WantedDirectories(r)[(n - 2) + 2] = Kept(r, r.directories[n - 2])
        BY <1>5, <1>7, <3>2
      <4> QED
        BY <1>9, <2>2, <3>2, <4>1
    <3> QED
      BY <1>8, <3>1, <3>2
  <2> QED
    BY <2>1, <2>2
<1> QED
  BY <1>1, <1>5, <1>6, <1>7, <1>8, <1>10 DEF N

\* A directory is made after its parent: the sorted listing has it later.
LEMMA MakeDirectoryStep ==
    ASSUME NEW b, InvOf(b), MakeDirectory
    PROVE  InvOf(b)'
<1>0. PICK s : s = b[mem.id]
  OBVIOUS
<1> DEFINE W == WantedDirectories(mem)
           missing == {n \in DOMAIN W : W[n] \notin dirs}
           k == Min(missing)
           d == W[k]
<1>1. /\ pc = "mkdir" /\ missing # {} /\ dirs' = dirs \cup {d}
      /\ UNCHANGED <<disk, process, refusal, history>>
  BY DEF MakeDirectory
<1>2. /\ mem.id \in Nat /\ RecordOK(mem, s) /\ Typed(s) /\ Tree(s) /\ mem.id = s.count + 1
      /\ Tree(Now) /\ JournaledOK(s) /\ PhaseAt(s) /\ Progress(Now, s, mem) /\ At = pc
  BY <1>0, <1>1, WorkFacts, AtWork DEF SnapshotOK
<1> DEFINE N == Len(mem.directories)
<1>12. /\ N \in Nat /\ DOMAIN W = 1..(N + 2) /\ DOMAIN mem.directories = 1..N
       /\ W[1] = <<StagingOf(mem.id)>> /\ W[2] = <<PreviousOf(mem.id)>>
       /\ \A n \in 1..N : n + 2 \in DOMAIN W /\ W[n + 2] = Kept(mem, mem.directories[n])
       /\ \A n \in DOMAIN W : n \in {1, 2} \/ n - 2 \in 1..N
  <2>1. N \in Nat /\ DOMAIN mem.directories = 1..N
    BY <1>2 DEF RecordOK
  <2> QED
    BY <1>2, <2>1, WantedIndex
<1> HIDE DEF N
<1>3. command = "restore" /\ mem.phase = "staging"
  BY <1>1, <1>2 DEF PhaseAt
<1>4. k \in missing /\ \A n \in missing : k <= n
  <2>1. missing \in SUBSET Nat
    <3> HIDE DEF W
    <3> QED
      BY <1>12
  <2> HIDE DEF missing
  <2> QED
    BY <1>1, <2>1, LeastNumber
<1>5. d \in Wanted(mem)
  BY <1>2, <1>4, WantedIndex
<1> HIDE DEF k, d
<1>6. Len(d) > 1 => Front(d) \in dirs
  <2> SUFFICES ASSUME Len(d) > 1 PROVE Front(d) \in dirs
    OBVIOUS
  <2>0. d = W[k]
    BY DEF d
  <2>1. k \notin {1, 2}
    <3>1. Len(<<StagingOf(mem.id)>>) = 1 /\ Len(<<PreviousOf(mem.id)>>) = 1
      OBVIOUS
    <3> QED
      <4> HIDE DEF W
      <4>1. k = 1 => d = <<StagingOf(mem.id)>>
        BY <2>0, <1>12
      <4>2. k = 2 => d = <<PreviousOf(mem.id)>>
        BY <2>0, <1>12
      <4>3. Len(d) # 1
        <5>1. \A x : x = 1 => ~(x > 1)
          OBVIOUS
        <5> QED
          BY <5>1, Zenon
      <4> QED
        BY <3>1, <4>1, <4>2, <4>3, Zenon
  <2>2. k - 2 \in DOMAIN mem.directories /\ k - 2 \in Nat /\ k \in Nat /\ (k - 2) + 2 = k
    <3> HIDE DEF W
    <3>1. k \in DOMAIN W /\ k \in Nat
      BY <1>4, <1>12
    <3>2. k - 2 \in 1..N
      BY <3>1, <1>12, <2>1
    <3> QED
      BY <3>1, <3>2, <1>12
  <2>3. PICK x : x = mem.directories[k - 2]
    OBVIOUS
  <2>4. d = Kept(mem, x)
    <3>1. W[(k - 2) + 2] = Kept(mem, x)
      BY <1>12, <2>2, <2>3
    <3> QED
      BY <2>0, <2>2, <3>1
  <2>5. x \in s.dirs /\ x \in TakenDirectories(s) /\ x \in Seq(Names) /\ x # <<>> /\ Len(x) \in Nat \ {0}
    BY <1>2, <2>2, <2>3, TypedPaths DEF RecordOK, TakenDirectories
  <2>6. CASE Len(x) = 1
    <3>1. Front(d) = <<PreviousOf(mem.id)>>
      BY <1>2, <2>4, <2>5, <2>6, KeptFront
    <3>2. 2 \notin missing /\ W[2] = <<PreviousOf(mem.id)>> /\ 2 \in DOMAIN W
      <4>1. ~(k <= 2)
        BY <2>2, <1>12
      <4>2. 2 \in DOMAIN W
        BY <1>12
      <4> QED
        BY <1>4, <1>12, <4>1, <4>2
    <3> QED
      BY <3>1, <3>2
  <2>7. CASE Len(x) # 1
    <3>1. Len(x) > 1 /\ Front(d) = Kept(mem, Front(x))
      <4>1. Len(x) > 1
        <5>1. \A n \in Nat \ {0} : n # 1 => n > 1
          OBVIOUS
        <5> QED
          BY <2>5, <2>7, <5>1
      <4> QED
        BY <1>2, <2>4, <2>5, <4>1, KeptFront
    <3>2. Front(x) \in s.dirs /\ IsStrictPrefix(Front(x), x) /\ Front(x)[1] = x[1]
      BY <1>2, <2>5, <3>1, FrontMeans DEF Tree
    <3>3. Front(x) \in TakenDirectories(s)
      BY <2>5, <3>2 DEF TakenDirectories, InPending
    <3>4. PICK m \in DOMAIN mem.directories : mem.directories[m] = Front(x)
      BY <1>2, <3>3 DEF RecordOK
    <3>5. m < k - 2
      BY <1>2, <2>2, <2>3, <3>2, <3>4 DEF RecordOK
    <3>6. W[m + 2] = Front(d) /\ m + 2 \in DOMAIN W
      BY <1>2, <3>1, <3>4, WantedIndex
    <3>7. ~(k <= m + 2)
      <4>1. m \in Nat
        BY <1>2 DEF RecordOK
      <4> QED
        BY <2>2, <3>5, <4>1
    <3> QED
      BY <1>4, <3>6, <3>7
  <2> QED
    BY <2>6, <2>7
<1> HIDE DEF missing, W
<1>7. Now'.disk = Now.disk /\ Now'.dirs = dirs \cup {d} /\ Now'.current = Now.current
      /\ Now'.count = Now.count /\ Now.dirs = dirs /\ Now.disk = disk
  BY <1>1 DEF Now, history
<1>8. Tree(Now')
  BY <1>2, <1>6, <1>7 DEF Tree
<1>9. Progress(Now', s, mem)
  <2>1. Frame(Now', s, mem)
    <3>1. IsFiniteSet(dirs \cup {d})
      BY <1>2, <1>7, FS_AddElement DEF Progress, Frame
    <3> QED
      BY <1>2, <1>5, <1>7, <3>1 DEF Progress, Frame
  <2>2. InStaging(Now', s, mem)
    BY <1>2, <1>3, <1>7 DEF Progress, InStaging, Home, Gone
  <2> QED
    BY <1>3, <2>1, <2>2 DEF Progress, UndonePhases
<1>10. PhaseAt(s)'
  BY <1>1, <1>2, <1>3 DEF PhaseAt, At, Writing, process
<1>11. NoneGone(s)'
  BY <1>1, <1>2, <1>3, <1>7 DEF JournaledOK, NoneGone, Gone, process
<1> QED
  BY <1>0, <1>1, <1>2, <1>8, <1>9, <1>10, <1>11, Goes DEF process, history

----------------------------------------------------------------------------
(* Staging                                                                 *)

\* The places of the files of a restore are apart from each other and from the
\* files it found.
LEMMA Distinct ==
    ASSUME NEW s, Typed(s), NEW r, r.id = s.count + 1
    PROVE  /\ r.id \in Nat /\ TakenOver(s) \subseteq DOMAIN s.disk
           /\ \A q \in TakenOver(s) : /\ Kept(r, q) \notin DOMAIN s.disk
                                      /\ \A x : Kept(r, q) # <<x>>
                                      /\ \A n \in Managed : Kept(r, q) # Staged(r, n)
           /\ \A p, q \in TakenOver(s) : Kept(r, p) = Kept(r, q) => p = q
           /\ \A n \in Managed : Staged(r, n) \notin DOMAIN s.disk /\ \A x : Staged(r, n) # <<x>>
           /\ \A m, n \in Managed : Staged(r, m) = Staged(r, n) => m = n
           /\ \A m, n : <<File(m)>> = <<File(n)>> => m = n
           /\ {<<JournalOf(r.id)>>, <<KeyOf(r.id)>>, <<TemporaryOf(r.id)>>} \cap DOMAIN s.disk = {}
           /\ \A n, i : <<File(n)>> \notin {<<JournalOf(i)>>, <<KeyOf(i)>>, <<TemporaryOf(i)>>}
           /\ \A q \in DOMAIN s.disk : q \in Seq(Names) /\ q # <<>> /\ Len(q) \in Nat \ {0}
<1>1. r.id \in Nat /\ TakenOver(s) \subseteq DOMAIN s.disk /\ r.id >= r.id
  BY NewPaths DEF TakenOver
<1>2. \A q \in DOMAIN s.disk : q \in Seq(Names) /\ q # <<>> /\ Len(q) \in Nat \ {0}
  BY TypedPaths
<1>3. \A n \in Managed : n \in Nat
  BY SizeAssumption DEF Managed
<1>4. \A q \in TakenOver(s) : /\ Kept(r, q) \notin DOMAIN s.disk
                              /\ \A x : Kept(r, q) # <<x>>
                              /\ \A n \in Managed : Kept(r, q) # Staged(r, n)
  BY <1>1, <1>2, <1>3, NewPaths, KeptShape, StagedShape
<1>5. \A p, q \in TakenOver(s) : Kept(r, p) = Kept(r, q) => p = q
  BY <1>1, <1>2, KeptInjective
<1>6. \A n \in Managed : Staged(r, n) \notin DOMAIN s.disk /\ \A x : Staged(r, n) # <<x>>
  BY <1>1, <1>3, NewPaths, StagedShape
<1>7. \A m, n \in Managed : Staged(r, m) = Staged(r, n) => m = n
  BY <1>1, <1>3, StagedShape
<1>8. {<<JournalOf(r.id)>>, <<KeyOf(r.id)>>, <<TemporaryOf(r.id)>>} \cap DOMAIN s.disk = {}
  BY <1>1, NewPaths
<1> QED
  BY <1>1, <1>2, <1>4, <1>5, <1>6, <1>7, <1>8, Singles

\* Classifying the vault changes the journal's branch.
LEMMA ClassifyStep ==
    ASSUME NEW b, InvOf(b), Classify
    PROVE  InvOf(b)'
<1>0. PICK s : s = b[mem.id]
  OBVIOUS
<1>1. /\ pc = "mkdir" /\ ToSet(WantedDirectories(mem)) \subseteq dirs
      /\ pc' = "persist" /\ then' = "stage"
      /\ UNCHANGED <<disk, dirs, command, refusal, begun, current>>
  BY DEF Classify, Persist, directory, history
<1>2. PICK branch \in {"healthy", "damaged"} :
         (OverPending(mem) => branch = "damaged") /\ mem' = [mem EXCEPT !.branch = branch]
  BY DEF Classify, Persist
<1>3. /\ RecordOK(mem, s) /\ Typed(s) /\ mem.id = s.count + 1 /\ command \in {"restore", "settle"}
      /\ JournaledOK(s) /\ PhaseAt(s) /\ Progress(Now, s, mem) /\ At = pc
  BY <1>0, <1>1, WorkFacts, AtWork
<1>4. command = "restore" /\ mem.phase = "staging"
  BY <1>1, <1>3 DEF PhaseAt
<1>5. mem' = [phase |-> mem.phase, branch |-> branch, id |-> mem.id,
              directories |-> mem.directories, previous |-> mem.previous]
  BY <1>2, <1>3 DEF RecordOK
<1>6. /\ mem'.phase = mem.phase /\ mem'.branch = branch /\ mem'.id = mem.id
      /\ mem'.directories = mem.directories /\ mem'.previous = mem.previous
  BY <1>5
<1>7. branch = "healthy" => JournalsOf(s) = {}
  <2> SUFFICES ASSUME NEW i \in JournalsOf(s) PROVE OverPending(mem)
    BY <1>2
  <2>1. <<JournalOf(i)>> \in TakenOver(s)
    BY DEF JournalsOf, TakenOver
  <2>2. PICK n \in DOMAIN mem.previous : mem.previous[n].path = <<JournalOf(i)>>
    BY <1>3, <2>1 DEF RecordOK
  <2>3. mem.previous[n].path[1][1] = "journal"
    BY <2>2 DEF JournalOf
  <2> QED
    BY <2>3 DEF OverPending, ToSet
<1>8. RecordOK(mem', s)
  <2>1. mem' = [phase |-> mem'.phase, branch |-> mem'.branch, id |-> mem'.id,
                directories |-> mem'.directories, previous |-> mem'.previous]
    BY <1>5, <1>6
  <2> QED
    BY <1>2, <1>3, <1>6, <1>7, <2>1 DEF RecordOK
<1>9. Progress(Now, s, mem')
  <2>1. Frame(Now, s, mem')
    BY <1>3, <1>4, <1>6, SameRestore DEF Progress
  <2>2. InStaging(Now, s, mem')
    BY <1>3, <1>4, <1>6, SameRestore DEF Progress, InStaging
  <2> QED
    BY <1>4, <1>6, <2>1, <2>2 DEF Progress, UndonePhases
<1>10. Wanted(mem) \subseteq dirs
  BY <1>1, <1>3, WantedIndex DEF ToSet
<1>11. PhaseAt(s)'
  <2>1. Wanted(mem') \subseteq dirs
    BY <1>6, <1>10, SameRestore
  <2>2. Wanted(mem)' = Wanted(mem')
    BY DEF Wanted, Kept
  <2> QED
    BY <1>1, <1>4, <1>6, <2>1, <2>2 DEF PhaseAt, At, Writing
<1> QED
  BY <1>0, <1>1, <1>3, <1>6, <1>8, <1>9, <1>11, Advances

\* Staging a file changes the staging directory.
LEMMA StageStep ==
    ASSUME NEW b, InvOf(b), Stage
    PROVE  InvOf(b)'
<1>0. PICK s : s = b[mem.id]
  OBVIOUS
<1> DEFINE missing == {n \in Managed : ~Present(Staged(mem, n))}
           k == Min(missing)
           p == Staged(mem, k)
<1>1. /\ pc = "stage" /\ missing # {} /\ disk' = Put(p, Image(mem.id))
      /\ UNCHANGED <<dirs, process, refusal, history>>
  BY DEF Stage
<1>2. /\ RecordOK(mem, s) /\ Typed(s) /\ mem.id = s.count + 1 /\ Tree(Now) /\ mem.id \in Nat
      /\ JournaledOK(s) /\ PhaseAt(s) /\ Progress(Now, s, mem) /\ At = pc
  BY <1>0, <1>1, WorkFacts, AtWork DEF SnapshotOK
<1>3. command = "restore" /\ mem.phase = "staging" /\ Wanted(mem) \subseteq dirs
  BY <1>1, <1>2 DEF PhaseAt
<1>4. k \in Managed /\ p \notin DOMAIN disk /\ k \in Nat
  <2>1. missing \in SUBSET Nat
    BY SizeAssumption DEF Managed
  <2>2. k \in missing
    <3> HIDE DEF missing
    <3> QED
      BY <1>1, <2>1, LeastNumber
  <2> QED
    BY <2>1, <2>2 DEF Present
<1> HIDE DEF k, missing
<1>5. /\ DOMAIN disk' = DOMAIN disk \cup {p} /\ disk'[p] = Image(mem.id)
      /\ \A q \in DOMAIN disk : disk'[q] = disk[q]
  BY <1>1, <1>4 DEF Put
<1>6. /\ Now'.disk = disk' /\ Now'.dirs = dirs /\ Now'.current = Now.current
      /\ Now'.count = Now.count /\ Now.dirs = dirs /\ Now.disk = disk
  BY <1>1 DEF Now, history
<1>7. /\ \A q \in TakenOver(s) : q # p /\ Kept(mem, q) # p
      /\ \A q \in DOMAIN s.disk : q # p
      /\ \A x : p # <<x>>
  BY <1>2, <1>4, Distinct DEF TakenOver
<1>8. Front(p) \in dirs
  <2>1. Front(p) = <<StagingOf(mem.id)>>
    BY <1>2, <1>4, StagedShape
  <2> QED
    BY <1>3, <2>1 DEF Wanted
<1>12. \A n \in Managed : Staged(mem, n) \in DOMAIN disk' => disk'[Staged(mem, n)] = Image(mem.id)
  BY <1>2, <1>5, <1>6 DEF Progress, Frame
<1>13. \E n \in Managed : p \in {<<File(n)>>, Staged(mem, n)}
  BY <1>4
<1> HIDE DEF p
<1>9. Tree(Now')
  BY <1>2, <1>5, <1>6, <1>8 DEF Tree
<1>10. Progress(Now', s, mem)
  <2>1. Frame(Now', s, mem)
    <3>1. IsFiniteSet(DOMAIN disk')
      BY <1>2, <1>5, <1>6, FS_AddElement DEF Progress, Frame
    <3> QED
      BY <1>2, <1>5, <1>6, <1>7, <1>12, <1>13, <3>1 DEF Progress, Frame
  <2>2. InStaging(Now', s, mem)
    BY <1>2, <1>3, <1>5, <1>6, <1>7 DEF Progress, InStaging, Home, Gone
  <2> QED
    BY <1>3, <2>1, <2>2 DEF Progress, UndonePhases
<1>11. NoneGone(s)'
  BY <1>1, <1>2, <1>3, <1>5, <1>6, <1>7 DEF JournaledOK, NoneGone, Gone, process
<1>14. PhaseAt(s)'
  BY <1>1, <1>2, <1>3 DEF PhaseAt, At, Writing, process
<1>15. \A q \in {JournalPath, KeyPath, TemporaryPath} : q # p
  BY <1>7 DEF JournalPath, KeyPath, TemporaryPath
<1> QED
  BY <1>0, <1>1, <1>2, <1>5, <1>9, <1>10, <1>11, <1>14, <1>15, Goes DEF process, history

\* With all files staged the exchange can begin.
LEMMA SealStep ==
    ASSUME NEW b, InvOf(b), Seal
    PROVE  InvOf(b)'
<1>0. PICK s : s = b[mem.id]
  OBVIOUS
<1>1. /\ pc = "stage" /\ \A n \in Managed : Staged(mem, n) \in DOMAIN disk
      /\ pc' = "persist" /\ then' = "preserve" /\ mem' = [mem EXCEPT !.phase = "publishing"]
      /\ UNCHANGED <<disk, dirs, command, refusal, begun, current>>
  BY DEF Seal, Persist, directory, history, Present
<1>2. /\ RecordOK(mem, s) /\ Typed(s) /\ mem.id = s.count + 1 /\ command \in {"restore", "settle"}
      /\ JournaledOK(s) /\ PhaseAt(s) /\ Progress(Now, s, mem) /\ At = pc
  BY <1>0, <1>1, WorkFacts, AtWork
<1>3. command = "restore" /\ mem.phase = "staging" /\ Wanted(mem) \subseteq dirs
  BY <1>1, <1>2 DEF PhaseAt
<1>4. /\ RecordOK(mem', s) /\ mem'.phase = "publishing" /\ mem'.id = mem.id
      /\ mem'.directories = mem.directories
  BY <1>1, <1>2, Rephased DEF Phases
<1>5. InStaging(Now, s, mem) /\ Frame(Now, s, mem) /\ Now.disk = disk /\ Now.dirs = dirs
  BY <1>2, <1>3 DEF Progress, Now
<1>6. ASSUME NEW n \in Managed PROVE Ready(Now, s, mem, n)
  <2>1. Staged(mem, n) \in DOMAIN disk /\ disk[Staged(mem, n)] = Image(mem.id)
    BY <1>1, <1>5 DEF Frame
  <2>2. ASSUME <<File(n)>> \in DOMAIN disk
        PROVE  disk[<<File(n)>>] # Image(mem.id) /\ <<File(n)>> \in DOMAIN s.disk
    <3>1. <<File(n)>> \in DOMAIN s.disk
      BY <1>5, <2>2 DEF InStaging
    <3>2. <<File(n)>> \in TakenOver(s)
      BY <3>1 DEF TakenOver
    <3>3. disk[<<File(n)>>] = s.disk[<<File(n)>>]
      BY <1>5, <2>2, <3>2 DEF InStaging, Home, Gone
    <3>4. <<File(n)>>[Len(<<File(n)>>)][1] = "file"
      BY DEF File
    <3>5. PICK i \in 0..s.count : s.disk[<<File(n)>>] = Image(i)
      BY <1>2, <3>1, <3>4 DEF Typed
    <3>6. i # mem.id
      BY <1>2, <3>5 DEF Typed
    <3> QED
      BY <3>1, <3>3, <3>5, <3>6 DEF Image
  <2> QED
    BY <1>5, <2>1, <2>2 DEF Ready
<1>7. Progress(Now, s, mem')
  <2>1. Frame(Now, s, mem')
    BY <1>3, <1>4, <1>5, SameRestore
  <2>2. ~ \E n \in Managed : Published(Now, mem, n)
    BY <1>1, <1>5 DEF Published
  <2>3. InExchange(Now, s, mem)
    BY <1>3, <1>5, <1>6, <2>2 DEF InStaging, InExchange
  <2>4. InExchange(Now, s, mem')
    BY <1>4, <2>3, SameRestore DEF InExchange
  <2> QED
    BY <1>4, <2>1, <2>4 DEF Progress, UndonePhases
<1>8. PhaseAt(s)'
  <2>1. Now' = Now
    BY <1>1 DEF Now
  <2>2. \A n \in Managed : Ready(Now', s, mem', n)
    BY <1>4, <1>6, <2>1, SameRestore
  <2> QED
    BY <1>1, <1>3, <1>4, <2>2 DEF PhaseAt, At, Writing
<1> QED
  BY <1>0, <1>1, <1>2, <1>4, <1>7, <1>8, Advances

----------------------------------------------------------------------------
(* The operations of the journal                                           *)

\* The operations on a file that is taken over, and on one of the backup.
Taking(r, s, p) == [from |-> p, to |-> Kept(r, p), content |-> s.disk[p]]
Publishing(r, n) == [from |-> Staged(r, n), to |-> <<File(n)>>, content |-> Image(r.id)]

\* Every file taken over has its operation, and every file of the backup.
LEMMA PreservationsAre ==
    ASSUME NEW s, NEW r, RecordOK(r, s)
    PROVE  /\ Len(r.previous) \in Nat
           /\ DOMAIN r.previous = 1..Len(r.previous)
           /\ DOMAIN Preservations(r) = 1..Len(r.previous)
           /\ \A n \in DOMAIN r.previous :
                 /\ r.previous[n].path \in TakenOver(s)
                 /\ Preservations(r)[n] = Taking(r, s, r.previous[n].path)
           /\ \A p \in TakenOver(s) :
                 \E n \in DOMAIN r.previous : Preservations(r)[n] = Taking(r, s, p)
           /\ DOMAIN Publications(r) = Managed
           /\ \A n \in Managed : Publications(r)[n] = Publishing(r, n)
<1>1. /\ DOMAIN r.previous = 1..Len(r.previous) /\ Len(r.previous) \in Nat
      /\ \A n \in DOMAIN r.previous : /\ r.previous[n].path \in TakenOver(s)
                                      /\ r.previous[n].content = s.disk[r.previous[n].path]
      /\ \A p \in TakenOver(s) : \E n \in DOMAIN r.previous : r.previous[n].path = p
  BY DEF RecordOK
<1>2. /\ DOMAIN Preservations(r) = DOMAIN r.previous
      /\ \A n \in DOMAIN r.previous : Preservations(r)[n] = Taking(r, s, r.previous[n].path)
  BY <1>1 DEF Preservations, Taking
<1>3. /\ DOMAIN Publications(r) = Managed
      /\ \A n \in Managed : Publications(r)[n] = Publishing(r, n)
  BY DEF Publications, Publishing
<1> QED
  BY <1>1, <1>2, <1>3

\* The operations, by their index: those that preserve come first.
LEMMA OperationsAre ==
    ASSUME NEW s, NEW r, RecordOK(r, s)
    PROVE  /\ DOMAIN Operations(r) = 1..(Len(r.previous) + ManagedFiles)
           /\ Len(r.previous) + ManagedFiles \in Nat
           /\ \A n \in 1..Len(r.previous) :
                 Operations(r)[n] = Preservations(r)[n] /\ n \in DOMAIN Operations(r)
           /\ \A n \in Managed :
                 /\ Operations(r)[n + Len(r.previous)] = Publishing(r, n)
                 /\ n + Len(r.previous) \in DOMAIN Operations(r)
           /\ \A n \in DOMAIN Operations(r) :
                 n \in 1..Len(r.previous) \/ (n - Len(r.previous) \in Managed
                                              /\ (n - Len(r.previous)) + Len(r.previous) = n)
<1> DEFINE A == Preservations(r)
           C == Publications(r)
           S == {A[n] : n \in DOMAIN A} \cup {C[n] : n \in DOMAIN C}
           N == Len(r.previous)
<1>1. /\ N \in Nat /\ DOMAIN A = 1..N /\ DOMAIN C = 1..ManagedFiles
      /\ \A n \in Managed : C[n] = Publishing(r, n)
  BY PreservationsAre DEF Managed
<1>2. A \in [DOMAIN A -> S] /\ C \in [DOMAIN C -> S]
  BY DEF Preservations, Publications
<1>3. Operations(r) = A \o C
  BY DEF Operations
<1> HIDE DEF A, C, S, N
<1>4. A \in Seq(S) /\ Len(A) = N
  BY <1>1, <1>2
<1>5. C \in Seq(S) /\ Len(C) = ManagedFiles
  BY <1>1, <1>2, SizeAssumption
<1> DEFINE D == Operations(r)
<1> HIDE DEF D
<1>6. D = A \o C
  BY <1>3 DEF D
<1>7. DOMAIN D = 1..(N + ManagedFiles) /\ N + ManagedFiles \in Nat
  BY <1>1, <1>4, <1>5, <1>6, Concatenation, SizeAssumption
<1>8. \A n \in 1..N : D[n] = A[n] /\ n \in DOMAIN D
  BY <1>4, <1>5, <1>6, Concatenation
<1>9. \A n \in 1..ManagedFiles : D[n + N] = C[n] /\ n + N \in DOMAIN D
  BY <1>4, <1>5, <1>6, Concatenation
<1>10. \A n \in DOMAIN D : n \in 1..N \/ (n - N \in 1..ManagedFiles /\ (n - N) + N = n)
  BY <1>4, <1>5, <1>6, Concatenation
<1> QED
  BY <1>1, <1>7, <1>8, <1>9, <1>10 DEF D, N, A, Managed

\* The set of them.
LEMMA OperationsSet ==
    ASSUME NEW s, NEW r, RecordOK(r, s)
    PROVE  /\ \A op \in ToSet(Operations(r)) : \/ \E p \in TakenOver(s) : op = Taking(r, s, p)
                                               \/ \E n \in Managed : op = Publishing(r, n)
           /\ \A p \in TakenOver(s) : Taking(r, s, p) \in ToSet(Operations(r))
           /\ \A op \in ToSet(Preservations(r)) : \E p \in TakenOver(s) : op = Taking(r, s, p)
<1>1. ASSUME NEW op \in ToSet(Operations(r))
      PROVE  \/ \E p \in TakenOver(s) : op = Taking(r, s, p)
             \/ \E n \in Managed : op = Publishing(r, n)
  <2>1. PICK n \in DOMAIN Operations(r) : op = Operations(r)[n]
    BY DEF ToSet
  <2>2. CASE n \in 1..Len(r.previous)
    <3>1. Operations(r)[n] = Preservations(r)[n]
      BY <2>2, OperationsAre
    <3>2. n \in DOMAIN r.previous
      BY <2>2, PreservationsAre
    <3> QED
      BY <2>1, <3>1, <3>2, PreservationsAre
  <2>3. CASE n - Len(r.previous) \in Managed /\ (n - Len(r.previous)) + Len(r.previous) = n
    <3>1. Operations(r)[(n - Len(r.previous)) + Len(r.previous)] = Publishing(r, n - Len(r.previous))
      BY <2>3, OperationsAre
    <3> QED
      BY <2>1, <2>3, <3>1
  <2> QED
    BY <2>2, <2>3, OperationsAre
<1>2. ASSUME NEW p \in TakenOver(s) PROVE Taking(r, s, p) \in ToSet(Operations(r))
  <2>1. PICK n \in DOMAIN r.previous : Preservations(r)[n] = Taking(r, s, p)
    BY PreservationsAre
  <2>2. n \in 1..Len(r.previous)
    BY PreservationsAre
  <2> QED
    BY <2>1, <2>2, OperationsAre DEF ToSet
<1>3. ASSUME NEW op \in ToSet(Preservations(r))
      PROVE  \E p \in TakenOver(s) : op = Taking(r, s, p)
  BY PreservationsAre DEF ToSet
<1> QED
  BY <1>1, <1>2, <1>3

\* What an observation says of the disk.
LEMMA ObservedMeans ==
    ASSUME NEW p, NEW c
    PROVE  /\ Observed(p, c) = "absent" <=> p \notin DOMAIN disk
           /\ Observed(p, c) = "expected" <=> p \in DOMAIN disk /\ disk[p] = c
           /\ Observed(p, c) = "other" <=> p \in DOMAIN disk /\ disk[p] # c
BY DEF Observed, Present

\* Between the first operation and the commit.
Exchanged(s, r) ==
    /\ \A p \in TakenOver(s) : Home(Now, s, r, p) \/ Away(Now, s, r, p) \/ Gone(Now, r, p)
    /\ \A n \in Managed : Ready(Now, s, r, n) \/ Published(Now, r, n)

\* A file that is neither published nor taken over is the one that was found.
LEMMA Unpublished ==
    ASSUME NEW s, NEW r, Exchanged(s, r),
           NEW n \in Managed, Ready(Now, s, r, n), <<File(n)>> \in DOMAIN disk
    PROVE  <<File(n)>> \in TakenOver(s) /\ disk[<<File(n)>>] = s.disk[<<File(n)>>]
<1>1. <<File(n)>> \in DOMAIN s.disk /\ disk[<<File(n)>>] # Image(r.id)
  BY DEF Ready, Now
<1>2. <<File(n)>> \in TakenOver(s)
  BY <1>1 DEF TakenOver
<1> QED
  BY <1>1, <1>2 DEF Exchanged, Home, Away, Gone, Now

\* What is said of an operation that preserves a file, by where the file is.
LEMMA TakingVerdicts ==
    ASSUME NEW s, Typed(s), NEW r, RecordOK(r, s), NEW p \in TakenOver(s)
    PROVE  LET op == Taking(r, s, p)
           IN  /\ Home(Now, s, r, p) => /\ ForwardVerdict(op) = "move"
                                        /\ BackwardVerdict(r, op) = "skip"
                                        /\ Reversible(r, op)
               /\ Away(Now, s, r, p) => Reversible(r, op)
               /\ Away(Now, s, r, p) /\ p \notin DOMAIN disk => /\ ForwardVerdict(op) = "skip"
                                                                /\ BackwardVerdict(r, op) = "move"
               /\ Gone(Now, r, p) => ~Reversible(r, op)
<1> DEFINE op == Taking(r, s, p)
<1>1. op.from = p /\ op.to = Kept(r, p) /\ op.content = s.disk[p] /\ Now.disk = disk
  BY DEF Taking, Now
<1> HIDE DEF op
<1>2. ASSUME Home(Now, s, r, p)
      PROVE  ForwardVerdict(op) = "move" /\ BackwardVerdict(r, op) = "skip" /\ Reversible(r, op)
  <2>1. Observed(op.from, op.content) = "expected" /\ ~Present(op.to) /\ Observed(op.to, op.content) = "absent"
    BY <1>1, <1>2, ObservedMeans DEF Home, Present
  <2> QED
    BY <2>1 DEF ForwardVerdict, BackwardVerdict, Reversible
<1>3. ASSUME Away(Now, s, r, p) PROVE Reversible(r, op)
  <2>1. Observed(op.to, op.content) = "expected"
    BY <1>1, <1>3, ObservedMeans DEF Away
  <2>2. CASE p \notin DOMAIN disk
    <3>1. Observed(op.from, op.content) = "absent"
      BY <1>1, <2>2, ObservedMeans
    <3> QED
      BY <2>1, <3>1 DEF Reversible
  <2>3. CASE p \in DOMAIN disk
    <3>1. PICK n \in Managed : p = <<File(n)>> /\ disk[p] = Image(r.id)
      BY <1>1, <1>3, <2>3 DEF Away
    <3>2. NewIsThere(r, op)
      BY <1>1, <2>3, <3>1, ObservedMeans DEF NewIsThere
    <3>3. Observed(op.from, op.content) \in {"other", "expected"}
      BY <1>1, <2>3, ObservedMeans
    <3>4. Observed(op.from, op.content) # "expected"
      <4>1. p \in DOMAIN s.disk /\ p[Len(p)][1] = "file"
        BY <3>1 DEF TakenOver, File
      <4>2. PICK i \in 0..s.count : s.disk[p] = Image(i)
        BY <4>1 DEF Typed
      <4>3. i # r.id
        BY DEF Typed, RecordOK
      <4> QED
        BY <1>1, <3>1, <4>2, <4>3, ObservedMeans DEF Image
    <3> QED
      BY <2>1, <3>2, <3>3, <3>4 DEF Reversible
  <2> QED
    BY <2>2, <2>3
<1>4. ASSUME Away(Now, s, r, p), p \notin DOMAIN disk
      PROVE  ForwardVerdict(op) = "skip" /\ BackwardVerdict(r, op) = "move"
  <2>1. /\ Observed(op.to, op.content) = "expected" /\ Observed(op.from, op.content) = "absent"
        /\ ~Present(op.from)
    BY <1>1, <1>4, ObservedMeans DEF Away, Present
  <2> QED
    BY <2>1 DEF ForwardVerdict, BackwardVerdict
<1>5. ASSUME Gone(Now, r, p) PROVE ~Reversible(r, op)
  <2>1. Observed(op.to, op.content) = "absent" /\ Observed(op.from, op.content) = "absent"
    BY <1>1, <1>5, ObservedMeans DEF Gone
  <2> QED
    BY <2>1 DEF Reversible
<1> QED
  BY <1>2, <1>3, <1>4, <1>5 DEF op

\* What is said of one that publishes a file: it can always be reversed.
LEMMA PublishingVerdicts ==
    ASSUME NEW s, Typed(s), NEW r, RecordOK(r, s), Exchanged(s, r), NEW n \in Managed
    PROVE  LET op == Publishing(r, n)
           IN  /\ Reversible(r, op)
               /\ Ready(Now, s, r, n) => BackwardVerdict(r, op) = "skip"
               /\ Ready(Now, s, r, n) /\ <<File(n)>> \notin DOMAIN disk => ForwardVerdict(op) = "move"
               /\ Published(Now, r, n) => /\ ForwardVerdict(op) = "skip"
                                          /\ BackwardVerdict(r, op) = "move"
<1> DEFINE op == Publishing(r, n)
<1>1. op.from = Staged(r, n) /\ op.to = <<File(n)>> /\ op.content = Image(r.id) /\ Now.disk = disk
  BY DEF Publishing, Now
<1> HIDE DEF op
<1>2. ASSUME Ready(Now, s, r, n)
      PROVE  /\ Reversible(r, op) /\ BackwardVerdict(r, op) = "skip"
             /\ <<File(n)>> \notin DOMAIN disk => ForwardVerdict(op) = "move"
  <2>1. Observed(op.from, op.content) = "expected"
    BY <1>1, <1>2, ObservedMeans DEF Ready
  <2>2. CASE <<File(n)>> \notin DOMAIN disk
    <3>1. Observed(op.to, op.content) = "absent" /\ ~Present(op.to)
      BY <1>1, <2>2, ObservedMeans DEF Present
    <3> QED
      BY <2>1, <3>1 DEF ForwardVerdict, BackwardVerdict, Reversible
  <2>3. CASE <<File(n)>> \in DOMAIN disk
    <3>1. <<File(n)>> \in TakenOver(s) /\ disk[<<File(n)>>] = s.disk[<<File(n)>>]
      BY <1>2, <2>3, Unpublished
    <3>2. PICK m \in DOMAIN r.previous : r.previous[m].path = <<File(n)>>
                                         /\ r.previous[m].content = s.disk[<<File(n)>>]
      BY <3>1 DEF RecordOK
    <3>3. OldIsBack(r, op)
      <4>1. r.previous[m] = [path |-> <<File(n)>>, content |-> disk[<<File(n)>>]]
        <5>1. r.previous[m] = [path |-> r.previous[m].path, content |-> r.previous[m].content]
          BY <3>2 DEF RecordOK, IsEntry
        <5> QED
          BY <3>1, <3>2, <5>1
      <4> QED
        BY <1>1, <2>3, <4>1 DEF OldIsBack, Present, Listing, ToSet
    <3>4. Observed(op.to, op.content) = "other"
      BY <1>1, <1>2, <2>3, ObservedMeans DEF Ready
    <3> QED
      BY <2>1, <2>3, <3>3, <3>4 DEF BackwardVerdict, Reversible
  <2> QED
    BY <2>2, <2>3
<1>3. ASSUME Published(Now, r, n)
      PROVE  /\ Reversible(r, op) /\ ForwardVerdict(op) = "skip"
             /\ BackwardVerdict(r, op) = "move"
  <2>1. /\ Observed(op.to, op.content) = "expected" /\ Observed(op.from, op.content) = "absent"
        /\ ~Present(op.from)
    BY <1>1, <1>3, ObservedMeans DEF Published, Present
  <2> QED
    BY <2>1 DEF ForwardVerdict, BackwardVerdict, Reversible
<1> QED
  BY <1>2, <1>3 DEF op, Exchanged

----------------------------------------------------------------------------
(* Moving a file there and back                                            *)

\* u is t with one file moved.
Moved(t, u, from, to) ==
    /\ DOMAIN u.disk = (DOMAIN t.disk \ {from}) \cup {to}
    /\ u.disk[to] = t.disk[from]
    /\ \A q \in DOMAIN t.disk \ {from, to} : u.disk[q] = t.disk[q]
    /\ u.dirs = t.dirs /\ u.count = t.count /\ u.current = t.current

\* A move between places of the restore leaves all else as it is.
LEMMA MovedFrame ==
    ASSUME NEW s, NEW r, NEW t, NEW u, NEW from, NEW to, Frame(t, s, r), Moved(t, u, from, to),
           from \in DOMAIN t.disk,
           from \notin DOMAIN s.disk \/ from \in TakenOver(s),
           \/ to \in TakenOver(s)
           \/ \E q \in TakenOver(s) : to = Kept(r, q)
           \/ \E n \in Managed : to \in {<<File(n)>>, Staged(r, n)},
           to \in DOMAIN s.disk => to \in TakenOver(s),
           \A n \in Managed : to = Staged(r, n) => t.disk[from] = Image(r.id),
           TakenOver(s) \subseteq DOMAIN s.disk
    PROVE  Frame(u, s, r)
<1>1. IsFiniteSet(DOMAIN u.disk)
  <2>1. IsFiniteSet(DOMAIN t.disk \ {from})
    BY FS_Subset DEF Frame
  <2> QED
    BY <2>1, FS_AddElement DEF Moved
<1>2. \A p \in DOMAIN s.disk \ TakenOver(s) : p \in DOMAIN u.disk /\ u.disk[p] = s.disk[p]
  BY DEF Frame, Moved
<1>3. \A p \in DOMAIN u.disk :
          \/ p \in DOMAIN s.disk
          \/ \E q \in TakenOver(s) : p = Kept(r, q)
          \/ \E n \in Managed : p \in {<<File(n)>>, Staged(r, n)}
          \/ \E i \in r.id..u.count : p \in {<<KeyOf(i)>>, <<TemporaryOf(i)>>}
          \/ p = <<JournalOf(r.id)>>
  BY DEF Frame, Moved
<1>4. \A n \in Managed : Staged(r, n) \in DOMAIN u.disk => u.disk[Staged(r, n)] = Image(r.id)
  <2> SUFFICES ASSUME NEW n \in Managed, Staged(r, n) \in DOMAIN u.disk
               PROVE  u.disk[Staged(r, n)] = Image(r.id)
    OBVIOUS
  <2>1. CASE to = Staged(r, n)
    BY <2>1 DEF Moved
  <2>2. CASE to # Staged(r, n)
    <3>1. Staged(r, n) \in DOMAIN t.disk \ {from, to}
      BY <2>2 DEF Moved
    <3> QED
      BY <3>1 DEF Moved, Frame
  <2> QED
    BY <2>1, <2>2
<1> QED
  BY <1>1, <1>2, <1>3, <1>4 DEF Frame, Moved

\* A file that is moved away.
LEMMA MovedAway ==
    ASSUME NEW s, Typed(s), NEW r, r.id = s.count + 1, NEW t, NEW u,
           Frame(t, s, r), InExchange(t, s, r), \A n \in Managed : Ready(t, s, r, n),
           NEW p \in TakenOver(s), Home(t, s, r, p), Moved(t, u, p, Kept(r, p))
    PROVE  /\ Frame(u, s, r) /\ InExchange(u, s, r) /\ \A n \in Managed : Ready(u, s, r, n)
           /\ \A q \in TakenOver(s) : Gone(u, r, q) => Gone(t, r, q)
<1>1. /\ TakenOver(s) \subseteq DOMAIN s.disk
      /\ \A q \in TakenOver(s) : /\ Kept(r, q) \notin DOMAIN s.disk
                                 /\ \A x : Kept(r, q) # <<x>>
                                 /\ \A n \in Managed : Kept(r, q) # Staged(r, n)
      /\ \A q \in TakenOver(s) : Kept(r, p) = Kept(r, q) => p = q
      /\ \A n \in Managed : Staged(r, n) \notin DOMAIN s.disk
  BY Distinct
<1>2. Frame(u, s, r)
  BY <1>1, MovedFrame DEF Home
<1>3. ASSUME NEW q \in TakenOver(s), q # p
      PROVE  /\ Home(t, s, r, q) => Home(u, s, r, q)
             /\ Away(t, s, r, q) => Away(u, s, r, q)
             /\ Gone(t, r, q) <=> Gone(u, r, q)
  <2>1. /\ q \notin {p, Kept(r, p)} /\ Kept(r, q) \notin {p, Kept(r, p)}
    BY <1>1, <1>3
  <2>2. /\ q \in DOMAIN u.disk <=> q \in DOMAIN t.disk
        /\ q \in DOMAIN t.disk => u.disk[q] = t.disk[q]
        /\ Kept(r, q) \in DOMAIN u.disk <=> Kept(r, q) \in DOMAIN t.disk
        /\ Kept(r, q) \in DOMAIN t.disk => u.disk[Kept(r, q)] = t.disk[Kept(r, q)]
    BY <2>1 DEF Moved
  <2> QED
    BY <2>2 DEF Home, Away, Gone
<1>4. Away(u, s, r, p)
  BY <1>1 DEF Moved, Home, Away
<1>5. ASSUME NEW n \in Managed PROVE Ready(u, s, r, n)
  <2>1. Staged(r, n) \notin {p, Kept(r, p)} /\ <<File(n)>> # Kept(r, p)
    BY <1>1
  <2>2. Ready(t, s, r, n)
    OBVIOUS
  <2> QED
    BY <2>1, <2>2 DEF Ready, Moved
<1>6. ~ \E n \in Managed : Published(u, r, n)
  BY <1>5 DEF Ready, Published
<1>7. InExchange(u, s, r)
  BY <1>3, <1>4, <1>5, <1>6 DEF InExchange, Moved
<1>8. ~Gone(u, r, p)
  BY <1>4 DEF Away, Gone
<1> QED
  BY <1>2, <1>3, <1>5, <1>7, <1>8

\* A file that is moved back.
LEMMA MovedHome ==
    ASSUME NEW s, Typed(s), NEW r, r.id = s.count + 1, NEW t, NEW u,
           Frame(t, s, r), InExchange(t, s, r), \A n \in Managed : Ready(t, s, r, n),
           NEW p \in TakenOver(s), Away(t, s, r, p), p \notin DOMAIN t.disk,
           Moved(t, u, Kept(r, p), p)
    PROVE  /\ Frame(u, s, r) /\ InExchange(u, s, r)
           /\ \A q \in TakenOver(s) : Gone(u, r, q) => Gone(t, r, q)
<1>1. /\ TakenOver(s) \subseteq DOMAIN s.disk /\ r.id \in Nat
      /\ \A q \in TakenOver(s) : /\ Kept(r, q) \notin DOMAIN s.disk
                                 /\ \A x : Kept(r, q) # <<x>>
                                 /\ \A n \in Managed : Kept(r, q) # Staged(r, n)
      /\ \A q \in TakenOver(s) : Kept(r, p) = Kept(r, q) => p = q
      /\ \A n \in Managed : Staged(r, n) \notin DOMAIN s.disk
  BY Distinct
<1>2. Frame(u, s, r)
  BY <1>1, MovedFrame DEF Away
<1>3. ASSUME NEW q \in TakenOver(s), q # p
      PROVE  /\ Home(t, s, r, q) => Home(u, s, r, q)
             /\ Away(t, s, r, q) => Away(u, s, r, q)
             /\ Gone(t, r, q) <=> Gone(u, r, q)
  <2>1. /\ q \notin {p, Kept(r, p)} /\ Kept(r, q) \notin {p, Kept(r, p)}
    BY <1>1, <1>3
  <2>2. /\ q \in DOMAIN u.disk <=> q \in DOMAIN t.disk
        /\ q \in DOMAIN t.disk => u.disk[q] = t.disk[q]
        /\ Kept(r, q) \in DOMAIN u.disk <=> Kept(r, q) \in DOMAIN t.disk
        /\ Kept(r, q) \in DOMAIN t.disk => u.disk[Kept(r, q)] = t.disk[Kept(r, q)]
    BY <2>1 DEF Moved
  <2> QED
    BY <2>2 DEF Home, Away, Gone
<1>4. p \in DOMAIN u.disk /\ u.disk[p] = s.disk[p] /\ Home(u, s, r, p)
  BY <1>1 DEF Moved, Home, Away
<1>5. ASSUME NEW n \in Managed PROVE Ready(u, s, r, n)
  <2>1. Staged(r, n) \notin {p, Kept(r, p)} /\ <<File(n)>> # Kept(r, p)
    BY <1>1
  <2>2. Ready(t, s, r, n)
    OBVIOUS
  <2>3. CASE <<File(n)>> # p
    BY <2>1, <2>2, <2>3 DEF Ready, Moved
  <2>4. CASE <<File(n)>> = p
    <3>1. p[Len(p)][1] = "file" /\ p \in DOMAIN s.disk
      BY <1>1, <2>4 DEF File
    <3>2. PICK i \in 0..s.count : s.disk[p] = Image(i)
      BY <3>1 DEF Typed
    <3>3. i # r.id
      BY DEF Typed
    <3>4. u.disk[p] # Image(r.id)
      BY <1>4, <3>2, <3>3 DEF Image
    <3> QED
      BY <2>1, <2>2, <2>4, <3>1, <3>4 DEF Ready, Moved
  <2> QED
    BY <2>3, <2>4
<1>6. ~ \E n \in Managed : Published(u, r, n)
  BY <1>5 DEF Ready, Published
<1>7. InExchange(u, s, r)
  BY <1>3, <1>4, <1>5, <1>6 DEF InExchange, Moved
<1>8. ~Gone(u, r, p)
  BY <1>4 DEF Gone
<1> QED
  BY <1>2, <1>3, <1>7, <1>8

\* A file of the backup that is published.
LEMMA MovedIn ==
    ASSUME NEW s, Typed(s), NEW r, r.id = s.count + 1, NEW t, NEW u,
           Frame(t, s, r), InExchange(t, s, r), \A q \in TakenOver(s) : Away(t, s, r, q),
           NEW n \in Managed, Ready(t, s, r, n), <<File(n)>> \notin DOMAIN t.disk,
           Moved(t, u, Staged(r, n), <<File(n)>>)
    PROVE  /\ Frame(u, s, r) /\ InExchange(u, s, r)
           /\ \A q \in TakenOver(s) : Away(u, s, r, q)
<1>1. /\ TakenOver(s) \subseteq DOMAIN s.disk
      /\ \A q \in TakenOver(s) : /\ Kept(r, q) \notin DOMAIN s.disk
                                 /\ \A x : Kept(r, q) # <<x>>
                                 /\ \A m \in Managed : Kept(r, q) # Staged(r, m)
      /\ \A m \in Managed : Staged(r, m) \notin DOMAIN s.disk /\ \A x : Staged(r, m) # <<x>>
      /\ \A m \in Managed : Staged(r, m) = Staged(r, n) => m = n
      /\ \A m : <<File(m)>> = <<File(n)>> => m = n
  BY Distinct
<1>2. Frame(u, s, r)
  <2>1. <<File(n)>> \in DOMAIN s.disk => <<File(n)>> \in TakenOver(s)
    BY DEF TakenOver
  <2> QED
    BY <1>1, <2>1, MovedFrame DEF Ready
<1>3. <<File(n)>> \in DOMAIN u.disk /\ u.disk[<<File(n)>>] = Image(r.id) /\ Published(u, r, n)
  BY <1>1 DEF Moved, Ready, Published
<1>4. ASSUME NEW q \in TakenOver(s) PROVE Away(u, s, r, q)
  <2>1. /\ q # Staged(r, n) /\ Kept(r, q) \notin {Staged(r, n), <<File(n)>>}
    BY <1>1
  <2>2. Away(t, s, r, q)
    OBVIOUS
  <2>3. Kept(r, q) \in DOMAIN u.disk /\ u.disk[Kept(r, q)] = s.disk[q]
    BY <2>1, <2>2 DEF Moved, Away
  <2>4. ASSUME q \in DOMAIN u.disk
        PROVE  \E m \in Managed : q = <<File(m)>> /\ u.disk[q] = Image(r.id)
    <3>1. CASE q = <<File(n)>>
      BY <1>3, <3>1
    <3>2. CASE q # <<File(n)>>
      BY <2>1, <2>2, <2>4, <3>2 DEF Moved, Away
    <3> QED
      BY <3>1, <3>2
  <2> QED
    BY <2>3, <2>4 DEF Away
<1>5. ASSUME NEW m \in Managed PROVE Ready(u, s, r, m) \/ Published(u, r, m)
  <2>1. CASE m = n
    BY <1>3, <2>1
  <2>2. CASE m # n
    <3>1. Staged(r, m) \notin {Staged(r, n), <<File(n)>>} /\ <<File(m)>> \notin {Staged(r, n), <<File(n)>>}
      BY <1>1, <2>2
    <3>2. Ready(t, s, r, m) \/ Published(t, r, m)
      BY DEF InExchange
    <3> QED
      BY <3>1, <3>2 DEF Moved, Ready, Published
  <2> QED
    BY <2>1, <2>2
<1>6. InExchange(u, s, r)
  BY <1>4, <1>5 DEF InExchange, Moved
<1> QED
  BY <1>2, <1>4, <1>6

\* A published file that is taken back.
LEMMA MovedOut ==
    ASSUME NEW s, Typed(s), NEW r, r.id = s.count + 1, NEW t, NEW u,
           Frame(t, s, r), InExchange(t, s, r), NEW n \in Managed, Published(t, r, n),
           Moved(t, u, <<File(n)>>, Staged(r, n))
    PROVE  /\ Frame(u, s, r) /\ InExchange(u, s, r)
           /\ \A q \in TakenOver(s) : Gone(u, r, q) => Gone(t, r, q)
<1>1. /\ TakenOver(s) \subseteq DOMAIN s.disk
      /\ \A q \in TakenOver(s) : /\ Kept(r, q) \notin DOMAIN s.disk
                                 /\ \A x : Kept(r, q) # <<x>>
                                 /\ \A m \in Managed : Kept(r, q) # Staged(r, m)
      /\ \A m \in Managed : Staged(r, m) \notin DOMAIN s.disk /\ \A x : Staged(r, m) # <<x>>
      /\ \A m \in Managed : Staged(r, m) = Staged(r, n) => m = n
      /\ \A m : <<File(m)>> = <<File(n)>> => m = n
  BY Distinct
<1>2. Frame(u, s, r)
  <2>1. <<File(n)>> \in DOMAIN s.disk => <<File(n)>> \in TakenOver(s)
    BY DEF TakenOver
  <2> QED
    BY <1>1, <2>1, MovedFrame DEF Published
<1>3. <<File(n)>> \notin DOMAIN u.disk /\ Ready(u, s, r, n)
  BY <1>1 DEF Moved, Ready, Published
<1>4. ASSUME NEW q \in TakenOver(s) PROVE Away(u, s, r, q)
  <2>1. /\ q # Staged(r, n) /\ Kept(r, q) \notin {Staged(r, n), <<File(n)>>}
    BY <1>1
  <2>2. Away(t, s, r, q)
    BY DEF InExchange
  <2> QED
    BY <2>1, <2>2 DEF Moved, Away
<1>5. ASSUME NEW m \in Managed PROVE Ready(u, s, r, m) \/ Published(u, r, m)
  <2>1. CASE m = n
    BY <1>3, <2>1
  <2>2. CASE m # n
    <3>1. Staged(r, m) \notin {Staged(r, n), <<File(n)>>} /\ <<File(m)>> \notin {Staged(r, n), <<File(n)>>}
      BY <1>1, <2>2
    <3>2. Ready(t, s, r, m) \/ Published(t, r, m)
      BY DEF InExchange
    <3> QED
      BY <3>1, <3>2 DEF Moved, Ready, Published
  <2> QED
    BY <2>1, <2>2
<1>6. InExchange(u, s, r)
  BY <1>4, <1>5 DEF InExchange, Moved
<1>7. \A q \in TakenOver(s) : ~Gone(u, r, q)
  BY <1>4 DEF Away, Gone
<1> QED
  BY <1>2, <1>6, <1>7

\* Where the files of a restore go there is a directory.
LEMMA KeptParent ==
    ASSUME NEW s, Typed(s), Tree(s), NEW r, RecordOK(r, s), NEW p \in TakenOver(s)
    PROVE  Front(Kept(r, p)) \in Wanted(r)
<1>1. /\ p \in DOMAIN s.disk /\ p \in Seq(Names) /\ p # <<>> /\ Len(p) \in Nat \ {0} /\ r.id \in Nat
      /\ Len(p) # 1 => Len(p) > 1
  BY TypedPaths DEF TakenOver, RecordOK, Typed
<1>2. CASE Len(p) = 1
  BY <1>1, <1>2, KeptFront DEF Wanted
<1>3. CASE Len(p) # 1
  <2>1. Front(Kept(r, p)) = Kept(r, Front(p)) /\ Front(p) \in s.dirs
    BY <1>1, <1>3, KeptFront DEF Tree
  <2>2. InPending(s, p)
    BY <1>3 DEF TakenOver
  <2>3. IsStrictPrefix(Front(p), p) /\ Front(p)[1] = p[1]
    BY <1>1, <1>3, FrontMeans
  <2>4. Front(p) \in TakenDirectories(s)
    BY <2>1, <2>2, <2>3 DEF TakenDirectories, InPending
  <2>5. PICK n \in DOMAIN r.directories : r.directories[n] = Front(p)
    BY <2>4 DEF RecordOK
  <2> QED
    BY <2>1, <2>5 DEF Wanted
<1> QED
  BY <1>2, <1>3

\* A file moved into a directory that is there leaves a tree.
LEMMA MovedTree ==
    ASSUME NEW t, NEW u, NEW from, NEW to, Tree(t), Moved(t, u, from, to),
           Len(to) > 1 => Front(to) \in t.dirs
    PROVE  Tree(u)
BY DEF Tree, Moved

\* A rename moves one file.
LEMMA RenameMoves ==
    ASSUME NEW from, NEW to, Rename(from, to), UNCHANGED <<dirs, history>>
    PROVE  Moved(Now, Now', from, to) /\ Now.disk = disk /\ Now.dirs = dirs /\ Now'.disk = disk'
           /\ Now'.current = Now.current /\ Now.current = current
BY DEF Rename, Moved, Now, history

\* Where the operations of a journal find and put files.
Places(s, r) == TakenOver(s) \cup {Kept(r, q) : q \in TakenOver(s)}
                    \cup {<<File(n)>> : n \in Managed} \cup {Staged(r, n) : n \in Managed}

\* The restore's own journal, key and temporary are in none of its places.
LEMMA OwnFiles ==
    ASSUME NEW s, Typed(s), mem.id = s.count + 1
    PROVE  {JournalPath, KeyPath, TemporaryPath} \cap Places(s, mem) = {}
BY Distinct DEF Places, JournalPath, KeyPath, TemporaryPath

\* So a move between these leaves them alone.
LEMMA MovedGoes ==
    ASSUME NEW s, Typed(s), mem.id = s.count + 1,
           NEW from \in Places(s, mem), NEW to \in Places(s, mem), Moved(Now, Now', from, to)
    PROVE  \A p \in {JournalPath, KeyPath, TemporaryPath} :
              /\ p \in DOMAIN disk' <=> p \in DOMAIN disk
              /\ p \in DOMAIN disk => disk'[p] = disk[p]
<1>1. \A p \in {JournalPath, KeyPath, TemporaryPath} : p # from /\ p # to
  BY OwnFiles
<1> QED
  BY <1>1 DEF Moved, Now

\* Preserving moves a file to the evidence, or finds all of them there.
LEMMA PreserveStep ==
    ASSUME NEW b, InvOf(b), Preserve
    PROVE  InvOf(b)'
<1>0. PICK s : s = b[mem.id]
  OBVIOUS
<1>1. pc = "preserve" /\ UNCHANGED <<dirs, refusal, history, command, mem>>
  BY DEF Preserve, Goto, Persist
<1>2. /\ RecordOK(mem, s) /\ Typed(s) /\ mem.id = s.count + 1 /\ Tree(Now) /\ mem.id \in Nat
      /\ JournaledOK(s) /\ PhaseAt(s) /\ Progress(Now, s, mem) /\ At = pc /\ Tree(s)
  BY <1>0, <1>1, WorkFacts, AtWork DEF SnapshotOK
<1>3. /\ command = "restore" /\ mem.phase = "publishing"
      /\ \A n \in Managed : Ready(Now, s, mem, n)
  BY <1>1, <1>2 DEF PhaseAt
<1>4. InExchange(Now, s, mem) /\ Frame(Now, s, mem) /\ NoneGone(s)
  BY <1>2, <1>3 DEF Progress, JournaledOK
<1>5. ASSUME NEW p \in TakenOver(s)
      PROVE  \/ Home(Now, s, mem, p) /\ ForwardVerdict(Taking(mem, s, p)) = "move"
             \/ Away(Now, s, mem, p) /\ ForwardVerdict(Taking(mem, s, p)) = "skip"
  <2>1. Home(Now, s, mem, p) \/ Away(Now, s, mem, p)
    BY <1>4 DEF InExchange, NoneGone
  <2>2. CASE Home(Now, s, mem, p)
    BY <1>2, <2>2, TakingVerdicts
  <2>3. CASE Away(Now, s, mem, p)
    <3>1. p \notin DOMAIN disk
      BY <1>3, <2>3 DEF Away, Ready, Now
    <3> QED
      BY <1>2, <2>3, <3>1, TakingVerdicts
  <2> QED
    BY <2>1, <2>2, <2>3
<1> DEFINE op == FirstOpen(Preservations(mem))
<1>6. CASE Open(Preservations(mem)) = {}
  <2>1. pc' = "publish" /\ UNCHANGED <<disk, then>>
    BY <1>6 DEF Preserve, Goto
  <2>2. Now' = Now
    BY <1>1, <2>1 DEF Now, history
  <2>3. \A p \in TakenOver(s) : Away(Now, s, mem, p)
    <3> TAKE p \in TakenOver(s)
    <3>1. PICK n \in DOMAIN mem.previous : Preservations(mem)[n] = Taking(mem, s, p)
      BY <1>2, PreservationsAre
    <3>2. n \in DOMAIN Preservations(mem)
      BY <1>2, PreservationsAre
    <3>3. ForwardVerdict(Taking(mem, s, p)) = "skip"
      BY <1>6, <3>1, <3>2 DEF Open
    <3> QED
      BY <1>5, <3>3
  <2>4. PhaseAt(s)'
    BY <1>1, <1>3, <2>1, <2>2, <2>3 DEF PhaseAt, At, Writing
  <2>5. NoneGone(s)'
    BY <1>1, <1>4, <2>2 DEF NoneGone
  <2>6. begun' = begun /\ current' = current
    BY <1>1 DEF history
  <2> QED
    BY <1>0, <1>1, <1>2, <2>1, <2>2, <2>4, <2>5, <2>6, Goes
<1>7. CASE Open(Preservations(mem)) # {}
  <2>1. Rename(op.from, op.to) /\ pc' = "persist" /\ then' = "preserve"
    BY <1>7 DEF Preserve, Persist
  <2>2. PICK p \in TakenOver(s) : op = Taking(mem, s, p) /\ Home(Now, s, mem, p)
    <3> DEFINE open == Open(Preservations(mem))
    <3>1. open \in SUBSET Nat
      BY <1>2, PreservationsAre DEF Open
    <3>2. Min(open) \in open
      <4> HIDE DEF open
      <4> QED
        BY <1>7, <3>1, LeastNumber DEF open
    <3>3. /\ Min(open) \in DOMAIN mem.previous
          /\ ForwardVerdict(Preservations(mem)[Min(open)]) # "skip"
      BY <1>2, <3>2, PreservationsAre DEF Open
    <3>4. op = Preservations(mem)[Min(open)]
      BY DEF FirstOpen
    <3>5. mem.previous[Min(open)].path \in TakenOver(s)
          /\ op = Taking(mem, s, mem.previous[Min(open)].path)
      BY <1>2, <3>3, <3>4, PreservationsAre
    <3> QED
      BY <1>5, <3>3, <3>4, <3>5
  <2> HIDE DEF op
  <2>3. op.from = p /\ op.to = Kept(mem, p)
    BY <2>2 DEF Taking
  <2>4. Moved(Now, Now', p, Kept(mem, p)) /\ Now.dirs = dirs
    BY <1>1, <2>1, <2>3, RenameMoves
  <2>5. /\ Frame(Now', s, mem) /\ InExchange(Now', s, mem)
        /\ \A n \in Managed : Ready(Now', s, mem, n)
        /\ \A q \in TakenOver(s) : Gone(Now', mem, q) => Gone(Now, mem, q)
    BY <1>2, <1>3, <1>4, <2>2, <2>4, MovedAway
  <2>6. Progress(Now', s, mem)
    BY <1>3, <2>5 DEF Progress, UndonePhases
  <2>7. Tree(Now')
    <3>1. Front(Kept(mem, p)) \in dirs
      BY <1>2, <1>4, <2>4, KeptParent DEF InExchange
    <3> QED
      BY <1>2, <2>4, <3>1, MovedTree
  <2>8. NoneGone(s)'
    BY <1>1, <1>4, <2>5 DEF NoneGone
  <2>9. PhaseAt(s)'
    BY <1>1, <1>3, <2>1, <2>5 DEF PhaseAt, At, Writing
  <2>10. p \in Places(s, mem) /\ Kept(mem, p) \in Places(s, mem)
    BY DEF Places
  <2>11. begun' = begun /\ current' = current
    BY <1>1 DEF history
  <2>12. \A q \in {JournalPath, KeyPath, TemporaryPath} :
              /\ q \in DOMAIN disk' <=> q \in DOMAIN disk
              /\ q \in DOMAIN disk => disk'[q] = disk[q]
    BY <1>2, <2>4, <2>10, MovedGoes
  <2> QED
    BY <1>0, <1>1, <1>2, <2>1, <2>6, <2>7, <2>8, <2>9, <2>11, <2>12, Goes
<1> QED
  BY <1>6, <1>7

\* Publishing moves a file of the backup in, or commits.
LEMMA PublishStep ==
    ASSUME NEW b, InvOf(b), Publish
    PROVE  InvOf(b)'
<1>0. PICK s : s = b[mem.id]
  OBVIOUS
<1>1. pc = "publish" /\ pc' = "persist" /\ UNCHANGED <<dirs, command, refusal, history>>
  BY DEF Publish, Persist
<1>2. /\ RecordOK(mem, s) /\ Typed(s) /\ mem.id = s.count + 1 /\ Tree(Now) /\ mem.id \in Nat
      /\ JournaledOK(s) /\ PhaseAt(s) /\ Progress(Now, s, mem) /\ At = pc /\ Tree(s)
      /\ command \in {"restore", "settle"}
  BY <1>0, <1>1, WorkFacts, AtWork DEF SnapshotOK
<1>3. /\ command = "restore" /\ mem.phase = "publishing"
      /\ \A p \in TakenOver(s) : Away(Now, s, mem, p)
  BY <1>1, <1>2 DEF PhaseAt
<1>4. InExchange(Now, s, mem) /\ Frame(Now, s, mem) /\ NoneGone(s) /\ Exchanged(s, mem)
  BY <1>2, <1>3 DEF Progress, JournaledOK, InExchange, Exchanged
<1>5. ASSUME NEW n \in Managed
      PROVE  \/ /\ Ready(Now, s, mem, n) /\ <<File(n)>> \notin DOMAIN disk
                /\ ForwardVerdict(Publishing(mem, n)) = "move"
             \/ Published(Now, mem, n) /\ ForwardVerdict(Publishing(mem, n)) = "skip"
  <2>1. CASE Ready(Now, s, mem, n)
    <3>1. <<File(n)>> \notin DOMAIN disk
      <4>1. SUFFICES ASSUME <<File(n)>> \in DOMAIN disk PROVE FALSE
        OBVIOUS
      <4>2. <<File(n)>> \in TakenOver(s)
        BY <1>4, <2>1, <4>1, Unpublished
      <4>3. disk[<<File(n)>>] = Image(mem.id)
        BY <1>3, <4>1, <4>2 DEF Away, Now
      <4> QED
        BY <2>1, <4>1, <4>3 DEF Ready, Now
    <3> QED
      BY <1>2, <1>4, <2>1, <3>1, PublishingVerdicts
  <2>2. CASE Published(Now, mem, n)
    BY <1>2, <1>4, <2>2, PublishingVerdicts
  <2> QED
    BY <1>4, <2>1, <2>2 DEF Exchanged
<1>6. /\ DOMAIN Publications(mem) = Managed
      /\ \A n \in Managed : Publications(mem)[n] = Publishing(mem, n)
  BY <1>2, PreservationsAre
<1> DEFINE op == FirstOpen(Publications(mem))
<1>7. CASE Open(Publications(mem)) = {}
  <2>1. mem' = [mem EXCEPT !.phase = "committed"] /\ then' = "finish" /\ disk' = disk
    BY <1>7 DEF Publish, Persist
  <2>2. \A n \in Managed : Published(Now, mem, n)
    BY <1>5, <1>6, <1>7 DEF Open
  <2>3. /\ RecordOK(mem', s) /\ mem'.phase = "committed" /\ mem'.id = mem.id
        /\ mem'.directories = mem.directories
    BY <1>2, <2>1, Rephased DEF Phases
  <2>4. InCommitted(Now, s, mem)
    BY <1>3, <1>4, <2>2 DEF InExchange, InCommitted
  <2>5. Frame(Now, s, mem')
    BY <1>3, <1>4, <2>3, SameRestore
  <2>6. InCommitted(Now, s, mem')
    BY <2>3, <2>4, SameRestore DEF InCommitted
  <2>7. Progress(Now, s, mem')
    BY <2>3, <2>5, <2>6 DEF Progress, UndonePhases
  <2>8. PhaseAt(s)'
    BY <1>1, <2>1, <2>3 DEF PhaseAt, At, Writing
  <2>9. begun' = begun /\ current' = current
    BY <1>1 DEF history
  <2> QED
    BY <1>0, <1>1, <1>2, <2>1, <2>3, <2>7, <2>8, <2>9, Advances
<1>8. CASE Open(Publications(mem)) # {}
  <2>1. Rename(op.from, op.to) /\ mem' = mem /\ then' = "publish"
    BY <1>8 DEF Publish, Persist
  <2>2. PICK n \in Managed : op = Publishing(mem, n) /\ Ready(Now, s, mem, n)
                             /\ <<File(n)>> \notin DOMAIN disk
    <3> DEFINE open == Open(Publications(mem))
    <3>1. open \in SUBSET Nat
      BY <1>6, SizeAssumption DEF Open, Managed
    <3>2. Min(open) \in open
      <4> HIDE DEF open
      <4> QED
        BY <1>8, <3>1, LeastNumber DEF open
    <3>3. Min(open) \in Managed /\ ForwardVerdict(Publications(mem)[Min(open)]) # "skip"
      BY <1>6, <3>2 DEF Open
    <3>4. op = Publications(mem)[Min(open)]
      BY DEF FirstOpen
    <3> QED
      BY <1>5, <1>6, <3>3, <3>4
  <2> HIDE DEF op
  <2>3. op.from = Staged(mem, n) /\ op.to = <<File(n)>>
    BY <2>2 DEF Publishing
  <2>4. Moved(Now, Now', Staged(mem, n), <<File(n)>>) /\ Now.disk = disk
    BY <1>1, <2>1, <2>3, RenameMoves
  <2>5. /\ Frame(Now', s, mem) /\ InExchange(Now', s, mem)
        /\ \A q \in TakenOver(s) : Away(Now', s, mem, q)
    BY <1>2, <1>3, <1>4, <2>2, <2>4, MovedIn
  <2>6. Progress(Now', s, mem)
    BY <1>3, <2>5 DEF Progress, UndonePhases
  <2>7. Tree(Now')
    <3>1. ~(Len(<<File(n)>>) > 1)
      OBVIOUS
    <3> QED
      BY <1>2, <2>4, <3>1, MovedTree
  <2>8. NoneGone(s)'
    BY <2>1, <2>5 DEF NoneGone, Away, Gone
  <2>9. PhaseAt(s)'
    BY <1>1, <1>3, <2>1, <2>5 DEF PhaseAt, At, Writing
  <2>10. Staged(mem, n) \in Places(s, mem) /\ <<File(n)>> \in Places(s, mem)
    BY DEF Places
  <2>11. begun' = begun /\ current' = current
    BY <1>1 DEF history
  <2>12. \A q \in {JournalPath, KeyPath, TemporaryPath} :
              /\ q \in DOMAIN disk' <=> q \in DOMAIN disk
              /\ q \in DOMAIN disk => disk'[q] = disk[q]
    BY <1>2, <2>4, <2>10, MovedGoes
  <2> QED
    BY <1>0, <1>1, <1>2, <2>1, <2>6, <2>7, <2>8, <2>9, <2>11, <2>12, Goes
<1> QED
  BY <1>7, <1>8

----------------------------------------------------------------------------
(* Rolling back                                                            *)

\* The journals of the model are those of the directory now.
LEMMA JournalsAre == Journals = JournalsOf(Now)
BY DEF Journals, Listed, JournalsOf, Now, Ids, Present, JournalOf

\* A step after which nothing runs and the directory is as before.
LEMMA Stops ==
    ASSUME NEW b, InvOf(b), UNCHANGED <<directory, history>>, Idle, RefusalOK'
    PROVE  InvOf(b)'
<1>1. Now' = Now /\ begun' = begun
  BY DEF Now, directory, history
<1>2. SnapshotOK(Now, b)' /\ HistoryOK(b)'
  BY <1>1 DEF InvOf, HistoryOK
<1>3. ProcessOK(b)'
  BY DEF ProcessOK, Idle
<1> QED
  BY <1>2, <1>3 DEF InvOf

\* In the phases of the exchange every file is in one of its places.
LEMMA ExchangedAt ==
    ASSUME NEW s, NEW r, Progress(Now, s, r), r.phase \in {"publishing", "rollback", "committed"}
    PROVE  /\ Exchanged(s, r) /\ Frame(Now, s, r) /\ Wanted(r) \subseteq Now.dirs
           /\ r.phase # "committed" => InExchange(Now, s, r)
           /\ r.phase = "committed" => InCommitted(Now, s, r)
BY DEF Progress, InExchange, InCommitted, Exchanged

\* A restore that has moved nothing yet needs only its own files removed.
LEMMA RollbackStagingStep ==
    ASSUME NEW b, InvOf(b), RollbackStaging
    PROVE  InvOf(b)'
<1>0. PICK s : s = b[mem.id]
  OBVIOUS
<1>1. /\ pc = "rollback" /\ mem.phase = "staging" /\ pc' = "persist" /\ then' = "cleanup"
      /\ mem' = [mem EXCEPT !.phase = "staging-cleanup"]
      /\ UNCHANGED <<disk, dirs, command, refusal, begun, current>>
  BY DEF RollbackStaging, BeginCleanup, Persist, directory, history
<1>2. /\ RecordOK(mem, s) /\ JournaledOK(s) /\ PhaseAt(s) /\ Progress(Now, s, mem) /\ At = pc
      /\ command \in {"restore", "settle"}
  BY <1>0, <1>1, WorkFacts, AtWork
<1>3. command = "settle"
  BY <1>1, <1>2 DEF PhaseAt
<1>4. /\ RecordOK(mem', s) /\ mem'.phase = "staging-cleanup" /\ mem'.id = mem.id
      /\ mem'.directories = mem.directories
  <2>1. "staging-cleanup" \in Phases
    BY DEF Phases, CleanupPhases, UndonePhases
  <2> QED
    BY <1>1, <1>2, <2>1, Rephased
<1>5. Progress(Now, s, mem')
  <2>1. Frame(Now, s, mem')
    BY <1>1, <1>2, <1>4, SameRestore DEF Progress
  <2>2. InStaging(Now, s, mem')
    BY <1>1, <1>2, <1>4, SameRestore DEF Progress, InStaging
  <2> QED
    BY <1>4, <2>1, <2>2 DEF Progress
<1>6. PhaseAt(s)'
  BY <1>1, <1>3, <1>4 DEF PhaseAt, At, Writing, CleanupPhases, UndonePhases
<1> QED
  BY <1>0, <1>1, <1>2, <1>4, <1>5, <1>6, Advances

\* When all operations can be reversed no temporary is gone.
LEMMA RollbackStep ==
    ASSUME NEW b, InvOf(b), Rollback
    PROVE  InvOf(b)'
<1>0. PICK s : s = b[mem.id]
  OBVIOUS
<1>1. /\ pc = "rollback" /\ mem.phase # "staging" /\ pc' = "persist" /\ then' = "reverse"
      /\ \A op \in ToSet(Operations(mem)) : Reversible(mem, op)
      /\ mem' = [mem EXCEPT !.phase = "rollback"]
      /\ UNCHANGED <<disk, dirs, command, refusal, begun, current>>
  BY DEF Rollback, Persist, directory, history
<1>2. /\ RecordOK(mem, s) /\ JournaledOK(s) /\ PhaseAt(s) /\ Progress(Now, s, mem) /\ At = pc
      /\ command \in {"restore", "settle"} /\ Typed(s)
  BY <1>0, <1>1, WorkFacts, AtWork
<1>3. /\ command = "settle" /\ mem.phase \in {"publishing", "rollback", "committed"}
      /\ mem.phase = "committed" => current = s.current
  BY <1>1, <1>2 DEF PhaseAt
<1>4. /\ Exchanged(s, mem) /\ Frame(Now, s, mem) /\ Wanted(mem) \subseteq Now.dirs
      /\ mem.phase # "committed" => InExchange(Now, s, mem)
      /\ mem.phase = "committed" => InCommitted(Now, s, mem)
  BY <1>2, <1>3, ExchangedAt
<1>5. InExchange(Now, s, mem)
  <2>1. CASE mem.phase = "committed"
    BY <1>3, <1>4, <2>1 DEF InCommitted, InExchange, Now
  <2> QED
    BY <1>4, <2>1
<1>6. NoneGone(s)
  <2> SUFFICES ASSUME NEW p \in TakenOver(s), Gone(Now, mem, p) PROVE FALSE
    BY DEF NoneGone
  <2>1. ~Reversible(mem, Taking(mem, s, p))
    BY <1>2, TakingVerdicts
  <2>2. Taking(mem, s, p) \in ToSet(Operations(mem))
    BY <1>2, OperationsSet
  <2> QED
    BY <1>1, <2>1, <2>2
<1>7. /\ RecordOK(mem', s) /\ mem'.phase = "rollback" /\ mem'.id = mem.id
      /\ mem'.directories = mem.directories
  BY <1>1, <1>2, Rephased DEF Phases
<1>8. Progress(Now, s, mem')
  <2>1. Frame(Now, s, mem')
    BY <1>3, <1>4, <1>7, SameRestore
  <2>2. InExchange(Now, s, mem')
    BY <1>5, <1>7, SameRestore DEF InExchange
  <2> QED
    BY <1>7, <2>1, <2>2 DEF Progress, UndonePhases
<1>9. NoneGone(s)'
  <2>1. Now' = Now
    BY <1>1 DEF Now
  <2> QED
    BY <1>6, <1>7, <2>1, SameRestore DEF NoneGone
<1>10. PhaseAt(s)'
  BY <1>1, <1>3, <1>7, <1>9 DEF PhaseAt, At, Writing
<1> QED
  BY <1>0, <1>1, <1>2, <1>7, <1>8, <1>10, Advances

\* What cannot be rolled back has lost a temporary journal to the sweep.
LEMMA Irreversible ==
    ASSUME NEW s, Typed(s), NEW r, RecordOK(r, s), Exchanged(s, r),
           NEW op \in ToSet(Operations(r)), ~Reversible(r, op)
    PROVE  \E p \in TakenOver(s) : op = Taking(r, s, p) /\ Gone(Now, r, p) /\ OfTemporary(op.from)
<1>1. CASE \E n \in Managed : op = Publishing(r, n)
  BY <1>1, PublishingVerdicts
<1>2. CASE \E p \in TakenOver(s) : op = Taking(r, s, p)
  <2>1. PICK p \in TakenOver(s) : op = Taking(r, s, p)
    BY <1>2
  <2>2. ~Home(Now, s, r, p) /\ ~Away(Now, s, r, p)
    BY <2>1, TakingVerdicts
  <2>3. Gone(Now, r, p)
    BY <2>2 DEF Exchanged
  <2>4. op.from = p
    BY <2>1 DEF Taking
  <2> QED
    BY <2>1, <2>3, <2>4 DEF Gone
<1> QED
  BY <1>1, <1>2, OperationsSet

\* Refusing changes nothing; a file is gone, so the restore is the only pending one.
LEMMA RollbackRefusedStep ==
    ASSUME NEW b, InvOf(b), RollbackRefused
    PROVE  InvOf(b)'
<1>0. PICK s : s = b[mem.id]
  OBVIOUS
<1>1. /\ pc = "rollback" /\ mem.phase # "staging" /\ refusal' = "mixed-state" /\ Idle
      /\ UNCHANGED <<directory, history>>
  BY DEF RollbackRefused, Refuse
<1>2. PICK op \in ToSet(Operations(mem)) : ~Reversible(mem, op)
  BY DEF RollbackRefused
<1>3. /\ RecordOK(mem, s) /\ JournaledOK(s) /\ PhaseAt(s) /\ Progress(Now, s, mem) /\ At = pc
      /\ Typed(s) /\ mem = disk[JournalPath] /\ IsLatest(Now, mem.id)
  BY <1>0, <1>1, WorkFacts, AtWork
<1>4. /\ mem.phase \in {"publishing", "rollback", "committed"}
      /\ Journals # {mem.id} => NoneGone(s)
  BY <1>1, <1>3 DEF PhaseAt
<1>5. /\ Exchanged(s, mem)
      /\ mem.phase = "committed" => InCommitted(Now, s, mem)
  BY <1>3, <1>4, ExchangedAt
<1>6. PICK p \in TakenOver(s) : Gone(Now, mem, p)
  BY <1>2, <1>3, <1>5, Irreversible
<1>7. JournalsOf(Now) = {mem.id}
  BY <1>4, <1>6, JournalsAre DEF NoneGone
<1>8. mem.phase # "committed"
  BY <1>5, <1>6 DEF InCommitted, Away, Gone
<1>9. RefusalOK'
  <2>1. JournalsOf(Now)' = JournalsOf(Now) /\ disk' = disk
    BY <1>1 DEF JournalsOf, Now, directory, history
  <2>2. disk[<<JournalOf(mem.id)>>].phase \in {"publishing", "rollback"}
    BY <1>3, <1>4, <1>8 DEF JournalPath
  <2>3. \E k \in JournalsOf(Now) :
              /\ \A i \in JournalsOf(Now) : i = k
              /\ disk[<<JournalOf(k)>>].phase \in {"publishing", "rollback"}
    BY <1>7, <2>2
  <2> QED
    BY <1>1, <2>1, <2>3 DEF RefusalOK, Idle
<1> QED
  BY <1>1, <1>9, Stops

\* Once all that was published is taken back, what is left to take back was
\* moved away and nothing is in its place.
LEMMA TakenBack ==
    ASSUME NEW s, Typed(s), NEW r, RecordOK(r, s), Exchanged(s, r),
           \A n \in Managed : Ready(Now, s, r, n),
           NEW p \in TakenOver(s), ~Gone(Now, r, p)
    PROVE  \/ Home(Now, s, r, p) /\ BackwardVerdict(r, Taking(r, s, p)) = "skip"
           \/ /\ Away(Now, s, r, p) /\ p \notin DOMAIN disk
              /\ BackwardVerdict(r, Taking(r, s, p)) = "move"
<1>1. CASE Home(Now, s, r, p)
  BY <1>1, TakingVerdicts
<1>2. CASE Away(Now, s, r, p)
  <2>1. p \notin DOMAIN disk
    BY <1>2 DEF Away, Ready, Now
  <2> QED
    BY <1>2, <2>1, TakingVerdicts
<1> QED
  BY <1>1, <1>2 DEF Exchanged

\* Reversed from the last to the first, a file of the backup leaves before the
\* vault's own comes back; no verdict is "stop".
LEMMA ReverseOperationStep ==
    ASSUME NEW b, InvOf(b), ReverseOperation
    PROVE  InvOf(b)'
<1>0. PICK s : s = b[mem.id]
  OBVIOUS
<1>1. pc = "reverse" /\ ToReverse # {}
  BY DEF ReverseOperation
<1>2. /\ RecordOK(mem, s) /\ Typed(s) /\ mem.id = s.count + 1 /\ Tree(Now) /\ mem.id \in Nat
      /\ JournaledOK(s) /\ PhaseAt(s) /\ Progress(Now, s, mem) /\ At = pc /\ Tree(s)
  BY <1>0, <1>1, WorkFacts, AtWork DEF SnapshotOK
<1>3. command = "settle" /\ mem.phase = "rollback" /\ NoneGone(s)
  BY <1>1, <1>2 DEF PhaseAt
<1>4. /\ Exchanged(s, mem) /\ Frame(Now, s, mem) /\ InExchange(Now, s, mem)
      /\ Wanted(mem) \subseteq Now.dirs
  BY <1>2, <1>3, ExchangedAt
<1> DEFINE k == Max(ToReverse)
           N == Len(mem.previous)
<1>5. /\ k \in DOMAIN Operations(mem) /\ BackwardVerdict(mem, Operations(mem)[k]) # "skip"
      /\ LastToReverse = Operations(mem)[k]
      /\ \A m \in DOMAIN Operations(mem) :
            BackwardVerdict(mem, Operations(mem)[m]) # "skip" => m <= k
  <2>1. N + ManagedFiles \in Nat /\ ToReverse \in SUBSET (1..(N + ManagedFiles))
    BY <1>2, OperationsAre DEF ToReverse
  <2>2. k \in ToReverse /\ \A m \in ToReverse : m <= k
    BY <1>1, <2>1, GreatestNumber
  <2> QED
    BY <2>2 DEF ToReverse, LastToReverse
<1> HIDE DEF k, N
<1>6. N \in Nat /\ \A n \in Managed : n \in Nat /\ n >= 1
  BY <1>2, PreservationsAre, SizeAssumption DEF N, Managed
<1>7. ASSUME NEW from \in Places(s, mem), NEW to \in Places(s, mem),
             LastToReverse.to = from, LastToReverse.from = to,
             BackwardVerdict(mem, LastToReverse) = "move",
             Len(to) > 1 => Front(to) \in dirs,
             Moved(Now, Now', from, to) => /\ Frame(Now', s, mem) /\ InExchange(Now', s, mem)
                                           /\ \A q \in TakenOver(s) : Gone(Now', mem, q) => Gone(Now, mem, q)
      PROVE  InvOf(b)'
  <2>1. /\ Rename(from, to) /\ mem' = mem /\ pc' = "persist" /\ then' = "reverse"
        /\ UNCHANGED <<dirs, command, refusal, history>>
    BY <1>7 DEF ReverseOperation, Persist
  <2>2. Moved(Now, Now', from, to) /\ Now.dirs = dirs
    BY <2>1, RenameMoves
  <2>3. /\ Frame(Now', s, mem) /\ InExchange(Now', s, mem)
        /\ \A q \in TakenOver(s) : Gone(Now', mem, q) => Gone(Now, mem, q)
    BY <1>7, <2>2
  <2>4. Progress(Now', s, mem)
    BY <1>3, <2>3 DEF Progress, UndonePhases
  <2>5. Tree(Now')
    BY <1>2, <1>7, <2>2, MovedTree
  <2>6. NoneGone(s)'
    BY <1>3, <2>1, <2>3 DEF NoneGone
  <2>7. PhaseAt(s)'
    BY <1>3, <2>1, <2>6 DEF PhaseAt, At, Writing
  <2>8. \A q \in {JournalPath, KeyPath, TemporaryPath} :
              /\ q \in DOMAIN disk' <=> q \in DOMAIN disk
              /\ q \in DOMAIN disk => disk'[q] = disk[q]
    BY <1>2, <2>2, MovedGoes
  <2>9. begun' = begun /\ current' = current
    BY <2>1 DEF history
  <2> QED
    BY <1>0, <1>1, <1>2, <1>3, <2>1, <2>4, <2>5, <2>6, <2>7, <2>8, <2>9, Goes
<1>8. CASE k \in 1..N
  <2>1. \A n \in Managed : Ready(Now, s, mem, n)
    <3> SUFFICES ASSUME NEW n \in Managed, Published(Now, mem, n) PROVE FALSE
      BY <1>4 DEF Exchanged
    <3>1. /\ n + N \in DOMAIN Operations(mem) /\ Operations(mem)[n + N] = Publishing(mem, n)
      BY <1>2, OperationsAre DEF N
    <3>2. BackwardVerdict(mem, Publishing(mem, n)) # "skip"
      BY <1>2, <1>4, PublishingVerdicts
    <3>3. n + N <= k
      BY <1>5, <3>1, <3>2
    <3> QED
      BY <1>6, <1>8, <3>3
  <2>2. PICK p \in TakenOver(s) : LastToReverse = Taking(mem, s, p)
    <3>1. Operations(mem)[k] = Preservations(mem)[k] /\ k \in DOMAIN mem.previous
      BY <1>2, <1>8, OperationsAre, PreservationsAre DEF N
    <3> QED
      BY <1>2, <1>5, <3>1, PreservationsAre
  <2>3. /\ Away(Now, s, mem, p) /\ p \notin DOMAIN disk
        /\ BackwardVerdict(mem, LastToReverse) = "move"
    <3>1. ~Gone(Now, mem, p)
      BY <1>3 DEF NoneGone
    <3> QED
      BY <1>2, <1>4, <1>5, <2>1, <2>2, <3>1, TakenBack
  <2>4. LastToReverse.from = p /\ LastToReverse.to = Kept(mem, p)
    BY <2>2 DEF Taking
  <2>5. p \in Places(s, mem) /\ Kept(mem, p) \in Places(s, mem)
    BY DEF Places
  <2>6. Len(p) > 1 => Front(p) \in dirs
    <3>1. p \in DOMAIN s.disk
      BY DEF TakenOver
    <3>2. s.dirs \subseteq dirs
      BY <1>3, <1>4 DEF Frame, Now
    <3> QED
      BY <1>2, <3>1, <3>2 DEF Tree
  <2>7. p \notin DOMAIN Now.disk
    BY <2>3 DEF Now
  <2>8. Moved(Now, Now', Kept(mem, p), p) =>
              /\ Frame(Now', s, mem) /\ InExchange(Now', s, mem)
              /\ \A q \in TakenOver(s) : Gone(Now', mem, q) => Gone(Now, mem, q)
    BY <1>2, <1>4, <2>1, <2>3, <2>7, MovedHome
  <2> QED
    BY <1>7, <2>3, <2>4, <2>5, <2>6, <2>8
<1>9. CASE k - N \in Managed /\ (k - N) + N = k
  <2>1. PICK n \in Managed : n = k - N
    BY <1>9
  <2>2. LastToReverse = Publishing(mem, n)
    <3>1. Operations(mem)[n + N] = Publishing(mem, n)
      BY <1>2, OperationsAre DEF N
    <3> QED
      BY <1>5, <1>9, <2>1, <3>1
  <2>3. Published(Now, mem, n) /\ BackwardVerdict(mem, LastToReverse) = "move"
    <3>1. ~Ready(Now, s, mem, n)
      BY <1>2, <1>4, <1>5, <2>2, PublishingVerdicts
    <3>2. Published(Now, mem, n)
      BY <1>4, <3>1 DEF Exchanged
    <3> QED
      BY <1>2, <1>4, <2>2, <3>2, PublishingVerdicts
  <2>4. LastToReverse.from = Staged(mem, n) /\ LastToReverse.to = <<File(n)>>
    BY <2>2 DEF Publishing
  <2>5. Staged(mem, n) \in Places(s, mem) /\ <<File(n)>> \in Places(s, mem)
    BY DEF Places
  <2>6. Front(Staged(mem, n)) \in dirs
    <3>1. Front(Staged(mem, n)) = <<StagingOf(mem.id)>>
      BY <1>2, <1>6, StagedShape
    <3> QED
      BY <1>4, <3>1 DEF Wanted, Now
  <2>7. Moved(Now, Now', <<File(n)>>, Staged(mem, n)) =>
              /\ Frame(Now', s, mem) /\ InExchange(Now', s, mem)
              /\ \A q \in TakenOver(s) : Gone(Now', mem, q) => Gone(Now, mem, q)
    BY <1>2, <1>4, <2>3, MovedOut
  <2> QED
    BY <1>7, <2>3, <2>4, <2>5, <2>6, <2>7
<1> QED
  <2>1. k \in 1..N \/ (k - N \in Managed /\ (k - N) + N = k)
    BY <1>2, <1>5, OperationsAre DEF N
  <2> QED
    BY <1>8, <1>9, <2>1

\* With all reversed everything is home.
LEMMA ReverseDoneStep ==
    ASSUME NEW b, InvOf(b), ReverseDone
    PROVE  InvOf(b)'
<1>0. PICK s : s = b[mem.id]
  OBVIOUS
<1>1. /\ pc = "reverse" /\ ToReverse = {} /\ pc' = "persist" /\ then' = "cleanup"
      /\ mem' = [mem EXCEPT !.phase = "rollback-cleanup"]
      /\ UNCHANGED <<disk, dirs, command, refusal, begun, current>>
  BY DEF ReverseDone, BeginCleanup, Persist, directory, history
<1>2. /\ RecordOK(mem, s) /\ JournaledOK(s) /\ PhaseAt(s) /\ Progress(Now, s, mem) /\ At = pc
      /\ command \in {"restore", "settle"} /\ Typed(s)
  BY <1>0, <1>1, WorkFacts, AtWork
<1>3. command = "settle" /\ mem.phase = "rollback" /\ NoneGone(s)
  BY <1>1, <1>2 DEF PhaseAt
<1>4. Exchanged(s, mem) /\ Frame(Now, s, mem) /\ InExchange(Now, s, mem)
  BY <1>2, <1>3, ExchangedAt
<1>5. \A op \in ToSet(Operations(mem)) : BackwardVerdict(mem, op) = "skip"
  BY <1>1 DEF ToReverse, ToSet
<1>6. ASSUME NEW n \in Managed PROVE Ready(Now, s, mem, n)
  <2>1. n + Len(mem.previous) \in DOMAIN Operations(mem)
        /\ Operations(mem)[n + Len(mem.previous)] = Publishing(mem, n)
    BY <1>2, OperationsAre
  <2>2. BackwardVerdict(mem, Publishing(mem, n)) = "skip"
    BY <1>5, <2>1 DEF ToSet
  <2> QED
    BY <1>2, <1>4, <2>2, PublishingVerdicts DEF Exchanged
<1>7. ASSUME NEW p \in TakenOver(s) PROVE Home(Now, s, mem, p)
  <2>1. BackwardVerdict(mem, Taking(mem, s, p)) = "skip"
    BY <1>2, <1>5, OperationsSet
  <2> QED
    BY <1>2, <1>3, <1>4, <1>6, <2>1, TakenBack DEF NoneGone
<1>8. InStaging(Now, s, mem)
  BY <1>4, <1>6, <1>7 DEF InExchange, InStaging, Ready
<1>9. /\ RecordOK(mem', s) /\ mem'.phase = "rollback-cleanup" /\ mem'.id = mem.id
      /\ mem'.directories = mem.directories
  <2>1. "rollback-cleanup" \in Phases
    BY DEF Phases, CleanupPhases, UndonePhases
  <2> QED
    BY <1>1, <1>2, <2>1, Rephased
<1>10. Progress(Now, s, mem')
  <2>1. Frame(Now, s, mem')
    BY <1>3, <1>4, <1>9, SameRestore
  <2>2. InStaging(Now, s, mem')
    BY <1>8, <1>9, SameRestore DEF InStaging
  <2> QED
    BY <1>9, <2>1, <2>2 DEF Progress
<1>11. PhaseAt(s)'
  BY <1>1, <1>3, <1>9 DEF PhaseAt, At, Writing, CleanupPhases, UndonePhases
<1> QED
  BY <1>0, <1>1, <1>2, <1>9, <1>10, <1>11, Advances

----------------------------------------------------------------------------
(* The commit                                                              *)

\* Every file is published, so the restore settles and the vault is its image.
LEMMA FinishStep ==
    ASSUME NEW b, InvOf(b), Finish
    PROVE  InvOf(b)'
<1>0. PICK s : s = b[mem.id]
  OBVIOUS
<1>1. pc = "finish"
  BY DEF Finish
<1>2. /\ RecordOK(mem, s) /\ JournaledOK(s) /\ PhaseAt(s) /\ Progress(Now, s, mem) /\ At = pc
      /\ command \in {"restore", "settle"} /\ Typed(s) /\ mem.id \in 1..begun /\ begun \in Nat
      /\ mem = disk[JournalPath] /\ IsLatest(Now, mem.id) /\ TemporaryPath \notin DOMAIN disk
      /\ SnapshotOK(s, b) /\ SnapshotOK(Now, b)
  BY <1>0, <1>1, WorkFacts, AtWork
<1>3. mem.phase = "committed"
  BY <1>1, <1>2 DEF PhaseAt
<1>4. Frame(Now, s, mem) /\ InCommitted(Now, s, mem)
  BY <1>2, <1>3, ExchangedAt
<1>5. \A n \in Managed : Observed(<<File(n)>>, Image(mem.id)) = "expected"
  BY <1>4, ObservedMeans DEF InCommitted, Published, Now
<1>6. /\ pc' = "persist" /\ then' = "cleanup" /\ mem' = [mem EXCEPT !.phase = "committed-cleanup"]
      /\ command' = "settle" /\ current' = mem.id /\ UNCHANGED <<disk, dirs, refusal, begun>>
  BY <1>5 DEF Finish, BeginCleanup, Persist, directory
<1>7. /\ RecordOK(mem', s) /\ mem'.phase = "committed-cleanup" /\ mem'.id = mem.id
      /\ mem'.directories = mem.directories /\ mem'.branch = mem.branch
  <2>1. "committed-cleanup" \in Phases
    BY DEF Phases, CleanupPhases
  <2> QED
    BY <1>2, <1>6, <2>1, Rephased
<1>8. /\ Now'.disk = Now.disk /\ Now'.dirs = Now.dirs /\ Now'.count = Now.count
      /\ Now'.current = mem.id /\ Now.count = begun /\ Now.disk = disk
  BY <1>6 DEF Now
<1>9. Frame(Now', s, mem)
  BY <1>4, <1>8 DEF Frame
<1>10. InCommitted(Now', s, mem)
  BY <1>4, <1>8 DEF InCommitted, Away, Published
<1>11. Progress(Now', s, mem)
  BY <1>3, <1>9, <1>10 DEF Progress, UndonePhases
<1>12. SnapshotOK(Now', b)
  <2>1. /\ <<JournalOf(mem.id)>> \in DOMAIN disk /\ disk[<<JournalOf(mem.id)>>] = mem
    BY <1>2 DEF IsLatest, JournalsOf, Now, JournalPath
  <2>2. <<KeyOf(mem.id)>> \in DOMAIN disk /\ disk[<<KeyOf(mem.id)>>] = Whole
    BY <1>2, <1>8 DEF SnapshotOK, LatestOK, IsLatest
  <2>3. Tree(Now')
    BY <1>2, <1>8 DEF SnapshotOK, Tree
  <2>4. IsLatest(Now', mem.id)
    BY <1>2, <1>8 DEF IsLatest, JournalsOf
  <2> QED
    BY <1>0, <1>2, <1>8, <1>11, <2>1, <2>2, <2>3, <2>4, ProgressSnapshot DEF SnapshotOK
<1>13. Progress(Now', s, mem')
  <2>1. Frame(Now', s, mem')
    BY <1>3, <1>7, <1>9, SameRestore
  <2>2. InCleanup(Now', s, mem)
    BY <1>8, <1>10 DEF InCommitted, InCleanup, Away, Published
  <2>3. InCleanup(Now', s, mem')
    BY <1>7, <2>2, SameRestore DEF InCleanup
  <2> QED
    BY <1>7, <2>1, <2>3 DEF Progress, UndonePhases
<1>14. PhaseAt(s)'
  BY <1>6, <1>7 DEF PhaseAt, At, Writing, CleanupPhases
<1>15. JournaledOK(s)'
  <2>1. IsLatest(Now', mem'.id)
    BY <1>2, <1>7, <1>8 DEF IsLatest, JournalsOf
  <2> QED
    BY <1>6, <1>13, <1>14, <2>1 DEF JournaledOK, Writing
<1>16. WorkingOK(s)'
  BY <1>2, <1>6, <1>7, <1>15 DEF WorkingOK, TemporaryPath
<1>17. ProcessOK(b)'
  BY <1>0, <1>6, <1>7, <1>16 DEF ProcessOK
<1>18. HistoryOK(b)' /\ RefusalOK'
  BY <1>1, <1>6 DEF InvOf, HistoryOK, RefusalOK
<1> QED
  BY <1>12, <1>17, <1>18 DEF InvOf

----------------------------------------------------------------------------
(* Cleaning up                                                             *)

\* What a cleanup unlinks: the staged files and, over a healthy vault, the evidence.
LEMMA DoomedAre ==
    ASSUME NEW s, NEW r, RecordOK(r, s)
    PROVE  LET healthy == r.phase = "committed-cleanup" /\ r.branch = "healthy"
           IN  /\ DOMAIN Doomed(r) = 1..(ManagedFiles + IF healthy THEN Len(r.previous) ELSE 0)
               /\ \A n \in Managed :
                     /\ n \in DOMAIN Doomed(r) /\ Doomed(r)[n].path = Staged(r, n)
                     /\ Doomed(r)[n].content = Image(r.id)
               /\ \A n \in DOMAIN Doomed(r) :
                     \/ \E m \in Managed : /\ Doomed(r)[n].path = Staged(r, m)
                                           /\ Doomed(r)[n].content = Image(r.id)
                     \/ healthy /\ \E p \in TakenOver(s) : /\ Doomed(r)[n].path = Kept(r, p)
                                                           /\ Doomed(r)[n].content = s.disk[p]
               /\ healthy => \A p \in TakenOver(s) :
                                \E n \in DOMAIN Doomed(r) : Doomed(r)[n].path = Kept(r, p)
<1> DEFINE healthy == r.phase = "committed-cleanup" /\ r.branch = "healthy"
           A == [n \in Managed |-> [path |-> Staged(r, n), content |-> Image(r.id)]]
           C == [n \in DOMAIN r.previous |->
                    [r.previous[n] EXCEPT !.path = Kept(r, r.previous[n].path)]]
           S == {A[n] : n \in Managed} \cup {C[n] : n \in DOMAIN r.previous}
           N == Len(r.previous)
           D == Doomed(r)
<1>1. /\ DOMAIN r.previous = 1..N /\ N \in Nat
      /\ \A n \in DOMAIN r.previous : /\ r.previous[n].path \in TakenOver(s)
                                      /\ r.previous[n].content = s.disk[r.previous[n].path]
                                      /\ IsEntry(r.previous[n])
      /\ \A p \in TakenOver(s) : \E n \in DOMAIN r.previous : r.previous[n].path = p
  BY DEF RecordOK
<1>2. A \in [1..ManagedFiles -> S]
  BY DEF Managed
<1>3. C \in [1..N -> S]
  BY <1>1
<1>4. \A n \in Managed : A[n].path = Staged(r, n) /\ A[n].content = Image(r.id)
  OBVIOUS
<1>5. \A n \in 1..N : C[n].path = Kept(r, r.previous[n].path) /\ C[n].content = s.disk[r.previous[n].path]
  <2> TAKE n \in 1..N
  <2>1. r.previous[n] = [path |-> r.previous[n].path, content |-> s.disk[r.previous[n].path]]
    BY <1>1 DEF IsEntry
  <2>2. C[n] = [r.previous[n] EXCEPT !.path = Kept(r, r.previous[n].path)]
    BY <1>1
  <2> HIDE DEF C
  <2>3. C[n] = [path |-> Kept(r, r.previous[n].path), content |-> s.disk[r.previous[n].path]]
    BY <2>1, <2>2
  <2> QED
    BY <2>3
<1>6. D = A \o IF healthy THEN C ELSE <<>>
  BY DEF Doomed
<1> HIDE DEF A, C, S, N, D
<1>7. A \in Seq(S) /\ Len(A) = ManagedFiles /\ C \in Seq(S) /\ Len(C) = N
  BY <1>1, <1>2, <1>3, SizeAssumption
<1>8. CASE healthy
  <2>1. D = A \o C
    BY <1>6, <1>8
  <2>2. DOMAIN D = 1..(ManagedFiles + N)
    BY <1>7, <2>1, Concatenation
  <2>3. \A n \in 1..ManagedFiles : D[n] = A[n] /\ n \in DOMAIN D
    BY <1>7, <2>1, Concatenation
  <2>4. \A n \in 1..N : D[n + ManagedFiles] = C[n] /\ n + ManagedFiles \in DOMAIN D
    BY <1>7, <2>1, Concatenation
  <2>5. \A n \in DOMAIN D : \/ n \in 1..ManagedFiles
                            \/ n - ManagedFiles \in 1..N /\ (n - ManagedFiles) + ManagedFiles = n
    BY <1>7, <2>1, Concatenation
  <2>6. \A n \in DOMAIN D :
                     \/ \E m \in Managed : D[n].path = Staged(r, m) /\ D[n].content = Image(r.id)
                     \/ \E p \in TakenOver(s) : D[n].path = Kept(r, p) /\ D[n].content = s.disk[p]
    <3> TAKE n \in DOMAIN D
    <3>1. CASE n \in 1..ManagedFiles
      BY <1>4, <2>3, <3>1 DEF Managed
    <3>2. CASE n - ManagedFiles \in 1..N /\ (n - ManagedFiles) + ManagedFiles = n
      <4>1. PICK m \in 1..N : m = n - ManagedFiles
        BY <3>2
      <4>2. D[m + ManagedFiles] = C[m] /\ m + ManagedFiles = n
        BY <2>4, <3>2, <4>1
      <4> QED
        BY <1>1, <1>5, <4>2
    <3> QED
      BY <2>5, <3>1, <3>2
  <2>7. \A p \in TakenOver(s) : \E n \in DOMAIN D : D[n].path = Kept(r, p)
    <3> TAKE p \in TakenOver(s)
    <3>1. PICK n \in 1..N : r.previous[n].path = p
      BY <1>1
    <3>2. D[n + ManagedFiles] = C[n] /\ n + ManagedFiles \in DOMAIN D
      BY <2>4
    <3> QED
      BY <1>5, <3>1, <3>2
  <2> QED
    BY <1>4, <1>8, <2>2, <2>3, <2>6, <2>7 DEF D, N, Managed
<1>9. CASE ~healthy
  <2>1. D = A \o <<>>
    <3> HIDE DEF healthy
    <3> QED
      BY <1>6, <1>9, Zenon
  <2>2. D = A
    BY <1>7, <2>1
  <2>3. DOMAIN D = 1..ManagedFiles /\ ManagedFiles = ManagedFiles + 0
    BY <1>7, <2>2, SizeAssumption
  <2> QED
    BY <1>4, <1>9, <2>2, <2>3 DEF D, N, Managed
<1> QED
  BY <1>8, <1>9

\* A cleanup finds only files with the content it knows.
LEMMA CleanUpStep ==
    ASSUME NEW b, InvOf(b), CleanUp
    PROVE  InvOf(b)'
<1>0. PICK s : s = b[mem.id]
  OBVIOUS
<1> DEFINE D == Doomed(mem)
           left == {n \in DOMAIN D : Present(D[n].path)}
           file == D[Min(left)]
<1>1. pc = "cleanup"
  BY DEF CleanUp
<1>2. /\ RecordOK(mem, s) /\ Typed(s) /\ mem.id = s.count + 1 /\ Tree(Now) /\ mem.id \in Nat
      /\ JournaledOK(s) /\ PhaseAt(s) /\ Progress(Now, s, mem) /\ At = pc
  BY <1>0, <1>1, WorkFacts, AtWork DEF SnapshotOK
<1>3. command = "settle" /\ mem.phase \in CleanupPhases
  BY <1>1, <1>2 DEF PhaseAt
<1>4. /\ Frame(Now, s, mem) /\ Now.disk = disk /\ Now.dirs = dirs
      /\ mem.phase \in UndonePhases => InStaging(Now, s, mem)
      /\ mem.phase = "committed-cleanup" => InCleanup(Now, s, mem)
  BY <1>2 DEF Progress, Now
<1> DEFINE healthy == mem.phase = "committed-cleanup" /\ mem.branch = "healthy"
<1>5. /\ DOMAIN D \in SUBSET Nat
      /\ \A n \in DOMAIN D :
                     \/ \E m \in Managed : D[n].path = Staged(mem, m) /\ D[n].content = Image(mem.id)
                     \/ healthy /\ \E p \in TakenOver(s) : /\ D[n].path = Kept(mem, p)
                                                           /\ D[n].content = s.disk[p]
  <2>1. DOMAIN D = 1..(ManagedFiles + IF healthy THEN Len(mem.previous) ELSE 0)
    BY <1>2, DoomedAre
  <2>2. \A n \in DOMAIN D :
                     \/ \E m \in Managed : D[n].path = Staged(mem, m) /\ D[n].content = Image(mem.id)
                     \/ healthy /\ \E p \in TakenOver(s) : /\ D[n].path = Kept(mem, p)
                                                           /\ D[n].content = s.disk[p]
    BY <1>2, DoomedAre
  <2>3. \A n \in DOMAIN D : n \in Nat
    BY <2>1
  <2> QED
    BY <2>2, <2>3
<1> HIDE DEF D
<1>6. CASE left = {}
  <2>1. pc' = "rmdir" /\ UNCHANGED <<command, then, mem, disk, dirs, refusal, begun, current>>
    BY <1>6 DEF CleanUp, Goto, directory, history, D
  <2>2. Now' = Now
    BY <2>1 DEF Now
  <2>3. \A n \in DOMAIN Doomed(mem) : Doomed(mem)[n].path \notin DOMAIN disk
    BY <1>6 DEF Present, D
  <2>4. Doomed(mem)' = Doomed(mem)
    BY <2>1
  <2>5. PhaseAt(s)'
    BY <1>3, <2>1, <2>3, <2>4 DEF PhaseAt
  <2> QED
    BY <1>0, <1>1, <1>2, <1>3, <2>1, <2>2, <2>5, Goes
<1>7. CASE left # {}
  <2>1. Min(left) \in DOMAIN D /\ file.path \in DOMAIN disk
    <3>1. left \in SUBSET Nat
      BY <1>5
    <3>2. Min(left) \in left
      <4> HIDE DEF left
      <4> QED
        BY <1>7, <3>1, LeastNumber
    <3> QED
      BY <3>2 DEF Present
  <2>2. \/ \E m \in Managed : file.path = Staged(mem, m) /\ file.content = Image(mem.id)
        \/ healthy /\ \E p \in TakenOver(s) : file.path = Kept(mem, p) /\ file.content = s.disk[p]
    BY <1>5, <2>1
  <2>3. disk[file.path] = file.content
    <3>1. CASE \E m \in Managed : file.path = Staged(mem, m) /\ file.content = Image(mem.id)
      BY <1>4, <2>1, <3>1 DEF Frame
    <3>2. CASE healthy /\ \E p \in TakenOver(s) : file.path = Kept(mem, p) /\ file.content = s.disk[p]
      BY <1>4, <2>1, <3>2 DEF InCleanup
    <3> QED
      BY <2>2, <3>1, <3>2
  <2>4. /\ disk' = [q \in DOMAIN disk \ {file.path} |-> disk[q]]
        /\ mem' = mem /\ pc' = "persist" /\ then' = "cleanup"
        /\ UNCHANGED <<command, dirs, refusal, begun, current>>
    BY <1>7, <2>3 DEF CleanUp, Unlink, Persist, history, D
  <2> DEFINE f == file.path
  <2>5. /\ f \in DOMAIN disk /\ f \notin DOMAIN s.disk
        /\ \A x : f # <<x>>
        /\ mem.phase \in UndonePhases => \A p \in TakenOver(s) : f # Kept(mem, p)
        /\ f \in Places(s, mem)
    <3>1. CASE \E m \in Managed : f = Staged(mem, m)
      BY <1>2, <2>1, <3>1, Distinct DEF Places
    <3>2. CASE healthy /\ \E p \in TakenOver(s) : f = Kept(mem, p)
      BY <1>2, <2>1, <3>2, Distinct DEF Places, UndonePhases
    <3> QED
      BY <2>2, <3>1, <3>2
  <2> HIDE DEF f
  <2>6. /\ disk' = [q \in DOMAIN disk \ {f} |-> disk[q]]
        /\ DOMAIN disk' = DOMAIN disk \ {f} /\ \A q \in DOMAIN disk' : disk'[q] = disk[q]
        /\ Now'.disk = disk' /\ Now'.dirs = dirs /\ Now'.count = Now.count /\ Now'.current = Now.current
    BY <2>4 DEF f, Now
  <2>7. healthy \/ mem.phase \in UndonePhases \/ \A p \in TakenOver(s) : f # Kept(mem, p)
    <3>1. CASE \E m \in Managed : f = Staged(mem, m)
      BY <1>2, <3>1, Distinct
    <3>2. CASE healthy
      BY <3>2
    <3> QED
      BY <2>2, <3>1, <3>2 DEF f
  <2> HIDE DEF left, file
  <2>8. Tree(Now')
    BY <1>2, <1>4, <2>6 DEF Tree
  <2>9. Frame(Now', s, mem)
    <3>1. IsFiniteSet(DOMAIN disk \ {f})
      BY <1>4, FS_Subset DEF Frame
    <3>2. \A p \in DOMAIN s.disk \ TakenOver(s) : p \in DOMAIN disk' /\ disk'[p] = s.disk[p]
      BY <1>4, <2>5, <2>6 DEF Frame
    <3> QED
      BY <1>4, <2>6, <3>1, <3>2 DEF Frame
  <2>10. Progress(Now', s, mem)
    <3>1. CASE mem.phase \in UndonePhases
      <4>1. InStaging(Now', s, mem)
        <5>1. \A p \in TakenOver(s) : p # f /\ Kept(mem, p) # f
          BY <2>5, <3>1 DEF TakenOver
        <5>2. \A n \in Managed : <<File(n)>> # f
          BY <2>5
        <5> QED
          BY <1>4, <2>6, <3>1, <5>1, <5>2 DEF InStaging, Home, Gone
      <4> QED
        BY <2>9, <3>1, <4>1 DEF Progress, UndonePhases
    <3>2. CASE mem.phase = "committed-cleanup"
      <4>1. InCleanup(Now', s, mem)
        <5>1. mem.branch = "healthy" \/ \A p \in TakenOver(s) : f # Kept(mem, p)
          BY <2>7, <3>2 DEF UndonePhases
        <5>2. \A n \in Managed : <<File(n)>> # f
          BY <2>5
        <5> QED
          BY <1>4, <2>6, <3>2, <5>1, <5>2 DEF InCleanup
      <4> QED
        BY <2>9, <3>2, <4>1 DEF Progress, UndonePhases
    <3> QED
      BY <1>3, <3>1, <3>2 DEF CleanupPhases
  <2>11. PhaseAt(s)'
    BY <1>3, <2>4 DEF PhaseAt, At, Writing
  <2>12. \A q \in {JournalPath, KeyPath, TemporaryPath} :
              /\ q \in DOMAIN disk' <=> q \in DOMAIN disk
              /\ q \in DOMAIN disk => disk'[q] = disk[q]
    <3>1. \A q \in {JournalPath, KeyPath, TemporaryPath} : q # f
      BY <1>2, <2>5, OwnFiles
    <3> QED
      BY <2>6, <3>1
  <2> QED
    BY <1>0, <1>1, <1>2, <1>3, <2>4, <2>8, <2>10, <2>11, <2>12, Goes
<1> QED
  BY <1>6, <1>7

\* Two sequences of one element.
LEMMA Pairs ==
    ASSUME NEW x, NEW y
    PROVE  <<x>> \o <<y>> = <<x, y>> /\ <<>> \o <<y>> = <<y>>
<1>1. PICK S : S = {x, y}
  OBVIOUS
<1>2. <<x>> \in Seq(S) /\ <<y>> \in Seq(S) /\ <<>> \in Seq(S) /\ <<x, y>> \in Seq(S)
  BY <1>1
<1>3. PICK d : d = <<x>> \o <<y>>
  OBVIOUS
<1>4. d \in Seq(S) /\ Len(d) = 2 /\ d[1] = x /\ d[2] = y
  <2>1. d \in Seq(S) /\ Len(d) = Len(<<x>>) + Len(<<y>>)
    BY <1>2, <1>3, Concatenation
  <2>2. \A n \in 1..Len(<<x>>) : d[n] = <<x>>[n]
    BY <1>2, <1>3, Concatenation
  <2>3. \A n \in 1..Len(<<y>>) : d[n + Len(<<x>>)] = <<y>>[n]
    BY <1>2, <1>3, Concatenation
  <2>4. Len(<<x>>) = 1 /\ Len(<<y>>) = 1 /\ <<x>>[1] = x /\ <<y>>[1] = y
    OBVIOUS
  <2>5. 1 \in 1..1 /\ 1 + 1 = 2
    OBVIOUS
  <2> QED
    BY <2>1, <2>2, <2>3, <2>4, <2>5
<1>5. d = <<x, y>>
  <2>1. Len(<<x, y>>) = 2 /\ <<x, y>>[1] = x /\ <<x, y>>[2] = y
    OBVIOUS
  <2>2. PICK e \in Seq(S) : e = <<x, y>>
    BY <1>2
  <2>3. Len(e) = Len(d) /\ \A n \in 1..Len(d) : e[n] = d[n]
    BY <1>4, <2>1, <2>2
  <2> QED
    BY <1>4, <2>2, <2>3
<1>6. <<>> \o <<y>> = <<y>>
  BY <1>2
<1> QED
  BY <1>3, <1>5, <1>6

\* What directories a cleanup removes, by their index: its own come first.
LEMMA DoomedDirectoriesAre ==
    ASSUME NEW s, NEW r, RecordOK(r, s)
    PROVE  LET undone == r.phase \in UndonePhases
               D == DoomedDirectories(r)
           IN  \E h \in Nat :
                  /\ DOMAIN D = 1..(h + Len(r.directories))
                  /\ \A n \in DOMAIN r.directories :
                        /\ n + h \in DOMAIN D
                        /\ D[n + h] = IF undone THEN Kept(r, r.directories[n]) ELSE r.directories[n]
                  /\ \A n \in DOMAIN D :
                        \/ n <= h /\ D[n] = <<StagingOf(r.id)>>
                        \/ n <= h /\ D[n] = <<PreviousOf(r.id)>> /\ (undone \/ r.branch = "healthy")
                        \/ n - h \in DOMAIN r.directories /\ (n - h) + h = n
                  /\ \E n \in DOMAIN D : D[n] = <<StagingOf(r.id)>>
                  /\ undone => \E n \in DOMAIN D : D[n] = <<PreviousOf(r.id)>>
<1> DEFINE undone == r.phase \in UndonePhases
           D == DoomedDirectories(r)
           A == IF undone \/ r.branch = "healthy" THEN <<<<PreviousOf(r.id)>>>> ELSE <<>>
           kept == [n \in DOMAIN r.directories |-> Kept(r, r.directories[n])]
           C == IF undone THEN kept ELSE r.directories
           own == IF undone \/ r.branch = "healthy" THEN <<<<PreviousOf(r.id)>>, <<StagingOf(r.id)>>>>
                  ELSE <<<<StagingOf(r.id)>>>>
           N == Len(r.directories)
           S == {own[n] : n \in DOMAIN own} \cup {C[n] : n \in DOMAIN r.directories}
<1>1. DOMAIN r.directories = 1..N /\ N \in Nat
      /\ r.directories = [n \in 1..N |-> r.directories[n]]
  BY DEF RecordOK, IsList
<1>2. D = own \o C
  <2>1. D = (A \o <<<<StagingOf(r.id)>>>>) \o C
    BY DEF DoomedDirectories
  <2>2. A \o <<<<StagingOf(r.id)>>>> = own
    <3>1. \A x, y : <<x>> \o <<y>> = <<x, y>> /\ <<>> \o <<y>> = <<y>>
      BY Pairs
    <3> QED
      BY <3>1, Zenon
  <2> HIDE DEF A, own
  <2> QED
    BY <2>1, <2>2
<1>3. /\ DOMAIN C = 1..N
      /\ \A n \in 1..N : C[n] = IF undone THEN Kept(r, r.directories[n]) ELSE r.directories[n]
      /\ C = [n \in 1..N |-> C[n]]
  BY <1>1
<1>4. /\ own \in Seq({own[n] : n \in DOMAIN own}) /\ Len(own) \in Nat
      /\ DOMAIN own = 1..Len(own)
      /\ \A n \in 1..Len(own) : \/ own[n] = <<StagingOf(r.id)>>
                                \/ own[n] = <<PreviousOf(r.id)>> /\ (undone \/ r.branch = "healthy")
      /\ \E n \in 1..Len(own) : own[n] = <<StagingOf(r.id)>>
      /\ undone => \E n \in 1..Len(own) : own[n] = <<PreviousOf(r.id)>>
  <2>1. CASE undone \/ r.branch = "healthy"
    <3>1. own = <<<<PreviousOf(r.id)>>, <<StagingOf(r.id)>>>>
      BY <2>1
    <3> HIDE DEF own
    <3>2. /\ own \in Seq({own[n] : n \in DOMAIN own}) /\ Len(own) = 2 /\ DOMAIN own = 1..2
          /\ own[1] = <<PreviousOf(r.id)>> /\ own[2] = <<StagingOf(r.id)>>
      BY <3>1
    <3> QED
      BY <2>1, <3>2
  <2>2. CASE ~(undone \/ r.branch = "healthy")
    <3>1. own = <<<<StagingOf(r.id)>>>>
      BY <2>2
    <3> HIDE DEF own
    <3>2. /\ own \in Seq({own[n] : n \in DOMAIN own}) /\ Len(own) = 1 /\ DOMAIN own = 1..1
          /\ own[1] = <<StagingOf(r.id)>>
      BY <3>1
    <3> QED
      BY <2>2, <3>2
  <2> QED
    BY <2>1, <2>2
<1> HIDE DEF D, own, C, N
<1>5. C \in Seq(S) /\ Len(C) = N
  <2>1. C \in [1..N -> S]
    BY <1>1, <1>3
  <2> HIDE DEF S
  <2> QED
    BY <1>1, <2>1
<1>6. own \in Seq(S)
  BY <1>4
<1> HIDE DEF S
<1> DEFINE h == Len(own)
<1>7. DOMAIN D = 1..(h + N)
  BY <1>2, <1>5, <1>6, Concatenation
<1>8. \A n \in 1..h : D[n] = own[n] /\ n \in DOMAIN D
  BY <1>2, <1>5, <1>6, Concatenation
<1>9. \A n \in 1..N : D[n + h] = C[n] /\ n + h \in DOMAIN D
  BY <1>2, <1>5, <1>6, Concatenation
<1>10. \A n \in DOMAIN D : n \in 1..h \/ (n - h \in 1..N /\ (n - h) + h = n)
  BY <1>2, <1>5, <1>6, Concatenation
<1>11. h \in Nat /\ \A n \in 1..h : n <= h
  BY <1>4
<1> HIDE DEF h
<1>12. \A n \in DOMAIN D :
                        \/ n <= h /\ D[n] = <<StagingOf(r.id)>>
                        \/ n <= h /\ D[n] = <<PreviousOf(r.id)>> /\ (undone \/ r.branch = "healthy")
                        \/ n - h \in DOMAIN r.directories /\ (n - h) + h = n
  BY <1>1, <1>4, <1>8, <1>10, <1>11 DEF h
<1>13. /\ \E n \in DOMAIN D : D[n] = <<StagingOf(r.id)>>
       /\ undone => \E n \in DOMAIN D : D[n] = <<PreviousOf(r.id)>>
  BY <1>4, <1>8 DEF h
<1>14. \A n \in DOMAIN r.directories :
                        /\ n + h \in DOMAIN D
                        /\ D[n + h] = IF undone THEN Kept(r, r.directories[n]) ELSE r.directories[n]
  BY <1>1, <1>3, <1>9
<1> QED
  BY <1>7, <1>11, <1>12, <1>13, <1>14 DEF D, N

\* Nothing is left of what a restore moved into its own directories once the
\* files of its cleanup are gone.
LEMMA OwnDirectoriesEmpty ==
    ASSUME NEW s, Typed(s), NEW r, RecordOK(r, s), Progress(Now, s, r), r.phase \in CleanupPhases,
           \A n \in DOMAIN Doomed(r) : Doomed(r)[n].path \notin DOMAIN disk,
           NEW q \in DOMAIN disk, Len(q) > 1
    PROVE  /\ q[1] # StagingOf(r.id)
           /\ r.phase \in UndonePhases \/ r.branch = "healthy" => q[1] # PreviousOf(r.id)
<1>1. /\ r.id = s.count + 1 /\ r.id \in Nat /\ r.id > s.count /\ r.phase \in Phases /\ Now.disk = disk
      /\ TakenOver(s) \subseteq DOMAIN s.disk
  BY DEF RecordOK, Typed, Now, TakenOver
<1>2. \A n \in Managed : Staged(r, n) \notin DOMAIN disk
  BY DoomedAre
<1>3. ASSUME r.phase \in UndonePhases \/ r.branch = "healthy", NEW p \in TakenOver(s)
      PROVE  Kept(r, p) \notin DOMAIN disk
  <2>1. CASE r.phase \in UndonePhases
    <3>1. InStaging(Now, s, r)
      BY <2>1 DEF Progress
    <3> QED
      BY <1>1, <3>1 DEF InStaging, Home, Gone
  <2>2. CASE r.phase = "committed-cleanup" /\ r.branch = "healthy"
    <3>1. \E n \in DOMAIN Doomed(r) : Doomed(r)[n].path = Kept(r, p)
      BY <2>2, DoomedAre
    <3> QED
      BY <3>1
  <2> QED
    BY <1>3, <2>1, <2>2 DEF CleanupPhases
<1>4. \/ q \in DOMAIN s.disk
      \/ \E p \in TakenOver(s) : q = Kept(r, p)
      \/ \E n \in Managed : q \in {<<File(n)>>, Staged(r, n)}
      \/ \E i \in r.id..Now.count : q \in {<<KeyOf(i)>>, <<TemporaryOf(i)>>}
      \/ q = <<JournalOf(r.id)>>
  BY <1>1, ProgressFiles
<1>5. CASE q \in DOMAIN s.disk
  BY <1>1, <1>5, NothingOfNext
<1>6. CASE \E p \in TakenOver(s) : q = Kept(r, p)
  <2>1. PICK p \in TakenOver(s) : q = Kept(r, p)
    BY <1>6
  <2>2. q[1] = PreviousOf(r.id)
    BY <1>1, <2>1, TypedPaths, KeptMeans
  <2>3. PreviousOf(r.id) # StagingOf(r.id)
    BY DEF PreviousOf, StagingOf
  <2> QED
    BY <1>3, <2>1, <2>2, <2>3
<1>7. \A x : Len(<<x>>) = 1 /\ ~(1 > 1)
  OBVIOUS
<1>8. \A x : q # <<x>>
  BY <1>7, Zenon
<1> QED
  BY <1>2, <1>4, <1>5, <1>6, <1>8

\* Removed from the last to the first, a directory is empty when its turn comes.
LEMMA RemoveDirectoryStep ==
    ASSUME NEW b, InvOf(b), RemoveDirectory
    PROVE  InvOf(b)'
<1>0. PICK s : s = b[mem.id]
  OBVIOUS
<1> DEFINE D == DoomedDirectories(mem)
           left == {n \in DOMAIN D : D[n] \in dirs}
           k == Max(left)
           last == D[k]
           undone == mem.phase \in UndonePhases
           N == Len(mem.directories)
<1>1. pc = "rmdir"
  BY DEF RemoveDirectory
<1>2. /\ RecordOK(mem, s) /\ Typed(s) /\ mem.id = s.count + 1 /\ Tree(Now) /\ mem.id \in Nat
      /\ JournaledOK(s) /\ PhaseAt(s) /\ Progress(Now, s, mem) /\ At = pc /\ Typed(Now)
  BY <1>0, <1>1, WorkFacts, AtWork DEF SnapshotOK
<1>3. /\ command = "settle" /\ mem.phase \in CleanupPhases
      /\ \A n \in DOMAIN Doomed(mem) : Doomed(mem)[n].path \notin DOMAIN disk
  BY <1>1, <1>2 DEF PhaseAt
<1>4. /\ Frame(Now, s, mem) /\ Now.disk = disk /\ Now.dirs = dirs
      /\ undone => InStaging(Now, s, mem)
      /\ mem.phase = "committed-cleanup" => InCleanup(Now, s, mem)
      /\ undone \/ mem.phase = "committed-cleanup"
  BY <1>2, <1>3 DEF Progress, Now, CleanupPhases
<1>5. PICK h \in Nat :
         /\ DOMAIN D = 1..(h + N)
         /\ \A n \in DOMAIN mem.directories :
               /\ n + h \in DOMAIN D
               /\ D[n + h] = IF undone THEN Kept(mem, mem.directories[n]) ELSE mem.directories[n]
         /\ \A n \in DOMAIN D :
               \/ n <= h /\ D[n] = <<StagingOf(mem.id)>>
               \/ n <= h /\ D[n] = <<PreviousOf(mem.id)>> /\ (undone \/ mem.branch = "healthy")
               \/ n - h \in DOMAIN mem.directories /\ (n - h) + h = n
  BY <1>2, DoomedDirectoriesAre
<1>6. /\ DOMAIN mem.directories = 1..N /\ N \in Nat
      /\ \A n \in DOMAIN mem.directories : mem.directories[n] \in TakenDirectories(s)
      /\ \A d \in TakenDirectories(s) : \E n \in DOMAIN mem.directories : mem.directories[n] = d
      /\ \A m, n \in DOMAIN mem.directories :
            IsStrictPrefix(mem.directories[m], mem.directories[n]) => m < n
      /\ mem.branch = "healthy" => JournalsOf(s) = {}
      /\ \A n \in DOMAIN mem.directories : n \in Nat /\ n >= 1
  BY <1>2 DEF RecordOK
<1> HIDE DEF D, N
<1>7. CASE left = {}
  <2>1. pc' = "unlinkJournal" /\ UNCHANGED <<command, then, mem, disk, dirs, refusal, begun, current>>
    BY <1>7 DEF RemoveDirectory, Goto, history, D
  <2>2. Now' = Now
    BY <2>1 DEF Now
  <2>3. \A n \in DOMAIN DoomedDirectories(mem) : DoomedDirectories(mem)[n] \notin dirs
    BY <1>7 DEF D
  <2>4. Doomed(mem)' = Doomed(mem) /\ DoomedDirectories(mem)' = DoomedDirectories(mem)
    BY <2>1
  <2>5. PhaseAt(s)'
    BY <1>3, <2>1, <2>3, <2>4 DEF PhaseAt
  <2> QED
    BY <1>0, <1>1, <1>2, <1>3, <2>1, <2>2, <2>5, Goes
<1>8. CASE left # {}
  <2>1. /\ k \in DOMAIN D /\ last \in dirs
        /\ \A n \in DOMAIN D : D[n] \in dirs => n <= k
    <3>1. left \in SUBSET (1..(h + N)) /\ h + N \in Nat
      BY <1>5, <1>6
    <3>2. k \in left /\ \A n \in left : n <= k
      <4> HIDE DEF left
      <4> QED
        BY <1>8, <3>1, GreatestNumber
    <3> QED
      BY <3>2
  <2> HIDE DEF left, k
  <2>2. \A q \in DOMAIN disk \cup dirs : q \in Seq(Names) /\ q # <<>> /\ Len(q) \in Nat \ {0}
    BY <1>2, <1>4, TypedPaths
  <2>3. last \in Seq(Names) /\ Len(last) \in Nat \ {0}
    BY <2>1, <2>2
  <2> HIDE DEF last
  <2>4. ASSUME NEW q \in DOMAIN disk \cup dirs, IsStrictPrefix(last, q)
        PROVE  q[1] = last[1] /\ Len(q) > 1 /\ \A x : q # <<x>>
    <3>1. Len(last) < Len(q) /\ \A m \in 1..Len(last) : last[m] = q[m]
      BY <2>2, <2>3, <2>4, PrefixMeans
    <3>2. Len(q) > 1 /\ q[1] = last[1]
      BY <2>2, <2>3, <3>1
    <3>3. \A x : Len(<<x>>) = 1 /\ ~(1 > 1)
      OBVIOUS
    <3>4. \A x : q # <<x>>
      BY <3>2, <3>3, Zenon
    <3> QED
      BY <3>2, <3>4
  <2>5. ASSUME NEW q \in dirs, IsStrictPrefix(last, q)
        PROVE  \/ q \in s.dirs
               \/ \E n \in DOMAIN mem.directories : q = Kept(mem, mem.directories[n])
    BY <1>4, <2>4, <2>5 DEF Frame, Wanted
  <2>6. \A d \in TakenDirectories(s) : d \in Seq(Names) /\ d # <<>> /\ Kept(mem, d)[1] = PreviousOf(mem.id)
    BY <1>2, TypedPaths, KeptMeans DEF TakenDirectories
  <2>7. StagingOf(mem.id) # PreviousOf(mem.id) /\ mem.id > s.count
    BY <1>2 DEF StagingOf, PreviousOf, Typed
  <2>8. ASSUME last = <<StagingOf(mem.id)>>
        PROVE  Holds(last) = {}
    <3>1. last[1] = StagingOf(mem.id)
      BY <2>8
    <3>2. ASSUME NEW q \in DOMAIN disk, IsStrictPrefix(last, q) PROVE FALSE
      BY <1>2, <1>3, <2>4, <3>1, <3>2, OwnDirectoriesEmpty
    <3>3. ASSUME NEW q \in dirs, IsStrictPrefix(last, q) PROVE FALSE
      <4>1. CASE q \in s.dirs
        BY <1>2, <2>4, <2>7, <3>1, <3>3, <4>1, NothingOfNext
      <4>2. CASE \E n \in DOMAIN mem.directories : q = Kept(mem, mem.directories[n])
        BY <1>6, <2>4, <2>6, <2>7, <3>1, <3>3, <4>2
      <4> QED
        BY <2>5, <3>3, <4>1, <4>2
    <3> QED
      BY <3>2, <3>3 DEF Holds
  <2>9. ASSUME last = <<PreviousOf(mem.id)>> /\ k <= h /\ (undone \/ mem.branch = "healthy")
        PROVE  Holds(last) = {}
    <3>1. last[1] = PreviousOf(mem.id)
      BY <2>9
    <3>2. ASSUME NEW q \in DOMAIN disk, IsStrictPrefix(last, q) PROVE FALSE
      BY <1>2, <1>3, <2>4, <2>9, <3>1, <3>2, OwnDirectoriesEmpty
    <3>3. ASSUME NEW q \in dirs, IsStrictPrefix(last, q) PROVE FALSE
      <4>1. CASE q \in s.dirs
        BY <1>2, <2>4, <2>7, <3>1, <3>3, <4>1, NothingOfNext
      <4>2. CASE \E n \in DOMAIN mem.directories : q = Kept(mem, mem.directories[n])
        <5>1. PICK n \in DOMAIN mem.directories : q = Kept(mem, mem.directories[n])
          BY <4>2
        <5>2. JournalsOf(s) # {}
          BY <1>6 DEF TakenDirectories, InPending
        <5>3. undone
          BY <1>6, <2>9, <5>2
        <5>4. n + h \in DOMAIN D /\ D[n + h] = q
          BY <1>5, <5>1, <5>3
        <5>5. n + h <= k
          BY <2>1, <3>3, <5>4
        <5>6. k \in Nat
          BY <1>5, <1>6, <2>1
        <5> QED
          BY <1>6, <2>9, <5>5, <5>6
      <4> QED
        BY <2>5, <3>3, <4>1, <4>2
    <3> QED
      BY <3>2, <3>3 DEF Holds
  <2>10. ASSUME k - h \in DOMAIN mem.directories /\ (k - h) + h = k
        PROVE  Holds(last) = {}
    <3>1. PICK m \in DOMAIN mem.directories : m = k - h
      BY <2>10
    <3>2. last = IF undone THEN Kept(mem, mem.directories[m]) ELSE mem.directories[m]
      BY <1>5, <2>10, <3>1 DEF last
    <3>3. mem.directories[m] \in TakenDirectories(s)
      BY <1>6
    <3>4. ASSUME NEW n \in DOMAIN mem.directories, m < n, D[n + h] \in dirs PROVE FALSE
      <4>1. n + h <= k /\ m + h = k
        BY <1>5, <2>1, <2>10, <3>1, <3>4
      <4> QED
        BY <1>6, <3>4, <4>1
    <3>5. CASE undone
      <4>1. last = Kept(mem, mem.directories[m]) /\ last[1] = PreviousOf(mem.id)
        BY <2>6, <3>2, <3>3, <3>5
      <4>2. ASSUME NEW q \in DOMAIN disk, IsStrictPrefix(last, q) PROVE FALSE
        BY <1>2, <1>3, <2>4, <3>5, <4>1, <4>2, OwnDirectoriesEmpty
      <4>3. ASSUME NEW q \in dirs, IsStrictPrefix(last, q) PROVE FALSE
        <5>1. CASE q \in s.dirs
          BY <1>2, <2>4, <2>7, <4>1, <4>3, <5>1, NothingOfNext
        <5>2. CASE \E n \in DOMAIN mem.directories : q = Kept(mem, mem.directories[n])
          <6>1. PICK n \in DOMAIN mem.directories : q = Kept(mem, mem.directories[n])
            BY <5>2
          <6>2. mem.directories[n] \in TakenDirectories(s)
            BY <1>6
          <6>3. IsStrictPrefix(mem.directories[m], mem.directories[n])
            BY <1>2, <2>6, <3>3, <4>1, <4>3, <6>1, <6>2, KeptPrefix
          <6>4. m < n /\ D[n + h] = q
            BY <1>5, <1>6, <3>5, <6>1, <6>3
          <6> QED
            BY <3>4, <4>3, <6>4
        <5> QED
          BY <2>5, <4>3, <5>1, <5>2
      <4> QED
        BY <4>2, <4>3 DEF Holds
    <3>6. CASE ~undone
      <4>1. last = mem.directories[m] /\ mem.phase = "committed-cleanup" /\ InCleanup(Now, s, mem)
        BY <1>4, <3>2, <3>6
      <4>2. PICK i \in JournalsOf(s) : last[1] \in {StagingOf(i), PreviousOf(i)}
        BY <3>3, <4>1 DEF TakenDirectories, InPending
      <4>3. i \in Nat /\ i <= s.count /\ s.count \in Nat
        BY <1>2 DEF JournalsOf, Typed
      <4>4. last[1] \notin {StagingOf(mem.id), PreviousOf(mem.id)}
        <5>1. i # mem.id
          BY <1>2, <4>3
        <5> QED
          BY <4>2, <5>1 DEF StagingOf, PreviousOf
      <4>5. ASSUME NEW q \in DOMAIN disk, IsStrictPrefix(last, q) PROVE FALSE
        <5>1. q[1] = last[1] /\ \A x : q # <<x>>
          BY <2>4, <4>5
        <5>2. CASE q \in DOMAIN s.disk
          <6>1. q \in TakenOver(s)
            BY <4>2, <5>1, <5>2 DEF TakenOver, InPending
          <6> QED
            BY <1>4, <4>1, <5>1, <6>1 DEF InCleanup
        <5>3. CASE \E p \in TakenOver(s) : q = Kept(mem, p)
          <6>1. \A p \in TakenOver(s) : Kept(mem, p)[1] = PreviousOf(mem.id)
            BY <1>2, TypedPaths, KeptMeans DEF TakenOver
          <6> QED
            BY <4>4, <5>1, <5>3, <6>1
        <5>4. CASE \E n \in Managed : q = Staged(mem, n)
          <6>1. \A n \in Managed : Staged(mem, n)[1] = StagingOf(mem.id)
            BY <1>2, SizeAssumption, StagedMeans DEF Managed
          <6> QED
            BY <4>4, <5>1, <5>4, <6>1
        <5> QED
          BY <1>4, <5>1, <5>2, <5>3, <5>4 DEF Frame
      <4>6. ASSUME NEW q \in dirs, IsStrictPrefix(last, q) PROVE FALSE
        <5>1. q[1] = last[1]
          BY <2>4, <4>6
        <5>2. CASE q \in s.dirs
          <6>1. q \in TakenDirectories(s)
            BY <4>2, <5>1, <5>2 DEF TakenDirectories, InPending
          <6>2. PICK n \in DOMAIN mem.directories : mem.directories[n] = q
            BY <1>6, <6>1
          <6>3. m < n /\ D[n + h] = q
            BY <1>5, <1>6, <3>6, <4>1, <4>6, <6>2
          <6> QED
            BY <3>4, <4>6, <6>3
        <5>3. CASE \E n \in DOMAIN mem.directories : q = Kept(mem, mem.directories[n])
          BY <1>6, <2>6, <4>4, <5>1, <5>3
        <5> QED
          BY <2>5, <4>6, <5>2, <5>3
      <4> QED
        BY <4>5, <4>6 DEF Holds
    <3> QED
      BY <3>5, <3>6
  <2>11. Holds(last) = {}
    <3>1. \/ k <= h /\ D[k] = <<StagingOf(mem.id)>>
          \/ k <= h /\ D[k] = <<PreviousOf(mem.id)>> /\ (undone \/ mem.branch = "healthy")
          \/ k - h \in DOMAIN mem.directories /\ (k - h) + h = k
      BY <1>5, <2>1
    <3> QED
      BY <2>8, <2>9, <2>10, <3>1 DEF last
  <2>12. dirs' = dirs \ {last} /\ UNCHANGED <<disk, command, pc, then, mem, refusal, begun, current>>
    BY <1>8, <2>11 DEF RemoveDirectory, process, history, left, last, k, D
  <2>13. /\ Now'.disk = disk /\ Now'.dirs = dirs \ {last} /\ Now'.count = Now.count
         /\ Now'.current = Now.current
    BY <2>12 DEF Now
  <2>14. last \in s.dirs => mem.phase = "committed-cleanup" /\ last \in TakenDirectories(s)
    <3>1. CASE k <= h /\ last \in {<<StagingOf(mem.id)>>, <<PreviousOf(mem.id)>>}
      BY <1>2, <3>1, NewPaths
    <3>2. CASE k - h \in DOMAIN mem.directories /\ (k - h) + h = k
      <4>1. PICK m \in DOMAIN mem.directories : m = k - h
        BY <3>2
      <4>2. last = IF undone THEN Kept(mem, mem.directories[m]) ELSE mem.directories[m]
        BY <1>5, <3>2, <4>1 DEF last
      <4>3. mem.directories[m] \in TakenDirectories(s)
        BY <1>6
      <4> QED
        BY <1>2, <1>4, <2>6, <4>2, <4>3, NewPaths
    <3> QED
      BY <1>5, <2>1, <3>1, <3>2 DEF last
  <2>15. Frame(Now', s, mem)
    <3>1. IsFiniteSet(dirs \ {last})
      BY <1>4, FS_Subset DEF Frame
    <3>2. \A d \in s.dirs : d \in dirs \ {last}
                            \/ (mem.phase = "committed-cleanup" /\ d \in TakenDirectories(s))
      BY <1>4, <2>14 DEF Frame
    <3> QED
      BY <1>4, <2>13, <3>1, <3>2 DEF Frame
  <2>16. Progress(Now', s, mem)
    <3>1. undone => InStaging(Now', s, mem)
      BY <1>4, <2>13 DEF InStaging, Home, Gone
    <3>2. mem.phase = "committed-cleanup" => InCleanup(Now', s, mem)
      BY <1>4, <2>13 DEF InCleanup
    <3> QED
      BY <1>4, <2>15, <3>1, <3>2 DEF Progress, UndonePhases
  <2>17. Tree(Now')
    <3> SUFFICES ASSUME NEW q \in DOMAIN disk \cup dirs, Len(q) > 1, Front(q) = last PROVE FALSE
      BY <1>2, <1>4, <2>13 DEF Tree
    <3>1. IsStrictPrefix(last, q)
      BY <2>2, FrontMeans
    <3> QED
      BY <2>11, <3>1 DEF Holds
  <2>18. PhaseAt(s)'
    <3>1. Doomed(mem)' = Doomed(mem)
      BY <2>12
    <3> QED
      BY <1>1, <1>3, <2>12, <3>1 DEF PhaseAt
  <2> QED
    BY <1>0, <1>1, <1>2, <1>3, <2>12, <2>16, <2>17, <2>18, Goes
<1> QED
  BY <1>7, <1>8

----------------------------------------------------------------------------
(* The end of a restore                                                    *)

\* A path that ends in a temporary journal of the vault directory itself.
LEMMA TemporaryMeans ==
    ASSUME NEW t, Typed(t), NEW p \in DOMAIN t.disk, OfTemporary(p)
    PROVE  \E i \in Nat : p = <<TemporaryOf(i)>>
<1>1. Path(p, t.count) /\ p[Len(p)] \in FileNames(t.count) /\ t.count \in Nat
  BY DEF Typed
<1>2. Len(p) = 1
  <2>1. p[1][1] = "temporary"
    BY DEF OfTemporary
  <2>2. p[1] \notin DirectoryNames(t.count)
    BY <2>1 DEF DirectoryNames
  <2> QED
    BY <1>1, <2>2, PathMeans
<1>3. \/ \E n \in Managed : p = <<File(n)>>
      \/ \E i \in 1..t.count : p \in {<<JournalOf(i)>>, <<TemporaryOf(i)>>, <<KeyOf(i)>>}
  BY <1>1, <1>2, TopFile
<1>4. \A i : /\ <<File(i)>>[1][1] # "temporary" /\ <<JournalOf(i)>>[1][1] # "temporary"
             /\ <<KeyOf(i)>>[1][1] # "temporary"
  BY DEF File, JournalOf, KeyOf
<1> QED
  BY <1>1, <1>3, <1>4 DEF OfTemporary

\* Undone, a restore leaves what it found.
LEMMA Undone ==
    ASSUME NEW s, Typed(s), NEW r, RecordOK(r, s), NEW t, Progress(t, s, r), t.count \in Nat,
           r.phase \in UndonePhases,
           Wanted(r) \cap t.dirs = {}, \A n \in Managed : Staged(r, n) \notin DOMAIN t.disk,
           NEW u, u = [t EXCEPT !.disk = [q \in DOMAIN t.disk \ {<<JournalOf(r.id)>>} |-> t.disk[q]]],
           t = [disk |-> t.disk, dirs |-> t.dirs, current |-> t.current, count |-> t.count]
    PROVE  Alike(s, u)
<1>1. /\ r.id = s.count + 1 /\ r.id \in Nat /\ s.count \in Nat /\ r.id > s.count
      /\ TakenOver(s) \subseteq DOMAIN s.disk
  BY DEF RecordOK, Typed, TakenOver
<1>2. InStaging(t, s, r) /\ Frame(t, s, r) /\ r.phase # "committed-cleanup"
  BY DEF Progress, UndonePhases
<1>3. /\ u.count = t.count /\ u.dirs = t.dirs /\ u.current = t.current
      /\ DOMAIN u.disk = DOMAIN t.disk \ {<<JournalOf(r.id)>>}
      /\ \A q \in DOMAIN u.disk : u.disk[q] = t.disk[q]
  <2>1. u = [disk |-> [q \in DOMAIN t.disk \ {<<JournalOf(r.id)>>} |-> t.disk[q]],
             dirs |-> t.dirs, current |-> t.current, count |-> t.count]
    OBVIOUS
  <2> QED
    BY <2>1
<1>4. IsFiniteSet(DOMAIN u.disk)
  BY <1>2, <1>3, FS_Subset DEF Frame
<1>5. u.dirs = s.dirs /\ u.current = s.current /\ u.count >= s.count /\ u.count \in Nat
  <2>1. t.dirs \subseteq s.dirs \cup Wanted(r) /\ \A d \in s.dirs : d \in t.dirs
    BY <1>2 DEF Frame
  <2>2. t.dirs = s.dirs
    BY <2>1
  <2>3. t.current = s.current /\ r.id <= t.count
    BY <1>2 DEF InStaging, Frame
  <2> QED
    BY <1>1, <1>3, <2>2, <2>3
<1>6. ASSUME NEW p \in DOMAIN s.disk
      PROVE  \/ p \in DOMAIN u.disk /\ u.disk[p] = s.disk[p]
             \/ p \notin DOMAIN u.disk /\ \E i \in Nat : p = <<TemporaryOf(i)>>
  <2>1. p # <<JournalOf(r.id)>>
    BY <1>1, Distinct
  <2>2. CASE p \notin TakenOver(s)
    BY <1>2, <1>3, <2>1, <2>2 DEF Frame
  <2>3. CASE p \in TakenOver(s) /\ Home(t, s, r, p)
    BY <1>3, <2>1, <2>3 DEF Home
  <2>4. CASE p \in TakenOver(s) /\ Gone(t, r, p)
    BY <1>3, <2>4, TemporaryMeans DEF Gone
  <2> QED
    BY <1>2, <2>2, <2>3, <2>4 DEF InStaging
<1>7. ASSUME NEW p \in DOMAIN u.disk
      PROVE  \/ p \in DOMAIN s.disk
             \/ \E i \in 1..u.count : /\ p \in {<<KeyOf(i)>>, <<TemporaryOf(i)>>}
                                      /\ \A k \in JournalsOf(s) : k <= i
  <2>1. p \in DOMAIN t.disk /\ p # <<JournalOf(r.id)>>
    BY <1>3
  <2>2. \A q \in TakenOver(s) : p # Kept(r, q)
    BY <1>2, <2>1 DEF InStaging, Home, Gone
  <2>3. \A n \in Managed : p = <<File(n)>> => p \in DOMAIN s.disk
    BY <1>2, <2>1 DEF InStaging
  <2>4. ASSUME NEW i \in r.id..t.count, p \in {<<KeyOf(i)>>, <<TemporaryOf(i)>>}
        PROVE  /\ i \in 1..u.count /\ \A k \in JournalsOf(s) : k <= i
    BY <1>1, <1>3 DEF JournalsOf
  <2> QED
    BY <1>2, <2>1, <2>2, <2>3, <2>4 DEF Frame
<1> QED
  BY <1>4, <1>5, <1>6, <1>7 DEF Alike

\* Committed, no journal is left: each was taken over, and either kept as
\* evidence or, over a healthy vault, not there.
LEMMA CommittedJournals ==
    ASSUME NEW s, Typed(s), NEW r, RecordOK(r, s), NEW t, Progress(t, s, r), t.count \in Nat,
           r.phase = "committed-cleanup"
    PROVE  \A i \in JournalsOf(t) : i = r.id
<1>1. /\ r.id = s.count + 1 /\ r.id \in Nat /\ s.count \in Nat
      /\ TakenOver(s) \subseteq DOMAIN s.disk
  BY DEF RecordOK, Typed, TakenOver
<1>2. InCleanup(t, s, r) /\ Frame(t, s, r)
  BY DEF Progress
<1> TAKE i \in JournalsOf(t)
<1>3. <<JournalOf(i)>> \in DOMAIN t.disk
  BY DEF JournalsOf
<1>4. <<JournalOf(i)>> \notin DOMAIN s.disk
  <2>1. <<JournalOf(i)>> \in DOMAIN s.disk => <<JournalOf(i)>> \in TakenOver(s)
    BY DEF TakenOver
  <2> QED
    BY <1>2, <1>3, <2>1, Singles DEF InCleanup
<1>5. /\ \A q \in TakenOver(s) : <<JournalOf(i)>> # Kept(r, q)
      /\ \A n \in Managed : <<JournalOf(i)>> \notin {<<File(n)>>, Staged(r, n)}
      /\ \A k : <<JournalOf(i)>> \notin {<<KeyOf(k)>>, <<TemporaryOf(k)>>}
  BY <1>1, Distinct, Singles
<1> QED
  BY <1>2, <1>3, <1>4, <1>5, Singles DEF Frame

\* Without its journal an undone restore leaves the directory it began over,
\* and a committed one nothing pending.
LEMMA UnlinkJournalStep ==
    ASSUME NEW b, InvOf(b), UnlinkJournal
    PROVE  InvOf(b)'
<1>0. PICK s : s = b[mem.id]
  OBVIOUS
<1>1. /\ pc = "unlinkJournal" /\ pc' = "unlinkKey"
      /\ disk' = [q \in DOMAIN disk \ {JournalPath} |-> disk[q]]
      /\ UNCHANGED <<dirs, command, then, mem, refusal, begun, current>>
  BY DEF UnlinkJournal, Unlink, Goto, history
<1>2. /\ RecordOK(mem, s) /\ Typed(s) /\ mem.id = s.count + 1 /\ Tree(Now) /\ mem.id \in 1..begun
      /\ JournaledOK(s) /\ PhaseAt(s) /\ Progress(Now, s, mem) /\ At = pc /\ Typed(Now)
      /\ SnapshotOK(s, b) /\ SnapshotOK(Now, b) /\ Recorded(b, begun) /\ Now.count = begun
      /\ begun \in Nat /\ IsLatest(Now, mem.id) /\ TemporaryPath \notin DOMAIN disk
  BY <1>0, <1>1, WorkFacts, AtWork DEF SnapshotOK
<1>3. /\ command = "settle" /\ mem.phase \in CleanupPhases
      /\ \A n \in DOMAIN Doomed(mem) : Doomed(mem)[n].path \notin DOMAIN disk
      /\ \A n \in DOMAIN DoomedDirectories(mem) : DoomedDirectories(mem)[n] \notin dirs
  BY <1>1, <1>2 DEF PhaseAt
<1>4. /\ Now.disk = disk /\ Now.dirs = dirs /\ Now'.disk = disk' /\ Now'.dirs = dirs
      /\ Now'.current = Now.current /\ Now'.count = begun
      /\ DOMAIN disk' = DOMAIN disk \ {JournalPath} /\ \A q \in DOMAIN disk' : disk'[q] = disk[q]
  BY <1>1 DEF Now
<1>5. \A n \in Managed : Staged(mem, n) \notin DOMAIN disk
  BY <1>2, <1>3, DoomedAre
<1>6. <<StagingOf(mem.id)>> \notin dirs
  BY <1>2, <1>3, DoomedDirectoriesAre
<1>7. JournalsOf(Now') = JournalsOf(Now) \ {mem.id}
  BY <1>2, <1>4, Singles DEF JournalsOf, JournalPath
<1>8. ASSUME mem.phase \in UndonePhases PROVE SnapshotOK(Now', b)
  <2>1. Wanted(mem) \cap dirs = {}
    <3>1. PICK h \in Nat : \A n \in DOMAIN mem.directories :
                    /\ n + h \in DOMAIN DoomedDirectories(mem)
                    /\ DoomedDirectories(mem)[n + h] = Kept(mem, mem.directories[n])
      <4>1. \E h \in Nat : \A n \in DOMAIN mem.directories :
                    /\ n + h \in DOMAIN DoomedDirectories(mem)
                    /\ DoomedDirectories(mem)[n + h] =
                          IF mem.phase \in UndonePhases THEN Kept(mem, mem.directories[n])
                          ELSE mem.directories[n]
        BY <1>2, DoomedDirectoriesAre
      <4> QED
        BY <1>8, <4>1
    <3>2. \E n \in DOMAIN DoomedDirectories(mem) : DoomedDirectories(mem)[n] = <<PreviousOf(mem.id)>>
      BY <1>2, <1>8, DoomedDirectoriesAre
    <3> QED
      BY <1>3, <1>6, <3>1, <3>2 DEF Wanted
  <2>2. Alike(s, Now')
    <3>1. Now = [disk |-> Now.disk, dirs |-> Now.dirs, current |-> Now.current, count |-> Now.count]
      BY DEF Now
    <3>2. Now' = [Now EXCEPT !.disk = [q \in DOMAIN Now.disk \ {<<JournalOf(mem.id)>>} |-> Now.disk[q]]]
      BY <1>1 DEF Now, JournalPath
    <3>3. Wanted(mem) \cap Now.dirs = {} /\ \A n \in Managed : Staged(mem, n) \notin DOMAIN Now.disk
      BY <1>4, <1>5, <2>1
    <3>4. Now.count \in Nat
      BY <1>2
    <3> QED
      BY <1>2, <1>8, <3>1, <3>2, <3>3, <3>4, Undone
  <2>3. Recorded(b, s.count)
    <3>1. s.count <= begun /\ s.count \in Nat
      BY <1>2 DEF Typed
    <3> QED
      BY <1>2, <3>1 DEF Recorded
  <2> QED
    BY <1>2, <2>2, <2>3, AlikeSnapshot
<1>9. ASSUME mem.phase = "committed-cleanup" PROVE SnapshotOK(Now', b)
  <2>1. InCleanup(Now, s, mem) /\ Frame(Now, s, mem)
    BY <1>2, <1>9 DEF Progress
  <2>2. JournalsOf(Now') = {}
    BY <1>2, <1>7, <1>9, CommittedJournals
  <2>3. Typed(Now')
    <3>1. IsFiniteSet(DOMAIN disk')
      BY <1>2, <1>4, FS_Subset DEF Typed
    <3>2. /\ Now'.count = Now.count /\ Now'.current = Now.current /\ Now'.dirs = Now.dirs
      BY <1>2, <1>4
    <3> QED
      BY <1>2, <1>4, <3>1, <3>2 DEF Typed
  <2>4. Tree(Now')
    BY <1>2, <1>4 DEF Tree
  <2>5. RecordsOK(Now', b)
    BY <1>2, <1>4 DEF SnapshotOK, RecordsOK
  <2>6. WholeOK(Now')
    <3>1. \A n \in Managed : <<File(n)>> # JournalPath
      BY Singles DEF JournalPath
    <3> QED
      BY <1>4, <2>1, <3>1 DEF WholeOK, InCleanup
  <2>7. LeftoversOK(Now')
    <3> SUFFICES ASSUME NEW d \in dirs, d[1][1] = "staging"
                 PROVE  \E p \in DOMAIN disk' : p[Len(p)] = <<"journal", d[1][2]>>
      BY <1>4 DEF LeftoversOK
    <3>1. d \in s.dirs
      <4>1. d \in Wanted(mem) => d = <<StagingOf(mem.id)>>
        BY <1>2, WantedPaths
      <4> QED
        BY <1>4, <1>6, <2>1, <4>1 DEF Frame
    <3>2. PICK p \in DOMAIN s.disk : p[Len(p)] = <<"journal", d[1][2]>>
      BY <1>2, <3>1 DEF SnapshotOK, LeftoversOK
    <3>3. CASE p \notin TakenOver(s)
      <4>1. p \in DOMAIN disk /\ p # JournalPath
        BY <1>2, <1>4, <2>1, <3>3, Distinct DEF Frame, JournalPath
      <4> QED
        BY <1>4, <3>2, <4>1
    <3>4. CASE p \in TakenOver(s)
      <4>1. Kept(mem, p) \in DOMAIN disk \/ mem.branch = "healthy"
        BY <1>4, <2>1, <3>4 DEF InCleanup
      <4>2. mem.branch # "healthy"
        <5>1. SUFFICES ASSUME mem.branch = "healthy" PROVE FALSE
          OBVIOUS
        <5>2. JournalsOf(s) = {}
          BY <1>2, <5>1 DEF RecordOK
        <5>3. Len(p) = 1
          BY <3>4, <5>2 DEF TakenOver, InPending
        <5>4. /\ \/ \E n \in Managed : p = <<File(n)>>
                 \/ \E i \in 1..s.count : p \in {<<JournalOf(i)>>, <<TemporaryOf(i)>>, <<KeyOf(i)>>}
              /\ s.count \in Nat
          BY <1>2, <5>3, TopFile DEF Typed
        <5>5. p[1][1] = "journal"
          BY <3>2, <5>3
        <5>6. \A i : /\ <<File(i)>>[1][1] # "journal" /\ <<TemporaryOf(i)>>[1][1] # "journal"
                     /\ <<KeyOf(i)>>[1][1] # "journal"
          BY DEF File, TemporaryOf, KeyOf
        <5>7. \E i \in 1..s.count : p = <<JournalOf(i)>>
          BY <5>4, <5>5, <5>6
        <5> QED
          BY <5>2, <5>7 DEF JournalsOf
      <4>3. Kept(mem, p)[Len(Kept(mem, p))] = p[Len(p)] /\ Kept(mem, p) # JournalPath
        <5>1. p \in Seq(Names) /\ p # <<>> /\ mem.id \in Nat
          BY <1>2, TypedPaths
        <5> QED
          BY <5>1, KeptShape DEF JournalPath
      <4> QED
        BY <1>4, <3>2, <4>1, <4>2, <4>3
    <3> QED
      BY <3>3, <3>4
  <2>8. LatestOK(Now', b)
    BY <2>2 DEF LatestOK
  <2> QED
    BY <2>3, <2>4, <2>5, <2>6, <2>7, <2>8 DEF SnapshotOK
<1>10. SnapshotOK(Now', b)
  BY <1>3, <1>8, <1>9 DEF CleanupPhases
<1>11. UnlinkedOK'
  <2>1. \A i \in JournalsOf(Now') : i < mem.id
    <3>1. \A i \in JournalsOf(Now) : i \in Nat /\ i <= mem.id
      BY <1>2 DEF IsLatest, JournalsOf
    <3> QED
      BY <1>2, <1>7, <3>1
  <2> QED
    BY <1>1, <1>3, <2>1 DEF UnlinkedOK
<1>12. WorkingOK(s)'
  <2>1. TemporaryPath' \notin DOMAIN disk'
    BY <1>1, <1>2, <1>4 DEF TemporaryPath
  <2> QED
    BY <1>1, <1>2, <1>11, <2>1 DEF WorkingOK
<1>13. ProcessOK(b)'
  BY <1>0, <1>1, <1>3, <1>12 DEF ProcessOK
<1>14. HistoryOK(b)' /\ RefusalOK'
  BY <1>1 DEF InvOf, HistoryOK, RefusalOK
<1> QED
  BY <1>10, <1>13, <1>14 DEF InvOf

\* The key is newer than what is pending, so nothing depends on it.
LEMMA UnlinkKeyStep ==
    ASSUME NEW b, InvOf(b), UnlinkKey
    PROVE  InvOf(b)'
<1>1. /\ pc = "unlinkKey" /\ disk' = [q \in DOMAIN disk \ {KeyPath} |-> disk[q]] /\ Idle
      /\ UNCHANGED <<dirs, refusal, begun, current>>
  BY DEF UnlinkKey, Unlink, history
<1>2. /\ WorkingOK(b[mem.id]) /\ SnapshotOK(Now, b) /\ Recorded(b, begun) /\ Now.count = begun
      /\ begun \in Nat /\ mem.id \in 1..begun /\ Typed(Now) /\ refusal = "none"
  BY <1>1, WorkFacts
<1>3. \A i \in JournalsOf(Now) : i < mem.id
  BY <1>1, <1>2 DEF WorkingOK, NewOK, JournaledOK, UnlinkedOK, PhaseAt, At, Writing
<1>4. /\ Now.disk = disk /\ Now'.disk = disk' /\ Now'.dirs = Now.dirs /\ Now'.current = Now.current
      /\ Now'.count = Now.count
      /\ DOMAIN disk' = DOMAIN disk \ {KeyPath} /\ \A q \in DOMAIN disk' : disk'[q] = disk[q]
  BY <1>1 DEF Now
<1>5. Alike(Now, Now')
  <2>1. IsFiniteSet(DOMAIN disk')
    BY <1>2, <1>4, FS_Subset DEF Typed
  <2> QED
    BY <1>2, <1>3, <1>4, <2>1 DEF Alike, KeyPath
<1>6. SnapshotOK(Now', b)
  BY <1>2, <1>5, AlikeSnapshot
<1>7. ProcessOK(b)' /\ HistoryOK(b)' /\ RefusalOK'
  BY <1>1, <1>2 DEF InvOf, HistoryOK, ProcessOK, RefusalOK, Idle
<1> QED
  BY <1>6, <1>7 DEF InvOf

----------------------------------------------------------------------------
(* Writing the journal                                                     *)

\* What holds of the restore at its next step holds while it writes: only its
\* own three files change.
LEMMA WritingGoesOn ==
    ASSUME NEW s, Typed(s), mem.id = s.count + 1, Writing, JournalPath # KeyPath,
           UNCHANGED <<dirs, command, then, mem, begun, current>>,
           pc' \in {"persist", "publishJournal", then},
           \A p : \/ p \in {JournalPath, KeyPath, TemporaryPath}
                  \/ /\ p \in DOMAIN disk' <=> p \in DOMAIN disk
                     /\ p \in DOMAIN disk => disk'[p] = disk[p]
    PROVE  /\ PhaseAt(s) => PhaseAt(s)'
           /\ NoneGone(s) => NoneGone(s)'
<1>1. \A p \in Places(s, mem) : /\ p \in DOMAIN disk' <=> p \in DOMAIN disk
                                /\ p \in DOMAIN disk => disk'[p] = disk[p]
  BY OwnFiles
<1>2. Now.disk = disk /\ Now'.disk = disk'
  BY DEF Now
<1>3. \A p \in TakenOver(s) : p \in Places(s, mem) /\ Kept(mem, p) \in Places(s, mem)
  BY DEF Places
<1>4. \A n \in Managed : <<File(n)>> \in Places(s, mem) /\ Staged(mem, n) \in Places(s, mem)
  BY DEF Places
<1>5. NoneGone(s) => NoneGone(s)'
  BY <1>1, <1>2, <1>3 DEF NoneGone, Gone
<1>6. \A n \in Managed : Ready(Now, s, mem, n) => Ready(Now', s, mem, n)
  BY <1>1, <1>2, <1>4 DEF Ready
<1>7. \A p \in TakenOver(s) : Away(Now, s, mem, p) => Away(Now', s, mem, p)
  BY <1>1, <1>2, <1>3 DEF Away
<1>8. ASSUME PhaseAt(s) PROVE PhaseAt(s)'
  <2>1. /\ At = then /\ pc \in {"persist", "publishJournal"}
        /\ then \in {"mkdir", "stage", "preserve", "publish", "finish", "reverse", "cleanup"}
    BY <1>8 DEF PhaseAt, At, Writing
  <2>2. At' = then
    BY <2>1 DEF At, Writing
  <2>3. Wanted(mem)' = Wanted(mem)
    BY DEF Wanted, Kept
  <2>4. CASE At \in {"mkdir", "stage"}
    BY <1>8, <2>1, <2>2, <2>3, <2>4 DEF PhaseAt
  <2>5. CASE At \in {"preserve", "publish"}
    <3>1. /\ command = "restore" /\ mem.phase = "publishing"
          /\ At = "preserve" => \A n \in Managed : Ready(Now, s, mem, n)
          /\ At = "publish" => \A p \in TakenOver(s) : Away(Now, s, mem, p)
      BY <1>8, <2>1, <2>5 DEF PhaseAt
    <3> QED
      BY <1>6, <1>7, <2>1, <2>2, <2>5, <3>1 DEF PhaseAt
  <2>6. CASE At = "finish"
    BY <1>8, <2>1, <2>2, <2>6 DEF PhaseAt
  <2>7. CASE At = "reverse"
    BY <1>5, <1>8, <2>1, <2>2, <2>7 DEF PhaseAt
  <2>8. CASE At = "cleanup"
    BY <1>8, <2>1, <2>2, <2>8 DEF PhaseAt
  <2> QED
    BY <2>1, <2>4, <2>5, <2>6, <2>7, <2>8
<1> QED
  BY <1>5, <1>8

\* The three files of a restore have different names.
LEMMA OwnFilesApart ==
    /\ JournalPath # KeyPath /\ JournalPath # TemporaryPath /\ KeyPath # TemporaryPath
    /\ JournalPath' # KeyPath' /\ JournalPath' # TemporaryPath' /\ KeyPath' # TemporaryPath'
BY Singles DEF JournalPath, KeyPath, TemporaryPath

\* While it writes, the restore has no journal yet or the last one.
LEMMA WritingFacts ==
    ASSUME NEW b, NEW s, s = b[mem.id], InvOf(b), Writing
    PROVE  /\ RecordOK(mem, s) /\ Typed(s) /\ mem.id = s.count + 1 /\ mem.id \in 1..begun
           /\ begun \in Nat /\ Typed(Now) /\ Tree(Now) /\ Now.count = begun
           /\ SnapshotOK(s, b) /\ SnapshotOK(Now, b) /\ Recorded(b, begun) /\ WorkingOK(s)
           /\ command \in {"restore", "settle"} /\ refusal = "none"
           /\ (mem.id \notin JournalsOf(Now) /\ NewOK(s)) \/ JournaledOK(s)
           /\ \A k \in JournalsOf(Now) : k <= mem.id
           /\ mem.phase \in Phases
<1>1. pc \notin {"idle", "sweep", "unlinkKey"}
  BY DEF Writing
<1>2. /\ RecordOK(mem, s) /\ Typed(s) /\ mem.id = s.count + 1 /\ mem.id \in 1..begun
      /\ begun \in Nat /\ Typed(Now) /\ Now.count = begun
      /\ SnapshotOK(s, b) /\ SnapshotOK(Now, b) /\ Recorded(b, begun) /\ WorkingOK(s)
      /\ command \in {"restore", "settle"} /\ refusal = "none" /\ mem.phase \in Phases
  BY <1>1, WorkFacts
<1>3. (mem.id \notin JournalsOf(Now) /\ NewOK(s)) \/ JournaledOK(s)
  BY <1>1, <1>2 DEF WorkingOK, UnlinkedOK
<1>4. \A k \in JournalsOf(Now) : k <= mem.id
  <2>1. CASE JournaledOK(s)
    BY <2>1 DEF JournaledOK, IsLatest
  <2>2. CASE NewOK(s)
    <3>1. mem.id = begun
      BY <2>2 DEF NewOK
    <3>2. \A k \in JournalsOf(Now) : k \in 1..begun
      BY <1>2 DEF JournalsOf
    <3>3. begun \in Nat
      BY <1>2
    <3>4. \A k \in 1..begun : k <= begun
      BY <3>3
    <3> QED
      BY <3>1, <3>2, <3>4
  <2> QED
    BY <1>3, <2>1, <2>2
<1> QED
  BY <1>2, <1>3, <1>4 DEF SnapshotOK

\* A key is made only before the first write of the journal.
LEMMA CreateKeyStep ==
    ASSUME NEW b, InvOf(b), CreateKey
    PROVE  InvOf(b)'
<1>0. PICK s : s = b[mem.id]
  OBVIOUS
<1>1. /\ pc = "persist" /\ Observed(KeyPath, Whole) # "expected" /\ Writing /\ Writing'
      /\ disk' = Put(KeyPath, IF Present(KeyPath) THEN Whole ELSE Torn)
      /\ UNCHANGED <<dirs, command, pc, then, mem, refusal, begun, current>>
  BY DEF CreateKey, process, history, Writing
<1>2. /\ RecordOK(mem, s) /\ Typed(s) /\ mem.id = s.count + 1 /\ mem.id \in 1..begun
      /\ begun \in Nat /\ Typed(Now) /\ Now.count = begun
      /\ SnapshotOK(Now, b) /\ Recorded(b, begun) /\ WorkingOK(s) /\ refusal = "none"
      /\ (mem.id \notin JournalsOf(Now) /\ NewOK(s)) \/ JournaledOK(s)
      /\ command \in {"restore", "settle"}
  BY <1>0, <1>1, WritingFacts
<1>3. Now.disk = disk /\ Now'.disk = disk' /\ Now'.dirs = Now.dirs /\ Now'.current = Now.current
      /\ Now'.count = Now.count
      /\ DOMAIN disk' = DOMAIN disk \cup {KeyPath}
      /\ \A q \in DOMAIN disk : q # KeyPath => disk'[q] = disk[q]
  BY <1>1 DEF Now, Put
<1>4. mem.id \notin JournalsOf(Now) /\ NewOK(s)
  <2>1. SUFFICES ASSUME JournaledOK(s) PROVE FALSE
    BY <1>2
  <2>2. KeyPath \in DOMAIN disk /\ disk[KeyPath] = Whole
    BY <1>2, <1>3, <2>1 DEF JournaledOK, SnapshotOK, LatestOK, IsLatest, KeyPath
  <2> QED
    BY <1>1, <2>2, ObservedMeans
<1>5. mem.id = begun /\ \A k \in JournalsOf(Now) : k < begun /\ k <= begun
  BY <1>2, <1>4 DEF NewOK, JournalsOf
<1>6. Alike(Now, Now')
  <2>0. IsFiniteSet(DOMAIN disk)
    BY <1>2, <1>3 DEF Typed
  <2>1. IsFiniteSet(DOMAIN disk')
    BY <1>3, <2>0, FS_AddElement
  <2>2. begun \in 1..begun
    BY <1>2, <1>5
  <2> QED
    BY <1>2, <1>3, <1>5, <2>1, <2>2 DEF Alike, KeyPath
<1>7. SnapshotOK(Now', b) /\ JournalsOf(Now') = JournalsOf(Now)
  BY <1>2, <1>6, AlikeSnapshot, AlikeFiles
<1>8. NewOK(s)'
  <2>1. KeyPath \notin DOMAIN s.disk
    BY <1>2, Distinct DEF KeyPath
  <2>2. KeyPath' = KeyPath /\ TemporaryPath' = TemporaryPath
    BY <1>1 DEF KeyPath, TemporaryPath
  <2> QED
    BY <1>1, <1>3, <1>4, <2>1, <2>2 DEF NewOK
<1>9. WorkingOK(s)'
  <2>1. TemporaryPath' \notin DOMAIN disk'
    BY <1>1, <1>2, <1>3, OwnFilesApart DEF WorkingOK, TemporaryPath
  <2> QED
    BY <1>1, <1>2, <1>4, <1>7, <1>8, <2>1 DEF WorkingOK
<1>10. ProcessOK(b)'
  BY <1>0, <1>1, <1>2, <1>9 DEF ProcessOK
<1>11. HistoryOK(b)' /\ RefusalOK'
  BY <1>1, <1>2 DEF InvOf, HistoryOK, RefusalOK
<1> QED
  BY <1>7, <1>10, <1>11 DEF InvOf

\* A temporary is a file nothing depends on.
LEMMA WriteTemporaryStep ==
    ASSUME NEW b, InvOf(b), WriteTemporary
    PROVE  InvOf(b)'
<1>0. PICK s : s = b[mem.id]
  OBVIOUS
<1>1. /\ pc = "persist" /\ Observed(KeyPath, Whole) = "expected" /\ Writing /\ Writing'
      /\ disk' = Put(TemporaryPath, Unread) /\ pc' = "publishJournal"
      /\ UNCHANGED <<dirs, command, then, mem, refusal, begun, current>>
  BY DEF WriteTemporary, Goto, history, Writing
<1>2. /\ RecordOK(mem, s) /\ Typed(s) /\ mem.id = s.count + 1 /\ mem.id \in 1..begun
      /\ begun \in Nat /\ Typed(Now) /\ Now.count = begun
      /\ SnapshotOK(Now, b) /\ Recorded(b, begun) /\ WorkingOK(s) /\ refusal = "none"
      /\ (mem.id \notin JournalsOf(Now) /\ NewOK(s)) \/ JournaledOK(s)
      /\ command \in {"restore", "settle"} /\ \A k \in JournalsOf(Now) : k <= mem.id
  BY <1>0, <1>1, WritingFacts
<1>3. Now.disk = disk /\ Now'.disk = disk' /\ Now'.dirs = Now.dirs /\ Now'.current = Now.current
      /\ Now'.count = Now.count
      /\ DOMAIN disk' = DOMAIN disk \cup {TemporaryPath} /\ TemporaryPath \notin DOMAIN disk
      /\ \A q \in DOMAIN disk : q # TemporaryPath => disk'[q] = disk[q]
  BY <1>1, <1>2 DEF Now, Put, WorkingOK
<1>4. Alike(Now, Now')
  <2>0. IsFiniteSet(DOMAIN disk)
    BY <1>2, <1>3 DEF Typed
  <2>1. IsFiniteSet(DOMAIN disk')
    BY <1>3, <2>0, FS_AddElement
  <2>2. ASSUME NEW p \in DOMAIN disk PROVE p \in DOMAIN disk' /\ disk'[p] = disk[p]
    <3>1. p # TemporaryPath
      BY <1>3
    <3> QED
      BY <1>3, <3>1, Zenon
  <2>3. \A p \in DOMAIN disk' : p \in DOMAIN disk \/ p = <<TemporaryOf(mem.id)>>
    BY <1>3 DEF TemporaryPath
  <2> QED
    BY <1>2, <1>3, <2>1, <2>2, <2>3 DEF Alike
<1>5. SnapshotOK(Now', b) /\ JournalsOf(Now') = JournalsOf(Now)
  BY <1>2, <1>4, AlikeSnapshot, AlikeFiles
<1>6. JournalPath' = JournalPath /\ KeyPath' = KeyPath /\ TemporaryPath' = TemporaryPath
  BY <1>1 DEF JournalPath, KeyPath, TemporaryPath
<1>7. KeyPath \in DOMAIN disk' /\ disk'[KeyPath] = Whole
  BY <1>1, <1>3, ObservedMeans, OwnFilesApart
<1>8. ASSUME NewOK(s) PROVE NewOK(s)'
  <2>1. TemporaryPath \notin DOMAIN s.disk
    BY <1>2, Distinct DEF TemporaryPath
  <2> QED
    BY <1>1, <1>3, <1>6, <1>8, <2>1 DEF NewOK
<1>9. ASSUME JournaledOK(s) PROVE JournaledOK(s)'
  <2>1. /\ PhaseAt(s) => PhaseAt(s)'
        /\ NoneGone(s) => NoneGone(s)'
    BY <1>1, <1>2, <1>3, OwnFilesApart, WritingGoesOn
  <2>2. IsLatest(Now', mem.id)
    BY <1>5, <1>9 DEF JournaledOK, IsLatest
  <2>3. Progress(Now', s, mem)
    BY <1>2, <1>4, <1>9, AlikeIsFrom, AlikeProgress DEF JournaledOK, IsLatest
  <2>4. disk'[JournalPath] = disk[JournalPath]
    BY <1>3, <1>9, OwnFilesApart DEF JournaledOK, IsLatest, JournalsOf, JournalPath
  <2> QED
    BY <1>1, <1>6, <1>9, <2>1, <2>2, <2>3, <2>4 DEF JournaledOK
<1>10. WorkingOK(s)'
  BY <1>1, <1>2, <1>5, <1>6, <1>7, <1>8, <1>9 DEF WorkingOK
<1>11. ProcessOK(b)'
  BY <1>0, <1>1, <1>2, <1>10 DEF ProcessOK
<1>12. HistoryOK(b)' /\ RefusalOK'
  BY <1>1, <1>2 DEF InvOf, HistoryOK, RefusalOK
<1> QED
  BY <1>5, <1>11, <1>12 DEF InvOf

\* The first journal records a restore that has done nothing.
LEMMA FirstJournal ==
    ASSUME NEW s, Typed(s), RecordOK(mem, s), NewOK(s), Now.count = begun, begun \in Nat,
           NEW t, t.count = begun, t.dirs = dirs, t.current = current, IsFiniteSet(DOMAIN t.disk),
           DOMAIN t.disk = (DOMAIN disk \ {TemporaryPath}) \cup {JournalPath},
           \A q \in DOMAIN disk : q \notin {JournalPath, TemporaryPath} => t.disk[q] = disk[q]
    PROVE  Progress(t, s, mem) /\ \A p \in TakenOver(s) : ~Gone(t, mem, p)
<1>1. mem.id = s.count + 1 /\ mem.id = begun /\ mem.id \in Nat /\ dirs = s.dirs /\ current = s.current
      /\ mem.phase = "staging"
  BY DEF NewOK, RecordOK
<1>2. JournalPath \notin DOMAIN s.disk /\ TemporaryPath \notin DOMAIN s.disk
  BY <1>1, NewPaths DEF JournalPath, TemporaryPath
<1>3. ASSUME NEW p \in DOMAIN s.disk PROVE p \in DOMAIN t.disk /\ t.disk[p] = s.disk[p]
  <2>1. p \in DOMAIN disk /\ disk[p] = s.disk[p]
    BY DEF NewOK
  <2>2. p \notin {JournalPath, TemporaryPath}
    BY <1>2
  <2> QED
    BY <2>1, <2>2
<1>4. \A p \in DOMAIN t.disk : p \in DOMAIN s.disk \/ p = JournalPath \/ p = KeyPath
  BY DEF NewOK
<1>5. TakenOver(s) \subseteq DOMAIN s.disk /\ \A p \in DOMAIN s.disk : p \in Seq(Names) /\ p # <<>>
  BY TypedPaths DEF TakenOver
<1>6. \A p \in TakenOver(s) : Kept(mem, p) \notin DOMAIN t.disk
  <2> TAKE p \in TakenOver(s)
  <2>1. Kept(mem, p) \notin DOMAIN s.disk
    BY <1>1, <1>5, NewPaths
  <2>2. Kept(mem, p) # JournalPath /\ Kept(mem, p) # KeyPath
    BY <1>1, <1>5, KeptShape DEF JournalPath, KeyPath
  <2> QED
    BY <1>4, <2>1, <2>2
<1>7. \A n \in Managed : Staged(mem, n) \notin DOMAIN t.disk
  <2> TAKE n \in Managed
  <2>1. n \in Nat
    BY DEF Managed
  <2>2. Staged(mem, n) \notin DOMAIN s.disk
    BY <1>1, <2>1, NewPaths
  <2>3. Staged(mem, n) # JournalPath /\ Staged(mem, n) # KeyPath
    BY <1>1, <2>1, StagedShape DEF JournalPath, KeyPath
  <2> QED
    BY <1>4, <2>2, <2>3
<1>8. \A n \in Managed : <<File(n)>> \in DOMAIN t.disk => <<File(n)>> \in DOMAIN s.disk
  BY <1>4, Singles DEF JournalPath, KeyPath
<1>9. \A p \in TakenOver(s) : Home(t, s, mem, p)
  BY <1>3, <1>5, <1>6 DEF Home
<1>10. InStaging(t, s, mem)
  BY <1>1, <1>8, <1>9 DEF InStaging
<1>11. Frame(t, s, mem)
  <2>1. begun \in mem.id..t.count /\ mem.id <= t.count
    BY <1>1
  <2>2. \A p \in DOMAIN t.disk :
           \/ p \in DOMAIN s.disk
           \/ \E i \in mem.id..t.count : p \in {<<KeyOf(i)>>, <<TemporaryOf(i)>>}
           \/ p = <<JournalOf(mem.id)>>
    BY <1>1, <1>4, <2>1 DEF JournalPath, KeyPath
  <2>3. IsFiniteSet(t.dirs)
    BY <1>1 DEF Typed
  <2> QED
    BY <1>1, <1>3, <1>7, <2>1, <2>2, <2>3 DEF Frame
<1>12. Progress(t, s, mem)
  BY <1>1, <1>10, <1>11 DEF Progress, UndonePhases
<1> QED
  BY <1>9, <1>12 DEF Home, Gone

\* The journal in memory is true of the directory when it is published.
LEMMA PublishJournalStep ==
    ASSUME NEW b, InvOf(b), PublishJournal
    PROVE  InvOf(b)'
<1>0. PICK s : s = b[mem.id]
  OBVIOUS
<1>1. /\ pc = "publishJournal" /\ Writing /\ pc' = then
      /\ DOMAIN disk' = (DOMAIN disk \ {TemporaryPath}) \cup {JournalPath}
      /\ disk'[JournalPath] = mem
      /\ \A q \in DOMAIN disk : q \notin {JournalPath, TemporaryPath} => disk'[q] = disk[q]
      /\ UNCHANGED <<dirs, command, then, mem, refusal, begun, current>>
  BY DEF PublishJournal, Goto, history, Writing
<1>2. /\ RecordOK(mem, s) /\ Typed(s) /\ mem.id = s.count + 1 /\ mem.id \in 1..begun
      /\ begun \in Nat /\ Typed(Now) /\ Tree(Now) /\ Now.count = begun
      /\ SnapshotOK(s, b) /\ Recorded(b, begun) /\ WorkingOK(s) /\ refusal = "none"
      /\ (mem.id \notin JournalsOf(Now) /\ NewOK(s)) \/ JournaledOK(s)
      /\ command \in {"restore", "settle"}
  BY <1>0, <1>1, WritingFacts
<1>3. Now.disk = disk /\ Now'.disk = disk' /\ Now'.dirs = Now.dirs /\ Now'.current = Now.current
      /\ Now'.count = Now.count /\ Now.dirs = dirs /\ Now.current = current
  BY <1>1 DEF Now
<1>4. JournalPath' = JournalPath /\ KeyPath' = KeyPath /\ TemporaryPath' = TemporaryPath
  BY <1>1 DEF JournalPath, KeyPath, TemporaryPath
<1>5. IsFiniteSet(DOMAIN disk')
  <2>1. IsFiniteSet(DOMAIN disk)
    BY <1>2, <1>3 DEF Typed
  <2>2. IsFiniteSet(DOMAIN disk \ {TemporaryPath})
    BY <2>1, FS_Subset
  <2> QED
    BY <1>1, <2>2, FS_AddElement
<1>6. KeyPath \in DOMAIN disk' /\ disk'[KeyPath] = Whole
  <2>1. KeyPath \in DOMAIN disk /\ disk[KeyPath] = Whole
    BY <1>1, <1>2 DEF WorkingOK
  <2> QED
    BY <1>1, <2>1, OwnFilesApart
<1>7. /\ PhaseAt(s) => PhaseAt(s)'
      /\ NoneGone(s) => NoneGone(s)'
  <2>1. \A p : \/ p \in {JournalPath, KeyPath, TemporaryPath}
               \/ /\ p \in DOMAIN disk' <=> p \in DOMAIN disk
                  /\ p \in DOMAIN disk => disk'[p] = disk[p]
    BY <1>1
  <2> QED
    BY <1>1, <1>2, <2>1, OwnFilesApart, WritingGoesOn
<1>8. ASSUME NewOK(s)
      PROVE  /\ Progress(Now', s, mem) /\ PhaseAt(s)' /\ mem.phase = "staging"
             /\ mem.id = begun /\ NoneGone(s)' /\ current = s.current
             /\ then = "mkdir"
  <2>1. Progress(Now', s, mem) /\ \A p \in TakenOver(s) : ~Gone(Now', mem, p)
    BY <1>1, <1>2, <1>3, <1>5, <1>8, FirstJournal
  <2>2. pc' = "mkdir" /\ command' = "restore" /\ mem'.phase = "staging"
    BY <1>1, <1>8 DEF NewOK
  <2>3. PhaseAt(s)'
    BY <2>2 DEF PhaseAt, At, Writing
  <2>4. NoneGone(s)'
    BY <1>1, <2>1 DEF NoneGone
  <2> QED
    BY <1>8, <2>1, <2>3, <2>4 DEF NewOK
<1>9. ASSUME JournaledOK(s)
      PROVE  /\ Progress(Now', s, mem) /\ PhaseAt(s)'
             /\ command = "restore" => /\ mem.phase \in {"staging", "publishing", "committed"}
                                       /\ mem.id = begun /\ NoneGone(s)' /\ current = s.current
             /\ then \in {"mkdir", "stage", "preserve", "publish", "finish", "reverse", "cleanup"}
  <2>1. AlikeFrom(Now, Now', mem.id)
    <3>1. \A p \in DOMAIN disk : \/ p \in DOMAIN disk' /\ disk'[p] = disk[p]
                                 \/ p = TemporaryPath /\ p \notin DOMAIN disk'
                                 \/ p = JournalPath
      BY <1>1, OwnFilesApart
    <3>2. \A p \in DOMAIN disk' : p \in DOMAIN disk \/ p = JournalPath
      BY <1>1
    <3>3. mem.id \in Nat /\ mem.id >= mem.id
      BY <1>2
    <3> QED
      BY <1>2, <1>3, <1>5, <3>1, <3>2, <3>3 DEF AlikeFrom, TemporaryPath, JournalPath
  <2>2. Progress(Now', s, mem)
    BY <1>2, <1>9, <2>1, AlikeProgress DEF JournaledOK
  <2>3. PhaseAt(s) /\ PhaseAt(s)'
    BY <1>7, <1>9 DEF JournaledOK
  <2>4. /\ then \in {"mkdir", "stage", "preserve", "publish", "finish", "reverse", "cleanup"}
        /\ command = "restore" => mem.phase \in {"staging", "publishing", "committed"}
    BY <1>1, <2>3 DEF PhaseAt, At, Writing
  <2> QED
    BY <1>7, <1>9, <2>2, <2>3, <2>4 DEF JournaledOK
<1>10. /\ Progress(Now', s, mem) /\ PhaseAt(s)'
       /\ command = "restore" => /\ mem.phase \in {"staging", "publishing", "committed"}
                                 /\ mem.id = begun /\ NoneGone(s)' /\ current = s.current
       /\ then \in {"mkdir", "stage", "preserve", "publish", "finish", "reverse", "cleanup"}
  BY <1>2, <1>8, <1>9
<1>11. JournalPath \in DOMAIN disk'
  BY <1>1
<1>12. IsLatest(Now', mem.id)
  BY <1>2, <1>3, <1>10, <1>11, ProgressLatest DEF JournalPath
<1>13. Tree(Now')
  <2>1. \A p \in DOMAIN disk' : p \in DOMAIN disk \/ p = JournalPath
    BY <1>1
  <2>2. ~(Len(JournalPath) > 1)
    BY DEF JournalPath
  <2>3. \A p \in DOMAIN disk \cup dirs : Len(p) > 1 => Front(p) \in dirs
    BY <1>2, <1>3 DEF Tree
  <2>4. \A p \in DOMAIN disk' \cup dirs : Len(p) > 1 => Front(p) \in dirs
    BY <2>1, <2>2, <2>3
  <2> QED
    BY <1>3, <2>4 DEF Tree
<1>14. SnapshotOK(Now', b)
  <2>1. b[mem.id] = s /\ RecordsOK(s, b) /\ LeftoversOK(s) /\ Now'.count \in Nat
    BY <1>0, <1>2, <1>3 DEF SnapshotOK
  <2>2. Now'.disk[<<JournalOf(mem.id)>>] = mem
    BY <1>1, <1>3 DEF JournalPath
  <2>3. <<KeyOf(mem.id)>> \in DOMAIN Now'.disk /\ Now'.disk[<<KeyOf(mem.id)>>] = Whole
    BY <1>3, <1>6 DEF KeyPath
  <2> QED
    BY <1>2, <1>10, <1>12, <1>13, <2>1, <2>2, <2>3, ProgressSnapshot
<1>15. JournaledOK(s)'
  <2>1. mem' = mem /\ mem' = disk'[JournalPath'] /\ current' = current
        /\ command' = command /\ begun' = begun
    BY <1>1, <1>4
  <2> QED
    BY <1>10, <1>12, <2>1 DEF JournaledOK
<1>16. WorkingOK(s)'
  <2>1. pc' # "publishJournal" /\ TemporaryPath' \notin DOMAIN disk'
    BY <1>1, <1>4, <1>10, OwnFilesApart
  <2> QED
    BY <1>1, <1>2, <1>15, <2>1 DEF WorkingOK
<1>17. ProcessOK(b)'
  <2>1. pc' \notin {"idle", "sweep"} /\ command' \in {"restore", "settle"} /\ s = (b[mem.id])'
    BY <1>0, <1>1, <1>2, <1>10
  <2> QED
    BY <1>16, <2>1 DEF ProcessOK
<1>18. HistoryOK(b)' /\ RefusalOK'
  <2>1. pc' # "idle" /\ refusal' = "none"
    BY <1>1, <1>2, <1>10
  <2> QED
    BY <1>1, <2>1 DEF InvOf, HistoryOK, RefusalOK
<1> QED
  BY <1>14, <1>17, <1>18 DEF InvOf

\* An error rolls back the journal on disk, which is older than the one in
\* memory; with none there yet the key goes.
LEMMA FailStep ==
    ASSUME NEW b, InvOf(b), Fail
    PROVE  InvOf(b)'
<1>0. PICK s : s = b[mem.id]
  OBVIOUS
<1>1. /\ command = "restore" /\ UNCHANGED <<dirs, refusal, begun, current>>
      /\ \/ /\ Present(JournalPath)
            /\ disk' = [q \in DOMAIN disk \ {TemporaryPath} |-> disk[q]]
            /\ command' = "settle" /\ pc' = "rollback" /\ mem' = disk[JournalPath]
         \/ /\ ~Present(JournalPath) /\ Idle
            /\ disk' = [q \in DOMAIN disk \ {TemporaryPath, KeyPath} |-> disk[q]]
  BY DEF Fail, history
<1>2. pc \notin {"idle", "sweep"}
  BY <1>1 DEF InvOf, ProcessOK
<1>3. /\ WorkingOK(s) /\ refusal = "none" /\ mem.id \in 1..begun /\ mem.id \in Nat /\ begun \in Nat
      /\ RecordOK(mem, s) /\ Typed(s) /\ mem.id = s.count + 1
      /\ Recorded(b, begun) /\ SnapshotOK(Now, b) /\ Typed(Now) /\ Now.count = begun
  BY <1>0, <1>2, WorkFacts
<1>4. /\ Now.disk = disk /\ Now'.disk = disk' /\ Now'.dirs = Now.dirs /\ Now'.current = Now.current
      /\ Now'.count = Now.count /\ Now.dirs = dirs /\ Now.current = current
  BY <1>1 DEF Now
<1>5. mem.id \in JournalsOf(Now) <=> Present(JournalPath)
  BY <1>3, <1>4 DEF JournalsOf, Present, JournalPath
<1>6. IsFiniteSet(DOMAIN disk)
  BY <1>3, <1>4 DEF Typed
<1>7. ASSUME Present(JournalPath) PROVE InvOf(b)'
  <2>1. JournaledOK(s)
    BY <1>1, <1>3, <1>5, <1>7 DEF WorkingOK, UnlinkedOK
  <2>2. /\ disk' = [q \in DOMAIN disk \ {TemporaryPath} |-> disk[q]]
        /\ command' = "settle" /\ pc' = "rollback" /\ mem' = disk[JournalPath]
    BY <1>1, <1>7
  <2>3. /\ DOMAIN disk' = DOMAIN disk \ {TemporaryPath}
        /\ \A q \in DOMAIN disk' : disk'[q] = disk[q]
    BY <2>2
  <2>4. Alike(Now, Now')
    <3>1. IsFiniteSet(DOMAIN disk')
      BY <1>6, <2>3, FS_Subset
    <3>2. \A p \in DOMAIN disk : \/ p \in DOMAIN disk' /\ disk'[p] = disk[p]
                                 \/ p \notin DOMAIN disk' /\ p = <<TemporaryOf(mem.id)>>
      BY <2>3 DEF TemporaryPath
    <3> QED
      BY <1>3, <1>4, <2>3, <3>1, <3>2 DEF Alike
  <2>5. SnapshotOK(Now', b) /\ JournalsOf(Now') = JournalsOf(Now)
    BY <1>3, <1>4, <2>4, AlikeSnapshot, AlikeFiles
  <2>6. JournalPath \in DOMAIN disk' /\ disk'[JournalPath] = mem'
    BY <1>7, <2>2, <2>3, OwnFilesApart DEF Present
  <2>7. RecordOK(mem', s) /\ mem'.id = mem.id
    <3>1. /\ JournalPath[Len(JournalPath)] = <<"journal", mem.id>>
          /\ <<"journal", mem.id>>[1] = "journal" /\ <<"journal", mem.id>>[2] = mem.id
      BY JournalIsLast DEF JournalPath
    <3>2. RecordOK(disk'[JournalPath], b[mem.id])
      BY <1>4, <2>5, <2>6, <3>1 DEF SnapshotOK, RecordsOK
    <3>3. RecordOK(mem', s)
      BY <1>0, <2>6, <3>2
    <3> QED
      BY <1>3, <3>3 DEF RecordOK
  <2>8. /\ JournalPath' = JournalPath /\ KeyPath' = KeyPath /\ TemporaryPath' = TemporaryPath
        /\ \A p : Kept(mem', p) = Kept(mem, p)
    BY <2>7 DEF JournalPath, KeyPath, TemporaryPath, Kept
  <2>9. IsLatest(Now, mem.id) /\ IsLatest(Now', mem'.id)
    BY <2>1, <2>5, <2>7 DEF JournaledOK, IsLatest
  <2>10. Progress(Now', s, mem')
    <3>1. Progress(Now', b[mem.id], Now'.disk[<<JournalOf(mem.id)>>])
      BY <2>5, <2>7, <2>9 DEF SnapshotOK, LatestOK, IsLatest
    <3> QED
      BY <1>0, <1>4, <2>6, <3>1 DEF JournalPath
  <2>11. NoneGone(s)'
    <3>1. \A p \in TakenOver(s) : p # TemporaryPath /\ Kept(mem, p) # TemporaryPath
      <4>1. TakenOver(s) \subseteq DOMAIN s.disk /\ \A p \in DOMAIN s.disk : p \in Seq(Names) /\ p # <<>>
        BY <1>3, TypedPaths DEF TakenOver
      <4> QED
        BY <1>3, <4>1, KeptShape, NewPaths DEF TemporaryPath
    <3>2. \A p \in TakenOver(s) : ~Gone(Now, mem, p)
      BY <1>1, <2>1 DEF JournaledOK, NoneGone
    <3>3. \A p \in TakenOver(s) : ~Gone(Now', mem', p)
      BY <1>4, <2>3, <2>8, <3>1, <3>2 DEF Gone
    <3> QED
      BY <3>3 DEF NoneGone
  <2>12. PhaseAt(s)'
    <3>1. mem'.phase \in {"staging", "publishing", "committed"} /\ current' = s.current
      BY <1>1, <2>1, <2>2 DEF JournaledOK
    <3> QED
      BY <2>2, <2>11, <3>1 DEF PhaseAt
  <2>13. JournaledOK(s)'
    BY <2>2, <2>6, <2>8, <2>9, <2>10, <2>12 DEF JournaledOK
  <2>14. WorkingOK(s)'
    <3>1. TemporaryPath' \notin DOMAIN disk'
      BY <2>3, <2>8
    <3>2. mem'.id \in 1..begun' /\ pc' # "publishJournal"
      BY <1>1, <1>3, <2>2, <2>7
    <3> QED
      BY <2>7, <2>13, <3>1, <3>2 DEF WorkingOK
  <2>15. ProcessOK(b)'
    BY <1>0, <2>2, <2>7, <2>14 DEF ProcessOK
  <2>16. HistoryOK(b)' /\ RefusalOK'
    BY <1>1, <1>3, <2>2 DEF InvOf, HistoryOK, RefusalOK
  <2> QED
    BY <2>5, <2>15, <2>16 DEF InvOf
<1>8. ASSUME ~Present(JournalPath) PROVE InvOf(b)'
  <2>1. NewOK(s)
    BY <1>1, <1>3, <1>5, <1>8 DEF WorkingOK, UnlinkedOK, JournaledOK, IsLatest
  <2>2. disk' = [q \in DOMAIN disk \ {TemporaryPath, KeyPath} |-> disk[q]] /\ Idle
    BY <1>1, <1>8
  <2>3. /\ DOMAIN disk' = DOMAIN disk \ {TemporaryPath, KeyPath}
        /\ \A q \in DOMAIN disk' : disk'[q] = disk[q]
    BY <2>2
  <2>4. Alike(Now, Now')
    <3>1. IsFiniteSet(DOMAIN disk')
      BY <1>6, <2>3, FS_Subset
    <3>2. mem.id = begun
      BY <2>1 DEF NewOK
    <3>3. \A k \in JournalsOf(Now) : k < mem.id
      <4>1. \A k \in JournalsOf(Now) : k \in 1..begun /\ k # begun
        BY <1>3, <1>5, <1>8, <3>2 DEF JournalsOf
      <4>2. \A k \in 1..begun : k # begun => k < begun
        BY <1>3
      <4> QED
        BY <3>2, <4>1, <4>2
    <3>4. \A p \in DOMAIN disk : \/ p \in DOMAIN disk' /\ disk'[p] = disk[p]
                                 \/ p \notin DOMAIN disk' /\ p = <<TemporaryOf(mem.id)>>
                                 \/ p = <<KeyOf(mem.id)>>
      BY <2>3 DEF TemporaryPath, KeyPath
    <3> QED
      BY <1>3, <1>4, <2>3, <3>1, <3>3, <3>4 DEF Alike
  <2>5. SnapshotOK(Now', b)
    BY <1>3, <1>4, <2>4, AlikeSnapshot
  <2>6. ProcessOK(b)' /\ HistoryOK(b)' /\ RefusalOK'
    BY <1>1, <1>3, <2>2 DEF InvOf, HistoryOK, ProcessOK, RefusalOK, Idle
  <2> QED
    BY <2>5, <2>6 DEF InvOf
<1> QED
  BY <1>7, <1>8

\* A death leaves the directory as it is.
LEMMA DieStep ==
    ASSUME NEW b, InvOf(b), Die
    PROVE  InvOf(b)'
<1>1. pc # "idle" /\ Idle /\ UNCHANGED <<directory, history>> /\ refusal' = refusal
  BY DEF Die
<1>2. RefusalOK'
  BY <1>1 DEF InvOf, RefusalOK, Idle
<1> QED
  BY <1>1, <1>2, Stops

----------------------------------------------------------------------------
(* Recovery                                                                *)

\* Recovery begins with at most one journal.
LEMMA StartRecoveryStep ==
    ASSUME NEW b, InvOf(b), StartRecovery
    PROVE  InvOf(b)'
<1>1. CASE Refuse("multiple")
  <2>1. UNCHANGED <<directory, history>> /\ Idle /\ refusal' = "multiple"
    BY <1>1 DEF Refuse
  <2>2. RefusalOK'
    BY <2>1 DEF RefusalOK, Idle
  <2> QED
    BY <2>1, <2>2, Stops
<1>2. CASE ~(Cardinality(Journals) > 1)
  <2>1. /\ pc = "idle" /\ command' = "settle" /\ pc' = "sweep" /\ mem' = mem /\ refusal' = "none"
        /\ UNCHANGED <<disk, dirs, begun, current>>
    BY <1>2 DEF StartRecovery, directory, history
  <2>2. Now' = Now
    BY <2>1 DEF Now
  <2>3. \A i, k \in JournalsOf(Now) : i = k
    <3> SUFFICES ASSUME NEW i \in JournalsOf(Now), NEW k \in JournalsOf(Now), i # k PROVE FALSE
      OBVIOUS
    <3>1. begun \in Nat /\ JournalsOf(Now) \subseteq 1..begun
      BY DEF InvOf, SnapshotOK, Typed, Now, JournalsOf
    <3>2. IsFiniteSet(JournalsOf(Now))
      <4>1. IsFiniteSet(1..begun)
        BY <3>1, FS_Interval
      <4> QED
        BY <3>1, <4>1, FS_Subset
    <3>3. Cardinality({i, k}) = 2
      <4>1. IsFiniteSet({i}) /\ Cardinality({i}) = 1
        BY FS_Singleton
      <4>2. Cardinality({i} \cup {k}) = Cardinality({i}) + 1
        BY <4>1, FS_AddElement
      <4>3. {i} \cup {k} = {i, k}
        OBVIOUS
      <4> QED
        BY <4>1, <4>2, <4>3
    <3>4. Cardinality({i, k}) <= Cardinality(JournalsOf(Now))
      BY <3>2, FS_Subset
    <3>5. Cardinality(JournalsOf(Now)) \in Nat
      BY <3>2, FS_CardinalityType
    <3> QED
      BY <1>2, <3>3, <3>4, <3>5, JournalsAre
  <2>4. mem = NoJournal
    BY <2>1 DEF InvOf, ProcessOK
  <2>5. ProcessOK(b)'
    BY <2>1, <2>2, <2>3, <2>4 DEF ProcessOK
  <2>6. HistoryOK(b)' /\ RefusalOK' /\ SnapshotOK(Now', b)
    BY <2>1, <2>2 DEF InvOf, HistoryOK, RefusalOK
  <2> QED
    BY <2>5, <2>6 DEF InvOf
<1> QED
  BY <1>1, <1>2 DEF StartRecovery

\* What holds while recovery looks around.
LEMMA Sweeping ==
    ASSUME NEW b, InvOf(b), pc = "sweep"
    PROVE  /\ command = "settle" /\ mem = NoJournal /\ \A i, k \in JournalsOf(Now) : i = k
           /\ refusal = "none" /\ Recorded(b, begun) /\ SnapshotOK(Now, b) /\ Typed(Now)
           /\ Now.count = begun /\ begun \in Nat /\ Now.disk = disk
<1>1. Now.count = begun /\ Now.disk = disk
  BY DEF Now
<1>2. SnapshotOK(Now, b) /\ Typed(Now) /\ begun \in Nat
  BY <1>1 DEF InvOf, SnapshotOK, Typed
<1>3. Recorded(b, begun)
  BY DEF InvOf, HistoryOK, SnapshotOK, Recorded
<1> QED
  BY <1>1, <1>2, <1>3 DEF InvOf, ProcessOK, RefusalOK

\* The sweep takes temporaries and, with nothing pending, keys.
LEMMA SweepStep ==
    ASSUME NEW b, InvOf(b), Sweep
    PROVE  InvOf(b)'
<1>1. /\ pc = "sweep" /\ UNCHANGED <<dirs, command, pc, then, mem, refusal, begun, current>>
      /\ \E p \in DOMAIN disk : /\ Len(p) = 1
                                /\ p[1][1] = "temporary" \/ (p[1][1] = "key" /\ Journals = {})
                                /\ disk' = [q \in DOMAIN disk \ {p} |-> disk[q]]
  BY DEF Sweep, Unlink, process, history
<1>2. /\ command = "settle" /\ mem = NoJournal /\ \A i, k \in JournalsOf(Now) : i = k
      /\ refusal = "none" /\ Recorded(b, begun) /\ SnapshotOK(Now, b) /\ Typed(Now)
      /\ Now.count = begun /\ begun \in Nat /\ Now.disk = disk
  BY <1>1, Sweeping
<1>3. /\ Now'.disk = disk' /\ Now'.dirs = Now.dirs /\ Now'.current = Now.current
      /\ Now'.count = Now.count
  BY <1>1 DEF Now
<1>4. PICK p \in DOMAIN disk : /\ Len(p) = 1
                               /\ p[1][1] = "temporary" \/ (p[1][1] = "key" /\ Journals = {})
                               /\ disk' = [q \in DOMAIN disk \ {p} |-> disk[q]]
  BY <1>1
<1>5. DOMAIN disk' = DOMAIN disk \ {p} /\ \A q \in DOMAIN disk' : disk'[q] = disk[q]
  BY <1>4
<1>6. \/ \E i \in Nat : p = <<TemporaryOf(i)>>
      \/ \E i \in 1..begun : p = <<KeyOf(i)>> /\ JournalsOf(Now) = {}
  <2>1. \/ \E n \in Managed : p = <<File(n)>>
        \/ \E i \in 1..begun : p \in {<<JournalOf(i)>>, <<TemporaryOf(i)>>, <<KeyOf(i)>>}
    BY <1>2, <1>4, TopFile DEF Typed
  <2>2. \A i : /\ <<File(i)>>[1][1] = "file" /\ <<JournalOf(i)>>[1][1] = "journal"
               /\ <<KeyOf(i)>>[1][1] = "key"
    BY DEF File, JournalOf, KeyOf
  <2>3. CASE p[1][1] = "temporary"
    BY <1>2, <2>1, <2>2, <2>3
  <2>4. CASE p[1][1] = "key" /\ Journals = {}
    <3>1. \A i : <<TemporaryOf(i)>>[1][1] = "temporary"
      BY DEF TemporaryOf
    <3> QED
      BY <2>1, <2>2, <2>4, <3>1, JournalsAre
  <2> QED
    BY <1>4, <2>3, <2>4
<1>7. Alike(Now, Now')
  <2>1. IsFiniteSet(DOMAIN disk')
    BY <1>2, <1>5, FS_Subset DEF Typed
  <2>2. \A q \in DOMAIN disk : q # p => q \in DOMAIN disk' /\ disk'[q] = disk[q]
    BY <1>5
  <2>3. p \notin DOMAIN disk'
    BY <1>5
  <2> QED
    BY <1>2, <1>3, <1>5, <1>6, <2>1, <2>2, <2>3 DEF Alike
<1>8. SnapshotOK(Now', b) /\ JournalsOf(Now') = JournalsOf(Now)
  BY <1>2, <1>7, AlikeSnapshot, AlikeFiles
<1>9. ProcessOK(b)'
  BY <1>1, <1>2, <1>8 DEF ProcessOK
<1>10. HistoryOK(b)' /\ RefusalOK'
  BY <1>1, <1>2 DEF InvOf, HistoryOK, RefusalOK
<1> QED
  BY <1>8, <1>9, <1>10 DEF InvOf

\* A torn key is left to the operator.
LEMMA SweepRefusedStep ==
    ASSUME NEW b, InvOf(b), SweepRefused
    PROVE  InvOf(b)'
<1>1. UNCHANGED <<directory, history>> /\ Idle /\ refusal' = "torn-key"
  BY DEF SweepRefused, Refuse
<1>2. RefusalOK'
  BY <1>1 DEF RefusalOK, Idle
<1> QED
  BY <1>1, <1>2, Stops

\* With nothing left to recover nothing changes.
LEMMA SweepDoneStep ==
    ASSUME NEW b, InvOf(b), SweepDone
    PROVE  InvOf(b)'
<1>1. pc = "sweep" /\ Idle /\ UNCHANGED <<directory, history>> /\ refusal' = refusal
  BY DEF SweepDone
<1>2. RefusalOK'
  BY <1>1 DEF InvOf, RefusalOK, Idle
<1> QED
  BY <1>1, <1>2, Stops

\* The one journal there is authentic, and is of the last restore.
LEMMA ReadJournalStep ==
    ASSUME NEW b, InvOf(b), ReadJournal
    PROVE  InvOf(b)'
<1>1. /\ pc = "sweep" /\ Listed("temporary") = {}
      /\ \E i \in Journals :
            IF Observed(<<KeyOf(i)>>, Whole) = "expected"
            THEN /\ mem' = disk[<<JournalOf(i)>>]
                 /\ pc' = CASE mem'.phase = "committed" -> "finish"
                            [] mem'.phase \in CleanupPhases -> "cleanup"
                            [] OTHER -> "rollback"
                 /\ UNCHANGED <<disk, dirs, command, then, refusal, begun, current>>
            ELSE Refuse("unreadable")
  BY DEF ReadJournal, directory, history
<1>2. /\ command = "settle" /\ \A i, k \in JournalsOf(Now) : i = k
      /\ refusal = "none" /\ SnapshotOK(Now, b) /\ Typed(Now)
      /\ Now.count = begun /\ begun \in Nat /\ Now.disk = disk
  BY <1>1, Sweeping
<1>3. PICK i \in Journals :
            IF Observed(<<KeyOf(i)>>, Whole) = "expected"
            THEN /\ mem' = disk[<<JournalOf(i)>>]
                 /\ pc' = CASE mem'.phase = "committed" -> "finish"
                            [] mem'.phase \in CleanupPhases -> "cleanup"
                            [] OTHER -> "rollback"
                 /\ UNCHANGED <<disk, dirs, command, then, refusal, begun, current>>
            ELSE Refuse("unreadable")
  BY <1>1
<1>4. IsLatest(Now, i) /\ JournalsOf(Now) = {i} /\ i \in 1..begun /\ i \in Nat
      /\ <<JournalOf(i)>> \in DOMAIN disk
  <2>1. i \in JournalsOf(Now)
    BY JournalsAre
  <2>2. JournalsOf(Now) = {i}
    BY <1>2, <2>1
  <2>3. i \in 1..begun /\ i \in Nat /\ <<JournalOf(i)>> \in DOMAIN disk
    BY <1>2, <2>1 DEF JournalsOf
  <2> QED
    BY <2>1, <2>2, <2>3 DEF IsLatest
<1>5. /\ <<KeyOf(i)>> \in DOMAIN disk /\ disk[<<KeyOf(i)>>] = Whole
      /\ Progress(Now, b[i], disk[<<JournalOf(i)>>])
  BY <1>2, <1>4 DEF SnapshotOK, LatestOK, IsLatest
<1>6. /\ mem' = disk[<<JournalOf(i)>>]
      /\ pc' = CASE mem'.phase = "committed" -> "finish"
                 [] mem'.phase \in CleanupPhases -> "cleanup"
                 [] OTHER -> "rollback"
      /\ UNCHANGED <<disk, dirs, command, then, refusal, begun, current>>
  <2>1. Observed(<<KeyOf(i)>>, Whole) = "expected"
    BY <1>5, ObservedMeans
  <2> QED
    BY <1>3, <2>1
<1>7. PICK s : s = b[i]
  OBVIOUS
<1>8. RecordOK(mem', s) /\ mem'.id = i
  <2>1. /\ <<JournalOf(i)>>[Len(<<JournalOf(i)>>)] = <<"journal", i>>
        /\ <<"journal", i>>[1] = "journal" /\ <<"journal", i>>[2] = i
    BY JournalIsLast
  <2>2. RecordOK(disk[<<JournalOf(i)>>], b[i])
    BY <1>2, <1>4, <2>1 DEF SnapshotOK, RecordsOK
  <2>3. s.count = i - 1
    BY <1>4, <1>7 DEF InvOf, HistoryOK
  <2>4. RecordOK(mem', s)
    BY <1>6, <1>7, <2>2
  <2>5. mem'.id = s.count + 1
    BY <2>4 DEF RecordOK
  <2> QED
    BY <1>4, <2>3, <2>4, <2>5
<1>9. Now' = Now
  BY <1>6 DEF Now
<1>10. /\ pc' \in {"finish", "cleanup", "rollback"}
       /\ pc' = "finish" => mem'.phase = "committed"
       /\ pc' = "cleanup" => mem'.phase \in CleanupPhases
       /\ pc' = "rollback" => mem'.phase \in {"staging", "publishing", "rollback"}
  <2>1. mem'.phase \in Phases
    BY <1>8 DEF RecordOK
  <2>2. CASE mem'.phase = "committed"
    <3>1. pc' = "finish"
      BY <1>6, <2>2 DEF CleanupPhases, UndonePhases
    <3> QED
      BY <2>2, <3>1
  <2>3. CASE mem'.phase \in CleanupPhases
    <3>1. mem'.phase # "committed"
      BY <2>3 DEF CleanupPhases, UndonePhases
    <3>2. pc' = "cleanup"
      BY <1>6, <2>3, <3>1
    <3> QED
      BY <2>3, <3>2
  <2>4. CASE mem'.phase # "committed" /\ mem'.phase \notin CleanupPhases
    <3>1. pc' = "rollback"
      BY <1>6, <2>4
    <3> QED
      BY <2>1, <2>4, <3>1 DEF Phases
  <2> QED
    BY <2>2, <2>3, <2>4
<1>11. PhaseAt(s)'
  <2>1. Journals' = {mem'.id} /\ command' = "settle"
    <3>1. Journals' = Journals
      BY <1>6 DEF Journals, Listed, Ids, Present
    <3> QED
      BY <1>2, <1>4, <1>6, <1>8, <3>1, JournalsAre
  <2>2. At' = pc'
    BY <1>10 DEF At, Writing
  <2>3. CASE pc' = "finish"
    BY <1>10, <2>2, <2>3 DEF PhaseAt
  <2>4. CASE pc' = "cleanup"
    BY <1>10, <2>1, <2>2, <2>4 DEF PhaseAt
  <2>5. CASE pc' = "rollback"
    BY <1>10, <2>1, <2>5 DEF PhaseAt
  <2> QED
    BY <1>10, <2>3, <2>4, <2>5
<1>12. WorkingOK(s)'
  <2>1. /\ JournalPath' = <<JournalOf(i)>> /\ TemporaryPath' = <<TemporaryOf(i)>>
    BY <1>8 DEF JournalPath, TemporaryPath
  <2>2. TemporaryPath' \notin DOMAIN disk'
    BY <1>1, <1>4, <1>6, <2>1 DEF Listed, Present, Ids, TemporaryOf
  <2>3. JournaledOK(s)'
    <3>1. IsLatest(Now', mem'.id) /\ Progress(Now', s, mem') /\ mem' = disk'[JournalPath']
      BY <1>4, <1>5, <1>6, <1>7, <1>8, <1>9, <2>1
    <3>2. command' # "restore"
      BY <1>2, <1>6
    <3> QED
      BY <1>11, <3>1, <3>2 DEF JournaledOK
  <2> QED
    BY <1>4, <1>6, <1>8, <1>10, <2>2, <2>3 DEF WorkingOK
<1>13. ProcessOK(b)'
  <2>1. (b[mem.id])' = s
    BY <1>7, <1>8
  <2> QED
    BY <1>2, <1>6, <1>10, <1>12, <2>1 DEF ProcessOK
<1>14. HistoryOK(b)' /\ RefusalOK' /\ SnapshotOK(Now', b)
  <2>1. pc' # "idle" /\ refusal' = "none"
    BY <1>2, <1>6, <1>10
  <2> QED
    BY <1>2, <1>6, <1>9, <2>1 DEF InvOf, HistoryOK, RefusalOK
<1> QED
  BY <1>13, <1>14 DEF InvOf

----------------------------------------------------------------------------
(* The beginning of a restore                                              *)

\* l names the members of P, each at least once.
Lists(l, P) == l \in Seq(P) /\ \A p \in P : \E n \in DOMAIN l : l[n] = p

\* Two listings make a listing of both.
LEMMA ListsBoth ==
    ASSUME NEW P, NEW Q, NEW l, NEW m, Lists(l, P), Lists(m, Q)
    PROVE  Lists(l \o m, P \cup Q)
<1>1. l \in Seq(P \cup Q) /\ m \in Seq(P \cup Q) /\ DOMAIN l = 1..Len(l) /\ DOMAIN m = 1..Len(m)
  <2>1. l \in Seq(P) /\ m \in Seq(Q)
    BY DEF Lists
  <2>2. /\ Len(l) \in Nat /\ DOMAIN l = 1..Len(l) /\ \A n \in 1..Len(l) : l[n] \in P
        /\ Len(m) \in Nat /\ DOMAIN m = 1..Len(m) /\ \A n \in 1..Len(m) : m[n] \in Q
    BY <2>1
  <2>3. l \in [1..Len(l) -> P \cup Q] /\ m \in [1..Len(m) -> P \cup Q]
    BY <2>1, <2>2
  <2> QED
    BY <2>2, <2>3
<1> DEFINE d == l \o m
<1> HIDE DEF d
<1>2. d = l \o m
  BY DEF d
<1>3. d \in Seq(P \cup Q)
  BY <1>1, <1>2, Concatenation
<1>4. \A n \in 1..Len(l) : d[n] = l[n] /\ n \in DOMAIN d
  BY <1>1, <1>2, Concatenation
<1>5. \A n \in 1..Len(m) : d[n + Len(l)] = m[n] /\ n + Len(l) \in DOMAIN d
  BY <1>1, <1>2, Concatenation
<1>6. ASSUME NEW p \in P PROVE \E n \in DOMAIN d : d[n] = p
  <2>1. PICK n \in DOMAIN l : l[n] = p
    BY DEF Lists
  <2> QED
    BY <1>1, <1>4, <2>1
<1>7. ASSUME NEW p \in Q PROVE \E n \in DOMAIN d : d[n] = p
  <2>1. PICK n \in DOMAIN m : m[n] = p
    BY DEF Lists
  <2> QED
    BY <1>1, <1>5, <2>1
<1>8. Lists(d, P \cup Q)
  BY <1>3, <1>6, <1>7 DEF Lists
<1> QED
  BY <1>2, <1>8

\* A sorted listing names what it sorts.
LEMMA SortedLists ==
    ASSUME NEW t, Typed(t), NEW P \in SUBSET (DOMAIN t.disk)
    PROVE  Lists(Sorted(P), P)
<1>1. IsFiniteSet(P)
  BY FS_Subset DEF Typed
<1>2. P \in SUBSET Seq(Names)
  BY TypedPaths
<1> QED
  BY <1>1, <1>2, SortedMeans DEF Lists

\* The inventory names the files at the top and those of pending transactions.
LEMMA InventoryIs ==
    ASSUME Typed(Now)
    PROVE  Lists(Inventory, TakenOver(Now))
<1> DEFINE Kind(kind) == {p \in DOMAIN disk : Len(p) = 1 /\ p[1][1] = kind}
           All == Kind("file") \cup Kind("journal") \cup Kind("temporary") \cup Kind("key")
                      \cup MaterialFiles
           L == Sorted(Kind("file")) \o Sorted(Kind("journal")) \o Sorted(Kind("temporary"))
                    \o Sorted(Kind("key")) \o Sorted(MaterialFiles)
<1>1. Now.disk = disk /\ Now.count = begun
  BY DEF Now
<1>2. \A kind : Lists(Sorted(Kind(kind)), Kind(kind))
  BY <1>1, SortedLists
<1>3. Lists(Sorted(MaterialFiles), MaterialFiles)
  <2>1. MaterialFiles \in SUBSET (DOMAIN Now.disk)
    BY <1>1 DEF MaterialFiles
  <2> QED
    BY <2>1, SortedLists
<1>4. Lists(L, All)
  <2> HIDE DEF Kind
  <2>1. Lists(Sorted(Kind("file")) \o Sorted(Kind("journal")), Kind("file") \cup Kind("journal"))
    BY <1>2, ListsBoth
  <2>2. Lists(Sorted(Kind("file")) \o Sorted(Kind("journal")) \o Sorted(Kind("temporary")),
              Kind("file") \cup Kind("journal") \cup Kind("temporary"))
    BY <1>2, <2>1, ListsBoth
  <2>3. Lists(Sorted(Kind("file")) \o Sorted(Kind("journal")) \o Sorted(Kind("temporary"))
                  \o Sorted(Kind("key")),
              Kind("file") \cup Kind("journal") \cup Kind("temporary") \cup Kind("key"))
    BY <1>2, <2>2, ListsBoth
  <2> QED
    BY <1>3, <2>3, ListsBoth
<1>5. All = TakenOver(Now)
  <2>1. \A p \in DOMAIN disk : p \in MaterialFiles <=> InPending(Now, p)
    BY JournalsAre DEF MaterialFiles, OfPending, InPending
  <2>2. ASSUME NEW p \in DOMAIN disk, Len(p) = 1
        PROVE  p[1][1] \in {"file", "journal", "temporary", "key"}
    <3>1. \/ \E n \in Managed : p = <<File(n)>>
          \/ \E i \in 1..begun : p \in {<<JournalOf(i)>>, <<TemporaryOf(i)>>, <<KeyOf(i)>>}
      BY <1>1, <2>2, TopFile DEF Typed
    <3>2. \A i : /\ <<File(i)>>[1][1] = "file" /\ <<JournalOf(i)>>[1][1] = "journal"
                 /\ <<KeyOf(i)>>[1][1] = "key" /\ <<TemporaryOf(i)>>[1][1] = "temporary"
      BY DEF File, JournalOf, KeyOf, TemporaryOf
    <3> QED
      BY <3>1, <3>2
  <2>3. \A p : p \in All <=> p \in DOMAIN disk /\ (Len(p) = 1 \/ p \in MaterialFiles)
    BY <2>2 DEF MaterialFiles
  <2>4. \A p : p \in TakenOver(Now) <=> p \in DOMAIN disk /\ (Len(p) = 1 \/ InPending(Now, p))
    BY <1>1 DEF TakenOver
  <2> HIDE DEF All
  <2> QED
    BY <2>1, <2>3, <2>4
<1>6. Inventory = L
  BY DEF Inventory
<1> QED
  BY <1>4, <1>5, <1>6

\* A new journal records all that its restore takes over.
LEMMA JournalIs ==
    ASSUME Typed(Now), NEW s, s = Now
    PROVE  RecordOK(Journal(begun + 1), s)
<1> DEFINE names == Inventory
           j == Journal(begun + 1)
           N == Len(names)
           E(n) == [path |-> names[n], content |-> disk[names[n]]]
<1>1. Now.disk = disk /\ Now.count = begun /\ Now.dirs = dirs /\ begun \in Nat
  BY DEF Typed, Now
<1>2. Lists(names, TakenOver(s))
  BY InventoryIs
<1>3. /\ j = [phase |-> "staging", branch |-> "damaged", id |-> begun + 1,
              directories |-> Sorted(MaterialDirectories), previous |-> [n \in DOMAIN names |-> E(n)]]
  BY DEF Journal
<1> HIDE DEF names
<1>4. N \in Nat /\ DOMAIN names = 1..N /\ \A n \in 1..N : names[n] \in TakenOver(s)
  BY <1>2 DEF Lists
<1>5. /\ j.phase = "staging" /\ j.branch = "damaged" /\ j.id = begun + 1
      /\ j.directories = Sorted(MaterialDirectories)
      /\ j.previous = [n \in 1..N |-> E(n)]
  <2>0. DOMAIN names = 1..N
    BY <1>4
  <2> HIDE DEF j, E, N
  <2>1. /\ j.phase = "staging" /\ j.branch = "damaged" /\ j.id = begun + 1
        /\ j.directories = Sorted(MaterialDirectories)
        /\ j.previous = [n \in DOMAIN names |-> E(n)]
    BY <1>3
  <2> QED
    BY <2>0, <2>1, Zenon
<1>6. j = [phase |-> j.phase, branch |-> j.branch, id |-> j.id,
           directories |-> j.directories, previous |-> j.previous]
  BY <1>3, <1>4, <1>5, Zenon
<1> HIDE DEF j
<1>7. \A n \in 1..N : /\ E(n).path = names[n] /\ E(n).content = disk[names[n]]
                      /\ E(n) = [path |-> E(n).path, content |-> E(n).content]
  OBVIOUS
<1> HIDE DEF E
<1>8. /\ DOMAIN j.previous = 1..N /\ \A n \in 1..N : j.previous[n] = E(n)
  BY <1>5
<1>9. Len(j.previous) = N
  <2> DEFINE S == {E(n) : n \in 1..N}
  <2>1. [n \in 1..N |-> E(n)] \in [1..N -> S]
    OBVIOUS
  <2>2. j.previous \in [1..N -> S]
    BY <1>5, <2>1, Zenon
  <2> HIDE DEF S
  <2> QED
    BY <1>4, <2>2
<1>10. /\ DOMAIN j.previous = 1..Len(j.previous) /\ Len(j.previous) \in Nat
       /\ \A n \in DOMAIN j.previous :
             /\ j.previous[n].path \in TakenOver(s)
             /\ j.previous[n].content = s.disk[j.previous[n].path]
             /\ IsEntry(j.previous[n])
  <2>1. \A n \in 1..N : /\ j.previous[n].path = names[n]
                        /\ j.previous[n].content = disk[names[n]]
                        /\ IsEntry(j.previous[n])
    BY <1>7, <1>8, Zenon DEF IsEntry
  <2> QED
    BY <1>1, <1>4, <1>8, <1>9, <2>1, Zenon
<1>11. \A p \in TakenOver(s) : \E n \in DOMAIN j.previous : j.previous[n].path = p
  <2> TAKE p \in TakenOver(s)
  <2>1. PICK n \in 1..N : names[n] = p
    BY <1>2, <1>4 DEF Lists
  <2> QED
    BY <1>7, <1>8, <2>1
<1> DEFINE dd == Sorted(MaterialDirectories)
<1>12. MaterialDirectories = TakenDirectories(s)
  BY <1>1, JournalsAre DEF MaterialDirectories, OfPending, TakenDirectories, InPending
<1>13. /\ Len(dd) \in Nat /\ DOMAIN dd = 1..Len(dd) /\ dd \in Seq(MaterialDirectories)
       /\ \A p \in MaterialDirectories : \E n \in DOMAIN dd : dd[n] = p
       /\ \A m, n \in DOMAIN dd : IsStrictPrefix(dd[m], dd[n]) => m < n
  <2>1. MaterialDirectories \subseteq Now.dirs
    BY <1>1 DEF MaterialDirectories
  <2>2. IsFiniteSet(MaterialDirectories)
    BY <2>1, FS_Subset DEF Typed
  <2>3. MaterialDirectories \in SUBSET Seq(Names)
    BY <2>1, TypedPaths
  <2> QED
    BY <2>2, <2>3, SortedMeans
<1>14. j.directories = dd
  BY <1>5
<1> HIDE DEF dd
<1>15. \A n \in DOMAIN dd : dd[n] \in TakenDirectories(s)
  BY <1>12, <1>13
<1>16. IsList(dd)
  <2>1. dd = [n \in DOMAIN dd |-> dd[n]]
    BY <1>13
  <2> QED
    BY <1>13, <2>1, Zenon DEF IsList
<1>17. /\ DOMAIN j.directories = 1..Len(j.directories) /\ Len(j.directories) \in Nat
       /\ IsList(j.directories)
       /\ \A n \in DOMAIN j.directories : j.directories[n] \in TakenDirectories(s)
       /\ \A d \in TakenDirectories(s) : \E n \in DOMAIN j.directories : j.directories[n] = d
       /\ \A m, n \in DOMAIN j.directories :
             IsStrictPrefix(j.directories[m], j.directories[n]) => m < n
  BY <1>12, <1>13, <1>14, <1>15, <1>16, Zenon
<1>18. j.id = s.count + 1 /\ j.phase \in Phases /\ j.branch = "damaged"
  BY <1>1, <1>5 DEF Phases
<1>19. RecordOK(j, s)
  <2>1. j.branch \in {"healthy", "damaged"} /\ ~(j.branch = "healthy")
    BY <1>18
  <2> QED
    BY <1>6, <1>10, <1>11, <1>17, <1>18, <2>1, Zenon DEF RecordOK
<1> QED
  BY <1>19 DEF j

\* Nothing but the past of a directory is looked up in the history.
LEMMA SnapshotHistory ==
    ASSUME NEW b, NEW c, NEW t, SnapshotOK(t, b), \A k \in 1..t.count : c[k] = b[k]
    PROVE  SnapshotOK(t, c)
<1>1. Typed(t)
  BY DEF SnapshotOK
<1>2. RecordsOK(t, c)
  <2> SUFFICES ASSUME NEW p \in DOMAIN t.disk, p[Len(p)][1] = "journal"
               PROVE  RecordOK(t.disk[p], c[p[Len(p)][2]])
    BY DEF RecordsOK
  <2>1. RecordOK(t.disk[p], b[p[Len(p)][2]])
    BY DEF SnapshotOK, RecordsOK
  <2>2. p[Len(p)] \in FileNames(t.count)
    BY <1>1 DEF Typed
  <2>3. p[Len(p)][2] \in 1..t.count
    BY <2>2 DEF FileNames
  <2> QED
    BY <2>1, <2>3
<1>3. LatestOK(t, c)
  <2>1. \A k \in JournalsOf(t) : k \in 1..t.count
    BY DEF JournalsOf
  <2>2. LatestOK(t, b)
    BY DEF SnapshotOK
  <2> QED
    BY <2>1, <2>2, Zenon DEF LatestOK
<1> QED
  BY <1>1, <1>2, <1>3 DEF SnapshotOK

\* A restore begins over the directory as it is, which joins the history.
LEMMA BeginStep ==
    ASSUME NEW b, InvOf(b), NEW id \in 1..MaxRestores, Begin(id)
    PROVE  \E c : InvOf(c)'
<1>0. PICK s : s = Now
  OBVIOUS
<1>1. /\ pc = "idle" /\ id = begun + 1 /\ command' = "restore" /\ mem' = Journal(id)
      /\ pc' = "persist" /\ then' = "mkdir" /\ begun' = id /\ refusal' = "none"
      /\ UNCHANGED <<disk, dirs, current>>
  BY DEF Begin, Persist, directory
<1>2. /\ begun \in Nat /\ Typed(Now) /\ SnapshotOK(Now, b) /\ Now.count = begun
      /\ \A i \in 1..begun : b[i].count = i - 1 /\ SnapshotOK(b[i], b)
  BY DEF InvOf, SnapshotOK, Typed, Now, HistoryOK
<1>3. PICK c : c = [i \in 1..(begun + 1) |-> IF i = begun + 1 THEN s ELSE b[i]]
  OBVIOUS
<1>4. /\ c[begun + 1] = s /\ \A i \in 1..begun : c[i] = b[i]
      /\ \A i \in 1..(begun + 1) : i \in 1..begun \/ i = begun + 1
  <2>1. begun + 1 \in 1..(begun + 1) /\ \A i \in 1..begun : i \in 1..(begun + 1) /\ i # begun + 1
    BY <1>2
  <2>2. \A i \in 1..(begun + 1) : i \in 1..begun \/ i = begun + 1
    BY <1>2
  <2> QED
    BY <1>3, <2>1, <2>2
<1>5. SnapshotOK(Now, c)
  BY <1>2, <1>4, SnapshotHistory
<1>6. /\ Now'.count = begun + 1 /\ Now'.disk = disk /\ Now'.dirs = Now.dirs
      /\ Now'.current = Now.current /\ Now.disk = disk /\ s.count = begun
      /\ s.disk = disk /\ s.dirs = dirs /\ s.current = current
  BY <1>0, <1>1, <1>2 DEF Now
<1>7. \A i \in 1..begun : c[i].count = i - 1 /\ SnapshotOK(c[i], c)
  <2> TAKE i \in 1..begun
  <2>1. c[i] = b[i] /\ b[i].count = i - 1 /\ SnapshotOK(b[i], b)
    BY <1>2, <1>4
  <2>2. \A k \in 1..(i - 1) : k \in 1..begun
    BY <1>2
  <2>3. \A k \in 1..b[i].count : c[k] = b[k]
    BY <1>4, <2>1, <2>2
  <2> QED
    BY <2>1, <2>3, SnapshotHistory
<1>8. SnapshotOK(Now', c)
  <2>1. Recorded(c, Now.count)
    BY <1>2, <1>7 DEF Recorded, SnapshotOK
  <2>2. Alike(Now, Now')
    BY <1>2, <1>6 DEF Alike, Typed
  <2> QED
    BY <1>5, <2>1, <2>2, AlikeSnapshot
<1>9. HistoryOK(c)'
  <2>1. c[begun + 1].count = (begun + 1) - 1 /\ SnapshotOK(c[begun + 1], c)
    BY <1>0, <1>2, <1>4, <1>5
  <2>2. \A i \in 1..(begun + 1) : c[i].count = i - 1 /\ SnapshotOK(c[i], c)
    BY <1>4, <1>7, <2>1
  <2> QED
    BY <1>1, <2>2 DEF HistoryOK
<1>10. /\ RecordOK(mem', s) /\ mem'.id = begun + 1 /\ mem'.phase = "staging"
       /\ mem'.branch = "damaged"
  <2>1. RecordOK(Journal(begun + 1), s)
    BY <1>0, <1>2, JournalIs
  <2>2. Journal(id).id = id /\ Journal(id).phase = "staging" /\ Journal(id).branch = "damaged"
    BY DEF Journal
  <2> QED
    BY <1>1, <2>1, <2>2
<1>11. {<<JournalOf(begun + 1)>>, <<TemporaryOf(begun + 1)>>, <<KeyOf(begun + 1)>>}
          \cap DOMAIN s.disk = {}
  <2>1. Typed(s) /\ begun + 1 \in Nat /\ begun + 1 > s.count
    BY <1>0, <1>2, <1>6
  <2> QED
    BY <2>1, NothingOfNext
<1>12. WorkingOK(s)'
  <2>1. /\ JournalPath' = <<JournalOf(begun + 1)>> /\ TemporaryPath' = <<TemporaryOf(begun + 1)>>
    BY <1>10 DEF JournalPath, TemporaryPath
  <2>2. mem'.id \notin JournalsOf(Now')
    BY <1>6, <1>10, <1>11 DEF JournalsOf
  <2>3. NewOK(s)'
    <3>1. Writing'
      BY <1>1 DEF Writing
    <3> QED
      BY <1>1, <1>6, <1>10, <3>1 DEF NewOK
  <2>4. TemporaryPath' \notin DOMAIN disk' /\ pc' # "publishJournal" /\ mem'.id \in 1..begun'
    BY <1>1, <1>2, <1>6, <1>10, <1>11, <2>1
  <2> QED
    BY <1>10, <2>2, <2>3, <2>4 DEF WorkingOK
<1>13. ProcessOK(c)'
  <2>1. (c[mem.id])' = s
    BY <1>4, <1>10
  <2> QED
    BY <1>1, <1>12, <2>1 DEF ProcessOK
<1>14. RefusalOK'
  BY <1>1 DEF RefusalOK
<1>15. InvOf(c)'
  BY <1>8, <1>9, <1>13, <1>14 DEF InvOf
<1> QED
  BY <1>15

----------------------------------------------------------------------------
(* The invariant                                                           *)

\* Some history explains the directory, the process and the refusal.
Inv == \E b : InvOf(b)

\* A vault no restore worked on has the empty history.
LEMMA InitInv == Init => Inv
<1> SUFFICES ASSUME Init PROVE InvOf(<<>>)
  BY DEF Inv
<1> DEFINE F == {<<File(n)>> : n \in Managed}
<1>1. /\ DOMAIN disk = F /\ \A p \in F : disk[p] = Image(0)
      /\ dirs = {} /\ begun = 0 /\ current = 0
  BY DEF Init
<1>2. Now.disk = disk /\ Now.dirs = {} /\ Now.count = 0 /\ Now.current = 0
  BY <1>1 DEF Now
<1>3. IsFiniteSet(F)
  <2>1. IsFiniteSet(Managed)
    BY SizeAssumption, FS_Interval DEF Managed
  <2> DEFINE f == [n \in Managed |-> <<File(n)>>]
  <2>2. f \in Surjection(Managed, F)
    BY DEF Surjection
  <2> HIDE DEF F, f
  <2> QED
    BY <2>1, <2>2, FS_Surjection
<1>4. JournalsOf(Now) = {}
  BY <1>2 DEF JournalsOf
<1>5. \A p \in F : /\ Path(p, 0) /\ Len(p) = 1 /\ p[Len(p)] \in FileNames(0)
                   /\ p[Len(p)][1] = "file"
  <2> TAKE p \in F
  <2>0. PICK n \in Managed : p = <<File(n)>>
    OBVIOUS
  <2>1. File(n) \in FileNames(0) /\ File(n)[1] = "file"
    BY DEF FileNames, File
  <2> QED
    BY <2>0, <2>1, TopPath
<1> HIDE DEF F
<1>6. Typed(Now)
  <2>1. IsFiniteSet(Now.dirs)
    BY <1>2, FS_EmptySet
  <2>2. 0 \in Nat /\ 0 \in 0..0
    OBVIOUS
  <2> QED
    BY <1>1, <1>2, <1>3, <1>5, <2>1, <2>2 DEF Typed
<1>7. Tree(Now)
  BY <1>1, <1>2, <1>5 DEF Tree
<1>8. RecordsOK(Now, <<>>)
  BY <1>1, <1>2, <1>5 DEF RecordsOK
<1>9. WholeOK(Now)
  <2>1. \A n \in Managed : <<File(n)>> \in F
    BY DEF F
  <2> QED
    BY <1>1, <1>2, <2>1 DEF WholeOK
<1>10. SnapshotOK(Now, <<>>)
  BY <1>2, <1>4, <1>6, <1>7, <1>8, <1>9 DEF SnapshotOK, LeftoversOK, LatestOK
<1>11. HistoryOK(<<>>)
  BY <1>1 DEF HistoryOK
<1>12. ProcessOK(<<>>) /\ RefusalOK
  BY DEF Init, ProcessOK, RefusalOK
<1> QED
  BY <1>10, <1>11, <1>12 DEF InvOf

\* A stutter keeps the invariant.
LEMMA Unchanged ==
    ASSUME NEW b, InvOf(b), UNCHANGED vars
    PROVE  InvOf(b)'
<1>1. UNCHANGED <<disk, dirs, command, pc, then, mem, refusal, begun, current>>
  BY DEF vars, directory, process, history
<1>2. Now' = Now
  BY <1>1 DEF Now
<1>3. HistoryOK(b)' /\ SnapshotOK(Now', b)
  BY <1>1, <1>2 DEF InvOf, HistoryOK
<1>4. JournalPath' = JournalPath /\ KeyPath' = KeyPath /\ TemporaryPath' = TemporaryPath
  BY <1>1 DEF JournalPath, KeyPath, TemporaryPath
<1>5. Journals' = Journals /\ At' = At /\ Writing' = Writing
  BY <1>1 DEF Journals, Listed, Ids, Present, At, Writing
<1>6. \A s : (NoneGone(s) <=> NoneGone(s)') /\ (NewOK(s) <=> NewOK(s)')
  BY <1>1, <1>2, <1>4, <1>5 DEF NoneGone, NewOK
<1>7. \A s : PhaseAt(s) <=> PhaseAt(s)'
  <2> TAKE s
  <2>1. NoneGone(s) <=> NoneGone(s)'
    BY <1>6
  <2> QED
    BY <1>1, <1>2, <1>5, <2>1 DEF PhaseAt
<1>8. \A s : JournaledOK(s) <=> JournaledOK(s)'
  <2> TAKE s
  <2>1. (NoneGone(s) <=> NoneGone(s)') /\ (PhaseAt(s) <=> PhaseAt(s)')
    BY <1>6, <1>7
  <2> QED
    BY <1>1, <1>2, <1>4, <1>5, <2>1 DEF JournaledOK
<1>9. \A s : WorkingOK(s) <=> WorkingOK(s)'
  <2> TAKE s
  <2>1. (NewOK(s) <=> NewOK(s)') /\ (JournaledOK(s) <=> JournaledOK(s)')
    BY <1>6, <1>8
  <2> QED
    BY <1>1, <1>2, <1>4, <2>1 DEF WorkingOK, UnlinkedOK
<1>10. ProcessOK(b)' /\ RefusalOK'
  BY <1>1, <1>2, <1>9 DEF InvOf, ProcessOK, RefusalOK
<1> QED
  BY <1>3, <1>10 DEF InvOf

\* Every step keeps it; only the beginning of a restore adds to the history.
LEMMA NextInv == Inv /\ [Next]_vars => Inv'
<1> SUFFICES ASSUME NEW b, InvOf(b), [Next]_vars PROVE Inv'
  BY DEF Inv
<1>1. CASE RestoreStep
  <2>1. InvOf(b)'
    BY <1>1, CreateKeyStep, WriteTemporaryStep, PublishJournalStep, MakeDirectoryStep, ClassifyStep,
       StageStep, SealStep, PreserveStep, PublishStep DEF RestoreStep
  <2> QED
    BY <2>1 DEF Inv
<1>2. CASE SettleStep
  <2>1. InvOf(b)'
    BY <1>2, FinishStep, RollbackStagingStep, RollbackStep, RollbackRefusedStep, ReverseOperationStep,
       ReverseDoneStep, CleanUpStep, RemoveDirectoryStep, UnlinkJournalStep, UnlinkKeyStep
       DEF SettleStep
  <2> QED
    BY <2>1 DEF Inv
<1>3. CASE RecoveryStep
  <2>1. InvOf(b)'
    BY <1>3, StartRecoveryStep, SweepStep, SweepRefusedStep, SweepDoneStep, ReadJournalStep
       DEF RecoveryStep
  <2> QED
    BY <2>1 DEF Inv
<1>4. ASSUME NEW id \in 1..MaxRestores, Begin(id) PROVE Inv'
  BY <1>4, BeginStep DEF Inv
<1>5. CASE Fail
  BY <1>5, FailStep DEF Inv
<1>6. CASE Die
  BY <1>6, DieStep DEF Inv
<1>7. CASE UNCHANGED vars
  BY <1>7, Unchanged DEF Inv
<1> QED
  BY <1>1, <1>2, <1>3, <1>4, <1>5, <1>6, <1>7 DEF Next

(* Every reachable state has a history: each restore begun is described by *)
(* the directory it began over, and recovery by the last one's journal.    *)
THEOREM Invariant == Spec => []Inv
BY InitInv, NextInv, PTL DEF Spec

----------------------------------------------------------------------------
(* What the invariant says                                                 *)

\* What the invariant says of the directory now.
LEMMA NowFacts ==
    ASSUME NEW b, InvOf(b)
    PROVE  /\ Now.disk = disk /\ Now.dirs = dirs /\ Now.current = current /\ Now.count = begun
           /\ begun \in Nat /\ Typed(Now) /\ SnapshotOK(Now, b) /\ Recorded(b, begun)
<1>1. Now.disk = disk /\ Now.dirs = dirs /\ Now.current = current /\ Now.count = begun
  BY DEF Now
<1>2. SnapshotOK(Now, b) /\ Typed(Now) /\ begun \in Nat
  BY <1>1 DEF InvOf, SnapshotOK, Typed
<1>3. Recorded(b, begun)
  BY DEF InvOf, HistoryOK, SnapshotOK, Recorded
<1> QED
  BY <1>1, <1>2, <1>3

\* With a journal there the latest restore is one with a journal.
LEMMA LatestIs ==
    ASSUME NEW b, InvOf(b), Journals # {}
    PROVE  IsLatest(Now, Latest)
<1>1. begun \in Nat /\ Now.count = begun
  BY NowFacts
<1>2. Journals \in SUBSET (1..begun)
  BY <1>1, JournalsAre DEF JournalsOf
<1>3. \E i \in Journals : \A k \in Journals : k <= i
  BY <1>1, <1>2, GreatestNumber
<1>4. Latest \in Journals /\ \A k \in Journals : k <= Latest
  BY <1>3 DEF Latest
<1> QED
  BY <1>4, JournalsAre DEF IsLatest

\* The journal on disk under its name.
LEMMA JournalOnDisk ==
    ASSUME NEW b, InvOf(b), NEW k \in JournalsOf(Now), NEW s, s = b[k],
           NEW r, r = disk[<<JournalOf(k)>>]
    PROVE  /\ RecordOK(r, s) /\ Typed(s) /\ r.id = k /\ r.phase \in Phases
           /\ IsLatest(Now, k) => Progress(Now, s, r)
<1>1. /\ Now.disk = disk /\ Now.count = begun /\ begun \in Nat
      /\ SnapshotOK(Now, b) /\ Recorded(b, begun)
  BY NowFacts
<1>2. k \in 1..begun /\ k \in Nat /\ <<JournalOf(k)>> \in DOMAIN disk
  BY <1>1 DEF JournalsOf
<1>3. /\ <<JournalOf(k)>>[Len(<<JournalOf(k)>>)] = <<"journal", k>>
      /\ <<"journal", k>>[1] = "journal" /\ <<"journal", k>>[2] = k
  BY JournalIsLast
<1>4. RecordOK(r, s)
  BY <1>1, <1>2, <1>3 DEF SnapshotOK, RecordsOK
<1>5. s.count = k - 1 /\ Typed(s)
  BY <1>1, <1>2 DEF Recorded
<1>6. r.id = s.count + 1 /\ r.phase \in Phases
  BY <1>4 DEF RecordOK
<1>7. IsLatest(Now, k) => Progress(Now, s, r)
  BY <1>1 DEF SnapshotOK, LatestOK
<1> QED
  BY <1>2, <1>4, <1>5, <1>6, <1>7

\* An entry of a journal is a file taken over with its content.
LEMMA EntriesAre ==
    ASSUME NEW s, NEW r, RecordOK(r, s), NEW e \in ToSet(r.previous)
    PROVE  e.path \in TakenOver(s) /\ e.content = s.disk[e.path]
BY DEF RecordOK, ToSet

\* An entry is found where its file is.
LEMMA EntryFound ==
    ASSUME NEW s, NEW r, RecordOK(r, s), NEW e \in ToSet(r.previous)
    PROVE  /\ Home(Now, s, r, e.path) => Observed(e.path, e.content) = "expected"
           /\ Away(Now, s, r, e.path) => Observed(Kept(r, e.path), e.content) = "expected"
<1>1. e.path \in TakenOver(s) /\ e.content = s.disk[e.path]
  BY EntriesAre
<1>2. Now.disk = disk
  BY DEF Now
<1> QED
  BY <1>1, <1>2, ObservedMeans DEF Home, Away

\* The properties, each from the invariant.
LEMMA InvTreeOK == Inv => TreeOK
<1> SUFFICES ASSUME NEW b, InvOf(b) PROVE TreeOK
  BY DEF Inv
<1>1. /\ Now.disk = disk /\ Now.dirs = dirs /\ Now.current = current /\ Now.count = begun
      /\ begun \in Nat /\ Typed(Now) /\ SnapshotOK(Now, b)
  BY NowFacts
<1>2. \A p \in DOMAIN disk \cup dirs : Len(p) > 1 => Front(p) \in dirs
  BY <1>1 DEF SnapshotOK, Tree
<1>3. current \in 0..begun
  BY <1>1 DEF Typed
<1>4. command \in {"none", "restore", "settle"} /\ mem.id \in 0..begun
  <2>1. NoJournal.id = 0 /\ 0 \in 0..begun /\ \A i \in 1..begun : i \in 0..begun
    BY <1>1 DEF NoJournal
  <2> QED
    BY <2>1 DEF InvOf, ProcessOK, WorkingOK
<1>5. refusal \in {"none", "multiple", "mixed-state", "torn-key", "unreadable", "unknown-entry"}
  BY DEF InvOf, RefusalOK
<1> QED
  BY <1>2, <1>3, <1>4, <1>5 DEF TreeOK

\* With no journal there the vault is the image of the last commit.
LEMMA InvVaultWhole == Inv => VaultWhole
<1> SUFFICES ASSUME NEW b, InvOf(b), Journals = {}, NEW n \in Managed
             PROVE  Observed(<<File(n)>>, Image(current)) = "expected"
  BY DEF Inv, VaultWhole
<1>1. Now.disk = disk /\ Now.current = current /\ SnapshotOK(Now, b)
  BY NowFacts
<1>2. <<File(n)>> \in DOMAIN disk /\ disk[<<File(n)>>] = Image(current)
  BY <1>1, JournalsAre DEF SnapshotOK, WholeOK
<1> QED
  BY <1>2, ObservedMeans

\* Until it commits, a restore has every original in one of two places.
LEMMA InvOriginalsKept == Inv => OriginalsKept
<1> SUFFICES ASSUME NEW b, InvOf(b), Journals # {},
                    NEW r, r = disk[<<JournalOf(Latest)>>], r.phase # "committed-cleanup",
                    NEW e \in ToSet(r.previous)
             PROVE  \/ OfTemporary(e.path)
                    \/ Observed(e.path, e.content) = "expected"
                    \/ Observed(Kept(r, e.path), e.content) = "expected"
  BY DEF Inv, OriginalsKept
<1>1. IsLatest(Now, Latest) /\ Latest \in JournalsOf(Now)
  BY LatestIs DEF IsLatest
<1>2. PICK s : s = b[Latest]
  OBVIOUS
<1>3. RecordOK(r, s) /\ r.phase \in Phases /\ Progress(Now, s, r)
  BY <1>1, <1>2, JournalOnDisk
<1>4. e.path \in TakenOver(s)
  BY <1>3, EntriesAre
<1>5. Home(Now, s, r, e.path) \/ Away(Now, s, r, e.path) \/ Gone(Now, r, e.path)
  BY <1>3, <1>4, PhasesAre DEF InStaging, InExchange, InCommitted
<1> QED
  BY <1>3, <1>5, EntryFound DEF Gone

\* Only a temporary that is gone makes an operation irreversible, and no
\* operation stops a restore.
LEMMA InvRefusalsExplained == Inv => RefusalsExplained
<1> SUFFICES ASSUME NEW b, InvOf(b) PROVE RefusalsExplained
  BY DEF Inv
<1>1. refusal \notin {"unknown-entry", "unreadable"}
  BY DEF InvOf, RefusalOK
<1>2. ASSUME refusal = "mixed-state", pc = "idle"
      PROVE  /\ Journals = {Latest}
             /\ LET j == disk[<<JournalOf(Latest)>>]
                IN  \A op \in ToSet(Operations(j)) : Reversible(j, op) \/ OfTemporary(op.from)
  <2>1. PICK k \in JournalsOf(Now) :
              /\ \A i \in JournalsOf(Now) : i = k
              /\ disk[<<JournalOf(k)>>].phase \in {"publishing", "rollback"}
    BY <1>2 DEF InvOf, RefusalOK
  <2>2. Journals = {k}
    BY <2>1, JournalsAre
  <2>3. IsLatest(Now, Latest) /\ Latest = k
    BY <2>1, <2>2, LatestIs DEF IsLatest
  <2>4. PICK s : s = b[k]
    OBVIOUS
  <2>5. PICK r : r = disk[<<JournalOf(k)>>]
    OBVIOUS
  <2>6. RecordOK(r, s) /\ Typed(s) /\ Progress(Now, s, r)
    BY <2>3, <2>4, <2>5, JournalOnDisk
  <2>7. Exchanged(s, r)
    BY <2>1, <2>5, <2>6, ExchangedAt
  <2>8. \A op \in ToSet(Operations(r)) : Reversible(r, op) \/ OfTemporary(op.from)
    BY <2>6, <2>7, Irreversible
  <2> QED
    BY <2>2, <2>3, <2>5, <2>8
<1>3. ASSUME pc = "preserve", NEW op \in ToSet(Preservations(mem))
      PROVE  ForwardVerdict(op) # "stop"
  <2>1. PICK s : s = b[mem.id]
    OBVIOUS
  <2>2. /\ RecordOK(mem, s) /\ Typed(s) /\ JournaledOK(s) /\ PhaseAt(s) /\ Progress(Now, s, mem)
        /\ At = pc
    BY <1>3, <2>1, WorkFacts, AtWork
  <2>3. /\ command = "restore" /\ mem.phase = "publishing"
        /\ \A n \in Managed : Ready(Now, s, mem, n)
    BY <1>3, <2>2 DEF PhaseAt
  <2>4. InExchange(Now, s, mem) /\ NoneGone(s)
    BY <2>2, <2>3 DEF Progress, JournaledOK
  <2>5. PICK p \in TakenOver(s) : op = Taking(mem, s, p)
    BY <2>2, OperationsSet
  <2>6. Home(Now, s, mem, p) \/ Away(Now, s, mem, p)
    BY <2>4 DEF InExchange, NoneGone
  <2>7. CASE Home(Now, s, mem, p)
    <3>1. ForwardVerdict(op) = "move"
      BY <2>2, <2>5, <2>7, TakingVerdicts
    <3> QED
      BY <3>1
  <2>8. CASE Away(Now, s, mem, p)
    <3>1. p \notin DOMAIN disk
      BY <2>3, <2>8 DEF Away, Ready, Now
    <3>2. ForwardVerdict(op) = "skip"
      BY <2>2, <2>5, <2>8, <3>1, TakingVerdicts
    <3> QED
      BY <3>2
  <2> QED
    BY <2>6, <2>7, <2>8
<1> QED
  BY <1>1, <1>2, <1>3 DEF RefusalsExplained

\* A directory left behind has its journal somewhere.
LEMMA InvLeftoversExplained == Inv => LeftoversExplained
<1> SUFFICES ASSUME NEW b, InvOf(b), NEW d \in dirs, d[1][1] = "staging"
             PROVE  \E p \in DOMAIN disk : Last(p) = <<"journal", d[1][2]>>
  BY DEF Inv, LeftoversExplained
<1>1. Now.disk = disk /\ Now.dirs = dirs /\ SnapshotOK(Now, b)
  BY NowFacts
<1>2. \E p \in DOMAIN disk : p[Len(p)] = <<"journal", d[1][2]>>
  BY <1>1 DEF SnapshotOK, LeftoversOK
<1> QED
  BY <1>2 DEF Last

(* However deep restores are stacked, no operation moves a file into a     *)
(* directory that is not there (recovery.ts:322), for any number of files  *)
(* and of restores.                                                        *)
THEOREM TreeStands == Spec => []TreeOK
BY Invariant, InvTreeOK, PTL

(* With no journal in the directory the vault is one image, that of the    *)
(* last restore that passed its commit point, whatever was interrupted,    *)
(* undone and recovered before, for any number of files and of restores.   *)
THEOREM VaultStaysWhole == Spec => []VaultWhole
BY Invariant, InvVaultWhole, PTL

(* Until a restore commits, every file it took over, those of unfinished   *)
(* transactions included, is in its place or in the evidence, for any      *)
(* number of files and of restores.                                        *)
THEOREM OriginalsStayReachable == Spec => []OriginalsKept
BY Invariant, InvOriginalsKept, PTL

(* Recovery never meets an unknown entry or a journal it cannot read, and  *)
(* refuses a rollback only over a temporary journal that was swept; a      *)
(* restore finds every file where its inventory says.                      *)
THEOREM RefusalsAreExplained == Spec => []RefusalsExplained
BY Invariant, InvRefusalsExplained, PTL

(* With nothing pending, a staging directory that is still in the vault    *)
(* directory itself belongs to a journal that is kept as evidence.         *)
THEOREM LeftoversAreExplained == Spec => []LeftoversExplained
BY Invariant, InvLeftoversExplained, PTL

\* Of the directory of a restore that committed, what is top-level is its own.
LEMMA CommittedTop ==
    ASSUME NEW s, Typed(s), NEW r, RecordOK(r, s), NEW t, Progress(t, s, r),
           r.phase = "committed-cleanup", t.count = r.id, NEW i,
           NEW x \in {<<KeyOf(i)>>, <<TemporaryOf(i)>>}, x \in DOMAIN t.disk
    PROVE  i = r.id
<1>1. r.id = s.count + 1 /\ r.id \in Nat /\ TakenOver(s) \subseteq DOMAIN s.disk /\ Len(x) = 1
  BY DEF RecordOK, Typed, TakenOver
<1>2. InCleanup(t, s, r) /\ Frame(t, s, r)
  BY DEF Progress
<1>3. x \notin DOMAIN s.disk
  <2>1. x \in DOMAIN s.disk => x \in TakenOver(s)
    BY <1>1 DEF TakenOver
  <2>2. \A n \in Managed : x # <<File(n)>>
    BY Singles
  <2> QED
    BY <1>2, <2>1, <2>2 DEF InCleanup
<1>4. /\ \A q \in TakenOver(s) : x # Kept(r, q)
      /\ \A n \in Managed : x \notin {<<File(n)>>, Staged(r, n)}
      /\ x # <<JournalOf(r.id)>>
  BY <1>1, Distinct, Singles
<1>5. \E k \in r.id..t.count : x \in {<<KeyOf(k)>>, <<TemporaryOf(k)>>}
  BY <1>2, <1>3, <1>4 DEF Frame
<1>6. \A k \in r.id..r.id : k = r.id
  BY <1>1
<1> QED
  BY <1>5, <1>6, Singles

\* What SettledExactly says of a step.
Settled ==
    pc = "unlinkJournal" /\ pc' = "unlinkKey" =>
        IF mem.phase \in UndonePhases
        THEN \A e \in ToSet(mem.previous) :
                OfTemporary(e.path) \/ Observed(e.path, e.content) = "expected"
        ELSE /\ Journals' = {}
             /\ mem.id = begun => Listed("temporary")' = {} /\ Listed("key")' = {mem.id}
             /\ mem.branch = "damaged" =>
                   \A e \in ToSet(mem.previous) :
                      Observed(Kept(mem, e.path), e.content) = "expected"

\* Only UnlinkJournal goes from one of the two steps to the other.
LEMMA OnlyUnlinking ==
    ASSUME [Next]_vars, pc = "unlinkJournal", pc' = "unlinkKey"
    PROVE  UnlinkJournal
<1>1. ~UNCHANGED vars
  BY DEF vars, process
<1>2. ~RestoreStep
  BY DEF RestoreStep, CreateKey, WriteTemporary, PublishJournal, MakeDirectory, Classify, Stage,
         Seal, Preserve, Publish
<1>3. ~RecoveryStep
  BY DEF RecoveryStep, StartRecovery, Sweep, SweepRefused, SweepDone, ReadJournal
<1>4. ~Fail /\ ~Die /\ \A id \in 1..MaxRestores : ~Begin(id)
  BY DEF Fail, Die, Begin, Idle
<1>5. SettleStep
  BY <1>1, <1>2, <1>3, <1>4 DEF Next
<1> QED
  BY <1>5 DEF SettleStep, Finish, RollbackStaging, Rollback, RollbackRefused, ReverseOperation,
              ReverseDone, CleanUp, RemoveDirectory, UnlinkKey

\* A restore whose journal goes has put everything back, or has committed.
LEMMA NextSettled == Inv /\ [Next]_vars => Settled
<1> SUFFICES ASSUME NEW b, InvOf(b), [Next]_vars, pc = "unlinkJournal", pc' = "unlinkKey"
             PROVE  Settled
  BY DEF Inv, Settled
<1>0. PICK s : s = b[mem.id]
  OBVIOUS
<1>1. /\ disk' = [q \in DOMAIN disk \ {JournalPath} |-> disk[q]]
      /\ UNCHANGED <<mem, begun>>
  BY OnlyUnlinking DEF UnlinkJournal, Unlink, Goto, history
<1>2. /\ RecordOK(mem, s) /\ Typed(s) /\ PhaseAt(s) /\ Progress(Now, s, mem)
      /\ IsLatest(Now, mem.id) /\ TemporaryPath \notin DOMAIN disk /\ mem.phase \in CleanupPhases
      /\ mem.id \in 1..begun
  <2>1. /\ RecordOK(mem, s) /\ Typed(s) /\ PhaseAt(s) /\ Progress(Now, s, mem)
        /\ IsLatest(Now, mem.id) /\ TemporaryPath \notin DOMAIN disk /\ At = pc
        /\ mem.id \in 1..begun
    BY <1>0, WorkFacts, AtWork
  <2> QED
    BY <2>1 DEF PhaseAt
<1>3. Now.disk = disk /\ Now.count = begun /\ begun \in Nat /\ SnapshotOK(Now, b)
  BY NowFacts
<1>4. ASSUME mem.phase \in UndonePhases, NEW e \in ToSet(mem.previous)
      PROVE  OfTemporary(e.path) \/ Observed(e.path, e.content) = "expected"
  <2>1. e.path \in TakenOver(s)
    BY <1>2, EntriesAre
  <2>2. Home(Now, s, mem, e.path) \/ Gone(Now, mem, e.path)
    BY <1>2, <1>4, <2>1 DEF Progress, InStaging
  <2> QED
    BY <1>2, <2>2, EntryFound DEF Gone
<1>5. ASSUME mem.phase \notin UndonePhases
      PROVE  /\ Journals' = {}
             /\ mem.id = begun => Listed("temporary")' = {} /\ Listed("key")' = {mem.id}
             /\ mem.branch = "damaged" =>
                   \A e \in ToSet(mem.previous) :
                      Observed(Kept(mem, e.path), e.content) = "expected"
  <2>1. mem.phase = "committed-cleanup"
    BY <1>2, <1>5 DEF CleanupPhases
  <2>2. Journals' = {}
    <3>1. \A i \in 1..begun : <<JournalOf(i)>> \in DOMAIN disk => i = mem.id
      BY <1>2, <1>3, <2>1, CommittedJournals DEF JournalsOf
    <3>2. \A i \in 1..begun : <<JournalOf(i)>> \notin DOMAIN disk'
      BY <1>1, <3>1 DEF JournalPath
    <3> QED
      BY <1>1, <3>2 DEF Journals, Listed, Present, Ids, JournalOf
  <2>3. ASSUME mem.id = begun PROVE Listed("temporary")' = {} /\ Listed("key")' = {mem.id}
    <3>1. \A i : <<KeyOf(i)>> \in DOMAIN disk \/ <<TemporaryOf(i)>> \in DOMAIN disk => i = mem.id
      BY <1>2, <1>3, <2>1, <2>3, CommittedTop
    <3>2. \A i : <<TemporaryOf(i)>> \notin DOMAIN disk'
      BY <1>1, <1>2, <3>1 DEF TemporaryPath
    <3>3. \A i : <<KeyOf(i)>> \in DOMAIN disk' <=> <<KeyOf(i)>> \in DOMAIN disk
      BY <1>1, Singles DEF JournalPath
    <3>4. <<KeyOf(mem.id)>> \in DOMAIN disk
      BY <1>2, <1>3 DEF SnapshotOK, LatestOK, IsLatest
    <3>5. Listed("temporary")' = {}
      BY <3>2 DEF Listed, Present, Ids, TemporaryOf
    <3>6. \A i : i \in Listed("key")' <=> i \in 1..begun /\ <<KeyOf(i)>> \in DOMAIN disk'
      BY <1>1 DEF Listed, Present, Ids, KeyOf
    <3>7. \A i : i \in Listed("key")' <=> i = mem.id
      BY <1>2, <3>1, <3>3, <3>4, <3>6
    <3> QED
      BY <3>5, <3>7
  <2>4. ASSUME mem.branch = "damaged", NEW e \in ToSet(mem.previous)
        PROVE  Observed(Kept(mem, e.path), e.content) = "expected"
    <3>1. e.path \in TakenOver(s) /\ e.content = s.disk[e.path]
      BY <1>2, EntriesAre
    <3>2. InCleanup(Now, s, mem) /\ mem.branch # "healthy"
      BY <1>2, <2>1, <2>4 DEF Progress
    <3>3. Kept(mem, e.path) \in DOMAIN disk /\ disk[Kept(mem, e.path)] = e.content
      BY <1>3, <3>1, <3>2 DEF InCleanup
    <3> QED
      BY <3>3, ObservedMeans
  <2> QED
    BY <2>2, <2>3, <2>4
<1> QED
  BY <1>4, <1>5 DEF Settled

(* A restore that is undone has put back all that it took over, and one    *)
(* that commits leaves nothing pending and, over a damaged vault, all of   *)
(* the evidence.                                                           *)
THEOREM SettlesExactly == Spec => SettledExactly
<1>1. Inv /\ [Next]_vars => [Settled]_vars
  BY NextSettled
<1> QED
  BY <1>1, Invariant, PTL DEF Spec, SettledExactly, Settled

=============================================================================
