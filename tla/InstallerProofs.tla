---------------------------- MODULE InstallerProofs ----------------------------
(***************************************************************************)
(* Proofs about Installer for any number of requests, daemons and I/O      *)
(* errors: what daemons may do to each other's trees, that the server is   *)
(* kept whole and the promise of AtomicInstall is kept, unless they        *)
(* collide: a backup is put back or made under an older stamp than         *)
(* another's.                                                              *)
(***************************************************************************)
EXTENDS Installer, FiniteSetTheorems, TLAPS

Pcs == Ended \union {"new", "recover", "restore", "prune", "stage", "build", "unpack",
                     "child", "promote", "look", "aside", "activate", "discard"}

\* The states of an installation that has not been activated.
Before == {"new", "recover", "restore", "prune", "stage", "build", "unpack", "child",
           "promote", "look", "aside", "activate"}

\* The states of an installation that has not made its backup.
Unmade == Before \ {"activate"}

\* A daemon is busy with the installation.
Active(i) == pc[i] \notin Ended \union {"new"}

\* TypeOK without the contents of the staging directories.
Types ==
  /\ pc \in [Install -> Pcs]
  /\ proc \in [Install -> Process \union {None}]
  /\ alive \subseteq Process /\ guard \subseteq alive
  /\ dest \in Tree \union {None}
  /\ staging \in [Install -> {"none", "partial", "whole"}]
  /\ backup \in [Install -> Tree \union {None}]
  /\ stamp \in [Install -> 0 .. Cardinality(Install)]
  /\ found \in [Install -> SUBSET Install]
  /\ writing \subseteq Install
  /\ faults \in 0 .. MaxFaults
  /\ retired \subseteq Version /\ collided \in BOOLEAN

\* A daemon is busy with one installation at most, and a child writes only while
\* its installation waits for it or has ended.
Guarded ==
  /\ \A i \in Install : Active(i) => proc[i] \in guard
  /\ \A i, j \in Install : Active(i) /\ Active(j) /\ proc[i] = proc[j] => i = j
  /\ \A i \in writing : pc[i] = "child" \/ pc[i] \in Ended

\* No two stamps are the same, and a backup has one.
Stamped ==
  /\ \A j, k \in Install : stamp[j] = stamp[k] /\ stamp[j] > 0 => j = k
  /\ \A j \in Install : backup[j] # None => stamp[j] > 0 /\ pc[j] \notin Unmade
  /\ \A j \in Install : pc[j] \in {"look", "aside", "activate"} => stamp[j] > 0

\* A recovery lists backups of its own daemon or of dead ones, and an
\* installation that is about to delete its backup has one.
Listed ==
  /\ \A i \in Install : \A j \in found[i] :
        pc[j] \notin Unmade /\ (proc[j] = proc[i] \/ proc[j] \notin alive)
  /\ \A i \in Install : pc[i] = "discard" => backup[i] # None
  /\ \A i \in Install : pc[i] = "new" => found[i] = {}

\* What has not been activated is nowhere yet.
Unused ==
  \A i \in Install : pc[i] \in Before =>
     /\ i \notin retired
     /\ dest # None => dest.version # i
     /\ \A j \in Install : backup[j] # None => backup[j].version # i

\* The inductive invariant that needs nothing of the archives.
Base == Types /\ Guarded /\ Stamped /\ Listed /\ Unused

\* No archive is accepted that was not unpacked to its end: a fact about folds
\* over the entries of a tar or a zip.
ArchivesComplete == \A a \in Archive : Unpacked(a).ok => Unpacked(a).whole

\* What is about to be promoted is complete.
Complete == \A i \in Install : pc[i] \in {"promote", "look", "aside", "activate"}
                                 => staging[i] = "whole"

\* A backup is being deleted, or is listed to be; it is the newest.
Doomed(j) == pc[j] = "discard" \/ \E i \in Install : pc[i] = "prune" /\ j \in found[i]
Latest(j) == backup[j] # None /\ \A k \in Install : backup[k] # None => stamp[k] <= stamp[j]

-----------------------------------------------------------------------------
(* Induction, and the folds over the entries of an archive.                *)

\* A set of numbers has a least one: how what follows is proved by induction.
LEMMA LeastNumber ==
  ASSUME NEW T \in SUBSET Nat, T # {}
  PROVE  \E m \in T : \A k \in T : m <= k
  <1> DEFINE Upto(n) == 0 .. n
             Sets == {Upto(n) : n \in T}
  <1>1. \A n \in Nat : Upto(n) \in FiniteSubsetsOf(Nat)
    <2> TAKE n \in Nat
    <2>1. IsFiniteSet(Upto(n))
      BY FS_Interval
    <2> QED
      BY <2>1 DEF FiniteSubsetsOf
  <1>2. Sets \subseteq FiniteSubsetsOf(Nat) /\ Sets # {}
    <2> HIDE DEF Upto
    <2> QED
      BY <1>1
  <1>3. PICK t \in Sets : \A u \in Sets : ~(<<u, t>> \in StrictSubsetOrdering(Nat))
    BY <1>2, FS_StrictSubsetOrderingWellFounded, WFMin
  <1>4. PICK m \in T : t = Upto(m)
    OBVIOUS
  <1>5. ASSUME NEW k \in T, k < m PROVE FALSE
    <2>1. Upto(k) \subseteq Upto(m) /\ m \in Upto(m) /\ m \notin Upto(k)
          /\ Upto(m) \in SUBSET Nat
      BY <1>5
    <2>2. <<Upto(k), Upto(m)>> \in StrictSubsetOrdering(Nat)
      BY <2>1 DEF StrictSubsetOrdering
    <2> QED
      BY <1>3, <1>4, <2>2
  <1> QED
    BY <1>5

\* Induction for a set of numbers.
LEMMA SetOfAllNumbers ==
  ASSUME NEW T \in SUBSET Nat, 0 \in T, \A m \in T : m + 1 \in T
  PROVE  T = Nat
  <1> SUFFICES ASSUME Nat \ T # {} PROVE FALSE
    OBVIOUS
  <1>1. PICK m \in Nat \ T : \A k \in Nat \ T : m <= k
    <2>1. Nat \ T \in SUBSET Nat
      OBVIOUS
    <2> QED
      BY <2>1, LeastNumber
  <1>2. m # 0 /\ m - 1 \in Nat
    BY <1>1
  <1>3. m - 1 \in T
    BY <1>1, <1>2
  <1> QED
    BY <1>1, <1>2, <1>3

\* The greatest of the numbers up to m is m, if it is among them.
LEMMA MaxOfUpto ==
  ASSUME NEW m \in Nat, NEW S \in SUBSET (1 .. m), m \in S
  PROVE  Max(S) = m
  <1>1. \A x \in S : (\A y \in S : x >= y) <=> x = m
    OBVIOUS
  <1> QED
    BY <1>1 DEF Max

\* What a tar or a zip makes of its next entry.
Taken(zip, state, e) == IF zip THEN ZipEntry(state, e) ELSE TarEntry(state, e)

\* h is the function that a fold of the first m of the entries s recurs on.
Reading(h, zip, t, s, m) ==
  h = [S \in SUBSET (1 .. m) |->
         IF S = {} THEN t ELSE Taken(zip, h[S \ {Max(S)}], s[Max(S)])]

\* As long as it is ok, a state of the unpacking has counted k entries.
Counted(r, k) ==
  {"ok", "count"} \subseteq DOMAIN r /\ r.ok \in BOOLEAN /\ (r.ok => r.count = k)

\* There is such a function.
LEMMA ReadingExists ==
  ASSUME NEW zip, NEW t, NEW s, NEW n \in Nat
  PROVE  \E h : Reading(h, zip, t, s, n)
  <1> DEFINE Good == {m \in Nat : \E h : Reading(h, zip, t, s, m)}
  <1>1. 0 \in Good
    <2>1. PICK h : h = [S \in SUBSET (1 .. 0) |-> t]
      OBVIOUS
    <2>2. \A S \in SUBSET (1 .. 0) : S = {}
      OBVIOUS
    <2>3. Reading(h, zip, t, s, 0)
      BY <2>1, <2>2 DEF Reading
    <2> QED
      BY <2>3
  <1>2. ASSUME NEW k \in Good PROVE k + 1 \in Good
    <2>0. k \in Nat /\ k + 1 \in Nat
      OBVIOUS
    <2>1. PICK f : Reading(f, zip, t, s, k)
      OBVIOUS
    <2> DEFINE m == k + 1
               g == [S \in SUBSET (1 .. m) |->
                       IF m \in S THEN Taken(zip, f[S \ {m}], s[m]) ELSE f[S]]
    <2>2. ASSUME NEW S \in SUBSET (1 .. m)
          PROVE  g[S] = IF S = {} THEN t ELSE Taken(zip, g[S \ {Max(S)}], s[Max(S)])
      <3>1. S \ {Max(S)} \in SUBSET (1 .. m) /\ m \in Nat
        BY <2>0
      <3>2. CASE m \in S
        <4>1. Max(S) = m
          BY <3>1, <3>2, MaxOfUpto
        <4>2. g[S \ {m}] = f[S \ {m}]
          BY <3>1
        <4> QED
          BY <3>2, <4>1, <4>2
      <3>3. CASE m \notin S
        <4>1. S \in SUBSET (1 .. k)
          BY <3>3
        <4>2. f[S] = IF S = {} THEN t ELSE Taken(zip, f[S \ {Max(S)}], s[Max(S)])
          BY <2>1, <4>1 DEF Reading
        <4>3. g[S \ {Max(S)}] = f[S \ {Max(S)}]
          BY <3>1, <3>3
        <4> QED
          BY <3>3, <4>2, <4>3
      <3> QED
        BY <3>2, <3>3
    <2>3. Reading(g, zip, t, s, m)
      BY <2>2 DEF Reading
    <2>4. \E h : Reading(h, zip, t, s, k + 1)
      BY <2>3
    <2> QED
      BY <2>0, <2>4
  <1>3. Good \in SUBSET Nat
    OBVIOUS
  <1>4. Good = Nat
    <2> HIDE DEF Good
    <2> QED
      BY <1>1, <1>2, <1>3, SetOfAllNumbers
  <1> QED
    BY <1>4

\* One more entry is counted, or the archive is refused.
LEMMA TakenCounts ==
  ASSUME NEW zip, NEW r, NEW e, NEW k \in Nat, Counted(r, k)
  PROVE  Counted(Taken(zip, r, e), k + 1)
  <1>1. CASE zip
    BY <1>1 DEF Counted, Taken, ZipEntry
  <1>2. CASE ~zip
    BY <1>2 DEF Counted, Taken, TarEntry
  <1> QED
    BY <1>1, <1>2

\* So all are counted, unless it is refused.
LEMMA ReadingCounts ==
  ASSUME NEW zip, NEW t, NEW s, NEW n \in Nat, NEW h, Reading(h, zip, t, s, n),
         Counted(t, 0)
  PROVE  Counted(h[1 .. n], n)
  <1> DEFINE Good == {k \in Nat : k <= n => Counted(h[1 .. k], k)}
  <1>1. 0 \in Good
    <2>1. {} \in SUBSET (1 .. n) /\ 1 .. 0 = {}
      OBVIOUS
    <2>2. h[{}] = t
      BY <2>1 DEF Reading
    <2> QED
      BY <2>1, <2>2
  <1>2. ASSUME NEW k \in Good PROVE k + 1 \in Good
    <2> SUFFICES ASSUME k \in Nat, k + 1 <= n PROVE Counted(h[1 .. k + 1], k + 1)
      OBVIOUS
    <2> DEFINE S == 1 .. k + 1
    <2>1. k <= n /\ Counted(h[1 .. k], k)
      OBVIOUS
    <2>2. S \in SUBSET (1 .. n) /\ k + 1 \in S /\ S # {} /\ S \ {k + 1} = 1 .. k
      <3>1. S \subseteq 1 .. n
        OBVIOUS
      <3>2. k + 1 \in S
        OBVIOUS
      <3>3. S \ {k + 1} = 1 .. k
        OBVIOUS
      <3> QED
        BY <3>1, <3>2, <3>3
    <2>3. Max(S) = k + 1
      <3>1. k + 1 \in Nat /\ S \in SUBSET (1 .. k + 1)
        OBVIOUS
      <3> HIDE DEF S
      <3> QED
        BY <2>2, <3>1, MaxOfUpto
    <2>4. h[S] = Taken(zip, h[1 .. k], s[k + 1])
      <3>1. h[S] = Taken(zip, h[S \ {Max(S)}], s[Max(S)])
        BY <2>2 DEF Reading
      <3> QED
        BY <2>2, <2>3, <3>1
    <2> HIDE DEF S
    <2>5. Counted(h[S], k + 1)
      BY <2>1, <2>4, TakenCounts
    <2> QED
      BY <2>5 DEF S
  <1>3. Good \in SUBSET Nat
    OBVIOUS
  <1>4. n \in Good
    <2> HIDE DEF Good
    <2> QED
      BY <1>1, <1>2, <1>3, SetOfAllNumbers
  <1> QED
    BY <1>4

\* A tar that is accepted was unpacked to its end (extract_tar_gz).
LEMMA TarComplete ==
  ASSUME NEW s \in Seq([size : Nat, fine : BOOLEAN]), UnpackTar(s).ok
  PROVE  UnpackTar(s).whole
  <1> DEFINE n == Len(s)
             t == [ok |-> TRUE, count |-> 0, bytes |-> 0]
             F == CHOOSE h : h = [S \in SUBSET (1 .. n) |->
                    IF S = {} THEN t ELSE TarEntry(h[S \ {Max(S)}], s[Max(S)])]
  <1>1. n \in Nat /\ DOMAIN s = 1 .. n
    OBVIOUS
  <1>2. FoldLeft(TarEntry, t, s) = F[1 .. n]
    BY <1>1 DEF FoldLeft, MapThenFoldSet
  <1>3. Reading(F, FALSE, t, s, n)
    <2>1. \E h : Reading(h, FALSE, t, s, n)
      BY <1>1, ReadingExists
    <2> QED
      BY <2>1 DEF Reading, Taken
  <1>4. Counted(t, 0)
    BY DEF Counted
  <1> HIDE DEF F
  <1>5. Counted(F[1 .. n], n)
    <2> HIDE DEF n, t
    <2> QED
      BY <1>1, <1>3, <1>4, ReadingCounts
  <1> HIDE DEF t, n
  <1>6. UnpackTar(s) = [ok |-> F[1 .. n].ok, whole |-> F[1 .. n].count = n]
    BY <1>2 DEF UnpackTar, t, n
  <1> QED
    BY <1>5, <1>6 DEF Counted

\* A zip that is accepted was unpacked to its end (extract_zip_within).
LEMMA ZipComplete ==
  ASSUME NEW s \in Seq([size : Nat, fine : BOOLEAN]), UnpackZip(s).ok
  PROVE  UnpackZip(s).whole
  <1> DEFINE n == Len(s)
             t == [ok |-> Len(s) <= MaxEntries, count |-> 0, left |-> Limit]
             F == CHOOSE h : h = [S \in SUBSET (1 .. n) |->
                    IF S = {} THEN t ELSE ZipEntry(h[S \ {Max(S)}], s[Max(S)])]
  <1>1. n \in Nat /\ DOMAIN s = 1 .. n
    OBVIOUS
  <1>2. FoldLeft(ZipEntry, t, s) = F[1 .. n]
    BY <1>1 DEF FoldLeft, MapThenFoldSet
  <1>3. Reading(F, TRUE, t, s, n)
    <2>1. \E h : Reading(h, TRUE, t, s, n)
      BY <1>1, ReadingExists
    <2> QED
      BY <2>1 DEF Reading, Taken
  <1>4. Counted(t, 0)
    BY DEF Counted
  <1> HIDE DEF F
  <1>5. Counted(F[1 .. n], n)
    <2> HIDE DEF n, t
    <2> QED
      BY <1>1, <1>3, <1>4, ReadingCounts
  <1> HIDE DEF t, n
  <1>6. UnpackZip(s) = [ok |-> F[1 .. n].ok, whole |-> F[1 .. n].count = n]
    BY <1>2 DEF UnpackZip, t, n
  <1> QED
    BY <1>5, <1>6 DEF Counted

\* No archive is accepted that was not unpacked to its end.
THEOREM ArchivesAreComplete == ArchivesComplete
  <1> SUFFICES ASSUME NEW a \in Archive, Unpacked(a).ok PROVE Unpacked(a).whole
    BY DEF ArchivesComplete
  <1>1. /\ a.kind \in {"gz", "tar", "zip"}
        /\ a.entries \in Seq([size : Nat, fine : BOOLEAN])
    BY ArchiveAssumption
  <1>2. CASE a.kind = "gz"
    BY <1>2 DEF Unpacked, UnpackGz
  <1>3. CASE a.kind = "tar"
    <2>1. Unpacked(a) = UnpackTar(a.entries)
      BY <1>3 DEF Unpacked
    <2> QED
      BY <1>1, <2>1, TarComplete
  <1>4. CASE a.kind = "zip"
    <2>1. Unpacked(a) = UnpackZip(a.entries)
      BY <1>4 DEF Unpacked
    <2> QED
      BY <1>1, <2>1, ZipComplete
  <1> QED
    BY <1>1, <1>2, <1>3, <1>4

-----------------------------------------------------------------------------
(* Lemmas about the operators.                                             *)

\* Among finitely many stamps there is a greatest.
LEMMA Greatest ==
  ASSUME NEW f \in [Install -> Nat], NEW s \in SUBSET Install, s # {}
  PROVE  \E j \in s : \A k \in s : f[k] <= f[j]
  <1> DEFINE Above(j) == {k \in s : f[k] > f[j]}
             Sets == {Above(j) : j \in s}
  <1>1. IsFiniteSet(s)
    BY InstallerAssumption, FS_Subset
  <1>2. \A j \in s : Above(j) \in FiniteSubsetsOf(s)
    <2> TAKE j \in s
    <2>1. Above(j) \in SUBSET s
      OBVIOUS
    <2> QED
      BY <1>1, <2>1, FS_Subset DEF FiniteSubsetsOf
  <1>3. Sets \subseteq FiniteSubsetsOf(s) /\ Sets # {}
    <2>1. PICK j \in s : TRUE
      OBVIOUS
    <2>2. Above(j) \in Sets
      BY <2>1
    <2>3. ASSUME NEW t \in Sets PROVE t \in FiniteSubsetsOf(s)
      <3>1. PICK k \in s : t = Above(k)
        BY <2>3
      <3> HIDE DEF Above
      <3> QED
        BY <1>2, <3>1
    <2> HIDE DEF Above, Sets
    <2> QED
      BY <2>2, <2>3
  <1>4. PICK t \in Sets : \A u \in Sets : ~(<<u, t>> \in StrictSubsetOrdering(s))
    BY <1>3, FS_StrictSubsetOrderingWellFounded, WFMin
  <1>5. PICK j \in s : t = Above(j)
    OBVIOUS
  <1>6. ASSUME NEW k \in s, f[k] > f[j] PROVE FALSE
    <2>1. Above(k) \subseteq Above(j) /\ k \in Above(j) /\ k \notin Above(k)
      <3>1. \A l \in s : f[l] \in Nat
        OBVIOUS
      <3> QED
        BY <1>6, <3>1
    <2>2. <<Above(k), Above(j)>> \in StrictSubsetOrdering(s)
      BY <2>1 DEF StrictSubsetOrdering
    <2> QED
      BY <1>4, <1>5, <2>2
  <1>7. \A k \in s : f[k] <= f[j]
    <2>1. \A l \in s : f[l] \in Nat
      OBVIOUS
    <2> QED
      BY <1>6, <2>1
  <1> QED
    BY <1>7

\* And a least.
LEMMA Least ==
  ASSUME NEW f \in [Install -> Nat], NEW s \in SUBSET Install, s # {}
  PROVE  \E j \in s : \A k \in s : f[j] <= f[k]
  <1> DEFINE Below(j) == {k \in s : f[k] < f[j]}
             Sets == {Below(j) : j \in s}
  <1>1. IsFiniteSet(s)
    BY InstallerAssumption, FS_Subset
  <1>2. \A j \in s : Below(j) \in FiniteSubsetsOf(s)
    <2> TAKE j \in s
    <2>1. Below(j) \in SUBSET s
      OBVIOUS
    <2> QED
      BY <1>1, <2>1, FS_Subset DEF FiniteSubsetsOf
  <1>3. Sets \subseteq FiniteSubsetsOf(s) /\ Sets # {}
    <2>1. PICK j \in s : TRUE
      OBVIOUS
    <2>2. Below(j) \in Sets
      BY <2>1
    <2>3. ASSUME NEW t \in Sets PROVE t \in FiniteSubsetsOf(s)
      <3>1. PICK k \in s : t = Below(k)
        BY <2>3
      <3> HIDE DEF Below
      <3> QED
        BY <1>2, <3>1
    <2> HIDE DEF Below, Sets
    <2> QED
      BY <2>2, <2>3
  <1>4. PICK t \in Sets : \A u \in Sets : ~(<<u, t>> \in StrictSubsetOrdering(s))
    BY <1>3, FS_StrictSubsetOrderingWellFounded, WFMin
  <1>5. PICK j \in s : t = Below(j)
    OBVIOUS
  <1>6. ASSUME NEW k \in s, f[k] < f[j] PROVE FALSE
    <2>1. Below(k) \subseteq Below(j) /\ k \in Below(j) /\ k \notin Below(k)
      <3>1. \A l \in s : f[l] \in Nat
        OBVIOUS
      <3> QED
        BY <1>6, <3>1
    <2>2. <<Below(k), Below(j)>> \in StrictSubsetOrdering(s)
      BY <2>1 DEF StrictSubsetOrdering
    <2> QED
      BY <1>4, <1>5, <2>2
  <1>7. \A k \in s : f[j] <= f[k]
    <2>1. \A l \in s : f[l] \in Nat
      OBVIOUS
    <2> QED
      BY <1>6, <2>1
  <1> QED
    BY <1>7

\* The number of installations.
LEMMA Count ==
  /\ Cardinality(Install) \in Nat
  /\ \A s \in SUBSET Install : /\ IsFiniteSet(s) /\ Cardinality(s) \in Nat
                               /\ Cardinality(s) <= Cardinality(Install)
  <1>1. Cardinality(Install) \in Nat
    BY InstallerAssumption, FS_CardinalityType
  <1>2. ASSUME NEW s \in SUBSET Install
        PROVE  /\ IsFiniteSet(s) /\ Cardinality(s) \in Nat
               /\ Cardinality(s) <= Cardinality(Install)
    <2>1. IsFiniteSet(s) /\ Cardinality(s) <= Cardinality(Install)
      BY InstallerAssumption, FS_Subset
    <2> QED
      BY <2>1, FS_CardinalityType
  <1> QED
    BY <1>1, <1>2

\* Newest and Oldest choose what they say.
LEMMA Chosen ==
  ASSUME Types, NEW s \in SUBSET Install, s # {}
  PROVE  /\ Newest(s) \in s /\ \A k \in s : stamp[k] <= stamp[Newest(s)]
         /\ Oldest(s) \in s
  <1>1. stamp \in [Install -> Nat]
    BY Count DEF Types
  <1>2. \E j \in s : \A k \in s : stamp[k] <= stamp[j]
    BY <1>1, Greatest
  <1>3. \E j \in s : \A k \in s : stamp[j] <= stamp[k]
    BY <1>1, Least
  <1> QED
    BY <1>2, <1>3 DEF Newest, Oldest

\* What a backup or the active tree is.
LEMMA Trees ==
  ASSUME Types
  PROVE  /\ dest # None => dest \in Tree /\ dest.version \in Version
         /\ \A j \in Install : backup[j] # None => /\ backup[j] \in Tree
                                                   /\ backup[j].version \in Version
         /\ \A j \in Install : Whole(backup[j]) => backup[j] # None
         /\ None \notin Tree /\ None \notin Version
         /\ \A v \in Version, b \in BOOLEAN : [version |-> v, whole |-> b] \in Tree
  BY InstallerAssumption DEF Types, Tree, Whole

\* Without an active tree, what a recovery would find is one of the backups.
LEMMA KeptTree ==
  ASSUME Types, dest = None
  PROVE  Kept = None \/ \E j \in Install : backup[j] # None /\ Kept = backup[j]
  <1> DEFINE backups == {j \in Install : backup[j] # None}
  <1>1. backups \subseteq Install
    OBVIOUS
  <1>2. CASE backups = {}
    BY <1>2 DEF Kept
  <1>3. CASE backups # {}
    <2>1. Newest(backups) \in backups
      BY <1>1, <1>3, Chosen
    <2>2. Kept = backup[Newest(backups)]
      BY <1>3 DEF Kept
    <2> QED
      BY <2>1, <2>2
  <1> QED
    BY <1>2, <1>3

\* A step of installation i that may end it keeps daemons busy with one at most.
LEMMA GuardedStep ==
  ASSUME Types, Guarded, NEW i \in Install, Active(i),
         UNCHANGED <<proc, alive>>, pc' \in [Install -> Pcs], pc'[i] # "new",
         \A j \in Install : j # i => pc'[j] = pc[j],
         guard' = IF pc'[i] \in Ended THEN guard \ {proc[i]} ELSE guard,
         \A j \in writing' : \/ j \in writing /\ j # i
                             \/ j = i /\ (pc'[i] = "child" \/ pc'[i] \in Ended)
  PROVE  Guarded'
  <1>1. \A j \in Install : Active(j)' => Active(j)
    BY DEF Active, Ended
  <1>2. \A j \in Install : Active(j)' => proc'[j] \in guard'
    <2> TAKE j \in Install
    <2> SUFFICES ASSUME Active(j)' PROVE proc[j] \in guard'
      OBVIOUS
    <2>1. Active(j) /\ proc[j] \in guard
      BY <1>1 DEF Guarded
    <2>2. CASE j = i
      BY <2>1, <2>2 DEF Active
    <2>3. CASE j # i
      BY <2>1, <2>3 DEF Guarded
    <2> QED
      BY <2>2, <2>3
  <1>3. \A j, k \in Install : Active(j)' /\ Active(k)' /\ proc'[j] = proc'[k] => j = k
    BY <1>1 DEF Guarded
  <1>4. \A j \in writing' : pc'[j] = "child" \/ pc'[j] \in Ended
    BY DEF Guarded, Types
  <1> QED
    BY <1>2, <1>3, <1>4 DEF Guarded

-----------------------------------------------------------------------------
\* A step preserves what needs nothing of the archives.
LEMMA BaseStep == Base /\ [Next]_vars => Base'
  <1> SUFFICES ASSUME Base, [Next]_vars PROVE Base'
    OBVIOUS
  <1>0. Types /\ Guarded /\ Stamped /\ Listed /\ Unused
    BY DEF Base
  <1>1. ASSUME NEW i \in Install, Recover(i) PROVE Base'
    <2>1. pc[i] \in {"recover"} /\ UNCHANGED <<proc, alive, dest, backup, stamp,
                                               writing, faults, retired, collided>>
      BY <1>1 DEF Recover, Live, disk, history
    <2>2. /\ pc' \in [Install -> Pcs] /\ pc'[i] \in {"restore"}
          /\ \A j \in Install : j # i => pc'[j] = pc[j]
          /\ guard' = IF pc'[i] \in Ended THEN guard \ {proc[i]} ELSE guard
      <3>1. \E to \in {"restore"} : /\ pc' = [pc EXCEPT ![i] = to]
                          /\ guard' = IF to \in Ended THEN guard \ {proc[i]} ELSE guard
        BY <1>1 DEF Recover, End, Go, Ended
      <3>2. pc \in [Install -> Pcs]
        BY <1>0 DEF Types
      <3> QED
        BY <3>1, <3>2 DEF Pcs, Ended
    <2>3. /\ staging' \in [Install -> {"none", "partial", "whole"}]
          /\ found' \in [Install -> SUBSET Install]
          /\ \A j \in Install : j # i => found'[j] = found[j]
          /\ \A j \in found'[i] : backup[j] # None /\ (proc[j] = proc[i] \/ proc[j] \notin alive)
      BY <1>0, <1>1 DEF Types, Recover, Stale
    <2>4. Types'
      BY <1>0, <2>1, <2>2, <2>3, Count DEF Types
    <2>5. Guarded'
      BY <1>0, <2>1, <2>2, <2>3, GuardedStep DEF Active, Ended, Guarded, Types
    <2>6. Stamped'
      BY <1>0, <2>1, <2>2, <2>3 DEF Stamped, Unmade, Before, Ended
    <2>7. Listed'
      BY <1>0, <2>1, <2>2, <2>3 DEF Listed, Stamped, Unmade, Before, Types
    <2>8. Unused'
      BY <1>0, <2>1, <2>2, <2>3 DEF Unused, Before, Ended
    <2> QED
      BY <2>4, <2>5, <2>6, <2>7, <2>8 DEF Base
  <1>2. ASSUME NEW i \in Install, Restore(i) PROVE Base'
    <2>1. pc[i] \in {"restore"} /\ UNCHANGED <<proc, alive, staging, stamp, writing,
                                               faults, retired>>
      BY <1>2 DEF Restore, Live, disk, history
    <2>2. /\ pc' \in [Install -> Pcs] /\ pc'[i] \in {"prune", "failed"}
          /\ \A j \in Install : j # i => pc'[j] = pc[j]
          /\ guard' = IF pc'[i] \in Ended THEN guard \ {proc[i]} ELSE guard
      <3>1. \E to \in {"prune", "failed"} : /\ pc' = [pc EXCEPT ![i] = to]
                          /\ guard' = IF to \in Ended THEN guard \ {proc[i]} ELSE guard
        BY <1>2 DEF Restore, End, Go, Ended
      <3>2. pc \in [Install -> Pcs]
        BY <1>0 DEF Types
      <3> QED
        BY <3>1, <3>2 DEF Pcs, Ended
    <2>3. \/ UNCHANGED <<dest, backup, found, collided>>
          \/ \E n \in found[i] :
                /\ dest = None /\ backup[n] # None /\ dest' = backup[n]
                /\ backup' = [backup EXCEPT ![n] = None]
                /\ found' = [found EXCEPT ![i] = @ \ {n}] /\ collided' \in BOOLEAN
      <3>1. found[i] # {} => Newest(found[i]) \in found[i]
        BY <1>0, Chosen DEF Types
      <3>2. (collided \/ Overlooks(Newest(found[i]))) \in BOOLEAN
        BY DEF Overlooks
      <3> QED
        BY <1>2, <3>1, <3>2 DEF Restore
    <2>4. \A n \in found[i] : pc[n] # "discard" /\ n \in Install
      <3>1. \A n \in found[i] : n \in Install /\ (proc[n] = proc[i] \/ proc[n] \notin alive)
        BY <1>0 DEF Listed, Types
      <3>2. proc[i] \in guard /\ Active(i)
        BY <1>0, <2>1 DEF Guarded, Active, Ended
      <3> QED
        BY <1>0, <2>1, <3>1, <3>2 DEF Guarded, Active, Ended, Types
    <2>5. /\ dest' \in Tree \union {None} /\ backup' \in [Install -> Tree \union {None}]
          /\ found' \in [Install -> SUBSET Install] /\ collided' \in BOOLEAN
          /\ \A j \in Install : found'[j] \subseteq found[j]
          /\ \A j \in Install : backup'[j] # None => backup'[j] = backup[j]
          /\ dest' = dest \/ \E n \in Install : backup[n] # None /\ dest' = backup[n]
          /\ \A j \in Install : pc[j] = "discard" => backup'[j] = backup[j]
      BY <1>0, <2>3, <2>4 DEF Types
    <2>6. Types'
      BY <1>0, <2>1, <2>2, <2>5 DEF Types
    <2>7. Guarded'
      BY <1>0, <2>1, <2>2, <2>3, <2>4, <2>5, GuardedStep
         DEF Active, Ended, Guarded, Types
    <2>8. Stamped'
      BY <1>0, <2>1, <2>2, <2>5 DEF Stamped, Unmade, Before, Ended
    <2>9. Listed'
      BY <1>0, <2>1, <2>2, <2>5 DEF Listed, Unmade, Before, Ended, Types
    <2>10. Unused'
      BY <1>0, <2>1, <2>2, <2>5 DEF Unused, Before, Ended
    <2> QED
      BY <2>6, <2>7, <2>8, <2>9, <2>10 DEF Base
  <1>3. ASSUME NEW i \in Install, Prune(i) PROVE Base'
    <2>1. pc[i] \in {"prune"} /\ UNCHANGED <<proc, alive, dest, staging, stamp,
                                             writing, retired, collided>>
      BY <1>3 DEF Prune, Live, disk, history
    <2>2. /\ pc' \in [Install -> Pcs] /\ pc'[i] \in {"prune", "stage"}
          /\ \A j \in Install : j # i => pc'[j] = pc[j]
          /\ guard' = IF pc'[i] \in Ended THEN guard \ {proc[i]} ELSE guard
      <3>1. \/ UNCHANGED <<pc, guard>>
            \/ pc' = [pc EXCEPT ![i] = "stage"] /\ guard' = guard
        BY <1>3 DEF Prune, End, Go
      <3> QED
        BY <1>0, <2>1, <3>1 DEF Types, Pcs, Ended
    <2>3. \/ UNCHANGED <<backup, found, faults>>
          \/ \E n \in found[i] :
                \/ /\ Whole(backup[n]) /\ backup' = [backup EXCEPT ![n].whole = FALSE]
                   /\ UNCHANGED <<found, faults>>
                \/ /\ backup' = [backup EXCEPT ![n] = None] /\ UNCHANGED faults
                   /\ found' = [found EXCEPT ![i] = @ \ {n}]
                \/ /\ found' = [found EXCEPT ![i] = @ \ {n}] /\ backup' = backup
                   /\ faults < MaxFaults /\ faults' = faults + 1
      <3>1. found[i] # {} => Oldest(found[i]) \in found[i]
        BY <1>0, Chosen DEF Types
      <3> QED
        BY <1>3, <3>1 DEF Prune, Fault
    <2>4. \A n \in found[i] : pc[n] # "discard" /\ n \in Install
      <3>1. \A n \in found[i] : n \in Install /\ (proc[n] = proc[i] \/ proc[n] \notin alive)
        BY <1>0 DEF Listed, Types
      <3>2. proc[i] \in guard /\ Active(i)
        BY <1>0, <2>1 DEF Guarded, Active, Ended
      <3> QED
        BY <1>0, <2>1, <3>1, <3>2 DEF Guarded, Active, Ended, Types
    <2>5. /\ backup' \in [Install -> Tree \union {None}]
          /\ found' \in [Install -> SUBSET Install] /\ faults' \in 0 .. MaxFaults
          /\ \A j \in Install : found'[j] \subseteq found[j]
          /\ \A j \in Install : backup'[j] # None =>
                backup[j] # None /\ backup'[j].version = backup[j].version
          /\ \A j \in Install : pc[j] = "discard" => backup'[j] = backup[j]
      <3>1. CASE UNCHANGED <<backup, found, faults>>
        BY <1>0, <3>1 DEF Types
      <3>2. ASSUME NEW n \in found[i], Whole(backup[n]),
                   backup' = [backup EXCEPT ![n].whole = FALSE], UNCHANGED <<found, faults>>
            PROVE  /\ backup' \in [Install -> Tree \union {None}]
                   /\ found' \in [Install -> SUBSET Install] /\ faults' \in 0 .. MaxFaults
                   /\ \A j \in Install : found'[j] \subseteq found[j]
                   /\ \A j \in Install : backup'[j] # None =>
                         backup[j] # None /\ backup'[j].version = backup[j].version
                   /\ \A j \in Install : pc[j] = "discard" => backup'[j] = backup[j]
        <4>1. backup[n] \in Tree /\ backup[n] # None /\ n \in Install /\ pc[n] # "discard"
          BY <1>0, <2>4, <3>2, Trees
        <4> QED
          BY <1>0, <3>2, <4>1, InstallerAssumption DEF Types, Tree
      <3>3. ASSUME NEW n \in found[i], backup' = [backup EXCEPT ![n] = None], UNCHANGED faults,
                   found' = [found EXCEPT ![i] = @ \ {n}]
            PROVE  /\ backup' \in [Install -> Tree \union {None}]
                   /\ found' \in [Install -> SUBSET Install] /\ faults' \in 0 .. MaxFaults
                   /\ \A j \in Install : found'[j] \subseteq found[j]
                   /\ \A j \in Install : backup'[j] # None =>
                         backup[j] # None /\ backup'[j].version = backup[j].version
                   /\ \A j \in Install : pc[j] = "discard" => backup'[j] = backup[j]
        BY <1>0, <2>4, <3>3 DEF Types
      <3>4. ASSUME NEW n \in found[i], backup' = backup,
                   found' = [found EXCEPT ![i] = @ \ {n}],
                   faults < MaxFaults, faults' = faults + 1
            PROVE  /\ backup' \in [Install -> Tree \union {None}]
                   /\ found' \in [Install -> SUBSET Install] /\ faults' \in 0 .. MaxFaults
                   /\ \A j \in Install : found'[j] \subseteq found[j]
                   /\ \A j \in Install : backup'[j] # None =>
                         backup[j] # None /\ backup'[j].version = backup[j].version
                   /\ \A j \in Install : pc[j] = "discard" => backup'[j] = backup[j]
        BY <1>0, <3>4, InstallerAssumption DEF Types
      <3> QED
        BY <2>3, <3>1, <3>2, <3>3, <3>4
    <2>6. Types'
      BY <1>0, <2>1, <2>2, <2>5 DEF Types
    <2>7. Guarded'
      BY <1>0, <2>1, <2>2, <2>3, <2>4, <2>5, GuardedStep
         DEF Active, Ended, Guarded, Types
    <2>8. Stamped'
      BY <1>0, <2>1, <2>2, <2>5 DEF Stamped, Unmade, Before, Ended
    <2>9. Listed'
      BY <1>0, <2>1, <2>2, <2>5 DEF Listed, Unmade, Before, Ended, Types
    <2>10. Unused'
      BY <1>0, <2>1, <2>2, <2>5 DEF Unused, Before, Ended
    <2> QED
      BY <2>6, <2>7, <2>8, <2>9, <2>10 DEF Base
  <1>4. ASSUME NEW i \in Install, Stage(i) PROVE Base'
    <2>1. pc[i] \in {"stage"} /\ UNCHANGED <<proc, alive, dest, backup, stamp,
                                             found, writing, faults, retired,
                                             collided>>
      BY <1>4 DEF Stage, Live, disk, history
    <2>2. /\ pc' \in [Install -> Pcs] /\ pc'[i] \in {"build"}
          /\ \A j \in Install : j # i => pc'[j] = pc[j]
          /\ guard' = IF pc'[i] \in Ended THEN guard \ {proc[i]} ELSE guard
      <3>1. \E to \in {"build"} : /\ pc' = [pc EXCEPT ![i] = to]
                          /\ guard' = IF to \in Ended THEN guard \ {proc[i]} ELSE guard
        BY <1>4 DEF Stage, End, Go, Ended
      <3>2. pc \in [Install -> Pcs]
        BY <1>0 DEF Types
      <3> QED
        BY <3>1, <3>2 DEF Pcs, Ended
    <2>3. staging' \in [Install -> {"none", "partial", "whole"}]
      BY <1>0, <1>4 DEF Types, Stage, Cleaned
    <2>4. Types'
      BY <1>0, <2>1, <2>2, <2>3, Count DEF Types
    <2>5. Guarded'
      BY <1>0, <2>1, <2>2, <2>3, GuardedStep DEF Active, Ended, Guarded, Types
    <2>6. Stamped'
      BY <1>0, <2>1, <2>2, <2>3 DEF Stamped, Unmade, Before, Ended
    <2>7. Listed'
      BY <1>0, <2>1, <2>2, <2>3 DEF Listed, Unmade, Before, Ended, Types
    <2>8. Unused'
      BY <1>0, <2>1, <2>2, <2>3 DEF Unused, Before, Ended
    <2> QED
      BY <2>4, <2>5, <2>6, <2>7, <2>8 DEF Base
  <1>5. ASSUME NEW i \in Install, EarlyError(i) PROVE Base'
    <2>1. pc[i] \in {"restore", "stage"} /\ UNCHANGED <<proc, alive, dest, staging,
                                                        backup, stamp, found,
                                                        writing, retired, collided>>
      BY <1>5 DEF EarlyError, Live, disk, history
    <2>2. /\ pc' \in [Install -> Pcs] /\ pc'[i] \in {"failed"}
          /\ \A j \in Install : j # i => pc'[j] = pc[j]
          /\ guard' = IF pc'[i] \in Ended THEN guard \ {proc[i]} ELSE guard
      <3>1. \E to \in {"failed"} : /\ pc' = [pc EXCEPT ![i] = to]
                          /\ guard' = IF to \in Ended THEN guard \ {proc[i]} ELSE guard
        BY <1>5 DEF EarlyError, End, Go, Ended
      <3>2. pc \in [Install -> Pcs]
        BY <1>0 DEF Types
      <3> QED
        BY <3>1, <3>2 DEF Pcs, Ended
    <2>3. faults' \in 0 .. MaxFaults
      BY <1>0, <1>5, InstallerAssumption DEF Types, EarlyError, Fault
    <2>4. Types'
      BY <1>0, <2>1, <2>2, <2>3, Count DEF Types
    <2>5. Guarded'
      BY <1>0, <2>1, <2>2, <2>3, GuardedStep DEF Active, Ended, Guarded, Types
    <2>6. Stamped'
      BY <1>0, <2>1, <2>2, <2>3 DEF Stamped, Unmade, Before, Ended
    <2>7. Listed'
      BY <1>0, <2>1, <2>2, <2>3 DEF Listed, Unmade, Before, Ended, Types
    <2>8. Unused'
      BY <1>0, <2>1, <2>2, <2>3 DEF Unused, Before, Ended
    <2> QED
      BY <2>4, <2>5, <2>6, <2>7, <2>8 DEF Base
  <1>6. ASSUME NEW i \in Install, Download(i) PROVE Base'
    <2>1. pc[i] \in {"build"} /\ UNCHANGED <<proc, alive, dest, backup, stamp,
                                             found, writing, faults, retired,
                                             collided>>
      BY <1>6 DEF Download, Live, disk, history
    <2>2. /\ pc' \in [Install -> Pcs] /\ pc'[i] \in {"unpack", "failed"}
          /\ \A j \in Install : j # i => pc'[j] = pc[j]
          /\ guard' = IF pc'[i] \in Ended THEN guard \ {proc[i]} ELSE guard
      <3>1. \E to \in {"unpack", "failed"} : /\ pc' = [pc EXCEPT ![i] = to]
                          /\ guard' = IF to \in Ended THEN guard \ {proc[i]} ELSE guard
        BY <1>6 DEF Download, End, Go, Ended
      <3>2. pc \in [Install -> Pcs]
        BY <1>0 DEF Types
      <3> QED
        BY <3>1, <3>2 DEF Pcs, Ended
    <2>3. staging' \in [Install -> {"none", "partial", "whole"}]
      BY <1>0, <1>6 DEF Types, Download, Cleaned
    <2>4. Types'
      BY <1>0, <2>1, <2>2, <2>3, Count DEF Types
    <2>5. Guarded'
      BY <1>0, <2>1, <2>2, <2>3, GuardedStep DEF Active, Ended, Guarded, Types
    <2>6. Stamped'
      BY <1>0, <2>1, <2>2, <2>3 DEF Stamped, Unmade, Before, Ended
    <2>7. Listed'
      BY <1>0, <2>1, <2>2, <2>3 DEF Listed, Unmade, Before, Ended, Types
    <2>8. Unused'
      BY <1>0, <2>1, <2>2, <2>3 DEF Unused, Before, Ended
    <2> QED
      BY <2>4, <2>5, <2>6, <2>7, <2>8 DEF Base
  <1>7. ASSUME NEW i \in Install, Unpack(i) PROVE Base'
    <2>1. pc[i] \in {"unpack"} /\ UNCHANGED <<proc, alive, dest, backup, stamp,
                                              found, writing, faults, retired,
                                              collided>>
      BY <1>7 DEF Unpack, Live, disk, history
    <2>2. /\ pc' \in [Install -> Pcs] /\ pc'[i] \in {"promote", "failed"}
          /\ \A j \in Install : j # i => pc'[j] = pc[j]
          /\ guard' = IF pc'[i] \in Ended THEN guard \ {proc[i]} ELSE guard
      <3>1. \E to \in {"promote", "failed"} : /\ pc' = [pc EXCEPT ![i] = to]
                          /\ guard' = IF to \in Ended THEN guard \ {proc[i]} ELSE guard
        BY <1>7 DEF Unpack, End, Go, Ended
      <3>2. pc \in [Install -> Pcs]
        BY <1>0 DEF Types
      <3> QED
        BY <3>1, <3>2 DEF Pcs, Ended
    <2>3. staging' \in [Install -> {"none", "partial", "whole"}]
      BY <1>0, <1>7 DEF Types, Unpack, Cleaned
    <2>4. Types'
      BY <1>0, <2>1, <2>2, <2>3, Count DEF Types
    <2>5. Guarded'
      BY <1>0, <2>1, <2>2, <2>3, GuardedStep DEF Active, Ended, Guarded, Types
    <2>6. Stamped'
      BY <1>0, <2>1, <2>2, <2>3 DEF Stamped, Unmade, Before, Ended
    <2>7. Listed'
      BY <1>0, <2>1, <2>2, <2>3 DEF Listed, Unmade, Before, Ended, Types
    <2>8. Unused'
      BY <1>0, <2>1, <2>2, <2>3 DEF Unused, Before, Ended
    <2> QED
      BY <2>4, <2>5, <2>6, <2>7, <2>8 DEF Base
  <1>8. ASSUME NEW i \in Install, RunChild(i) PROVE Base'
    <2>1. pc[i] \in {"build"} /\ UNCHANGED <<proc, alive, dest, staging, backup,
                                             stamp, found, faults, retired,
                                             collided>>
      BY <1>8 DEF RunChild, Live, disk, history
    <2>2. /\ pc' \in [Install -> Pcs] /\ pc'[i] \in {"child"}
          /\ \A j \in Install : j # i => pc'[j] = pc[j]
          /\ guard' = IF pc'[i] \in Ended THEN guard \ {proc[i]} ELSE guard
      <3>1. \E to \in {"child"} : /\ pc' = [pc EXCEPT ![i] = to]
                          /\ guard' = IF to \in Ended THEN guard \ {proc[i]} ELSE guard
        BY <1>8 DEF RunChild, End, Go, Ended
      <3>2. pc \in [Install -> Pcs]
        BY <1>0 DEF Types
      <3> QED
        BY <3>1, <3>2 DEF Pcs, Ended
    <2>3. writing' = writing \union {i}
      BY <1>8 DEF RunChild
    <2>4. Types'
      BY <1>0, <2>1, <2>2, <2>3, Count DEF Types
    <2>5. Guarded'
      BY <1>0, <2>1, <2>2, <2>3, GuardedStep DEF Active, Ended, Guarded, Types
    <2>6. Stamped'
      BY <1>0, <2>1, <2>2, <2>3 DEF Stamped, Unmade, Before, Ended
    <2>7. Listed'
      BY <1>0, <2>1, <2>2, <2>3 DEF Listed, Unmade, Before, Ended, Types
    <2>8. Unused'
      BY <1>0, <2>1, <2>2, <2>3 DEF Unused, Before, Ended
    <2> QED
      BY <2>4, <2>5, <2>6, <2>7, <2>8 DEF Base
  <1>9. ASSUME NEW i \in Install, ChildExits(i) PROVE Base'
    <2>1. pc[i] \in {"child"} /\ UNCHANGED <<proc, alive, dest, backup, stamp,
                                             found, faults, retired, collided>>
      BY <1>9 DEF ChildExits, Live, disk, history
    <2>2. /\ pc' \in [Install -> Pcs] /\ pc'[i] \in {"promote", "failed"}
          /\ \A j \in Install : j # i => pc'[j] = pc[j]
          /\ guard' = IF pc'[i] \in Ended THEN guard \ {proc[i]} ELSE guard
      <3>1. \E to \in {"promote", "failed"} : /\ pc' = [pc EXCEPT ![i] = to]
                          /\ guard' = IF to \in Ended THEN guard \ {proc[i]} ELSE guard
        BY <1>9 DEF ChildExits, End, Go, Ended
      <3>2. pc \in [Install -> Pcs]
        BY <1>0 DEF Types
      <3> QED
        BY <3>1, <3>2 DEF Pcs, Ended
    <2>3. staging' \in [Install -> {"none", "partial", "whole"}]
      BY <1>0, <1>9 DEF Types, ChildExits, Cleaned
    <2>4. writing' = writing \ {i}
      BY <1>9 DEF ChildExits
    <2>5. Types'
      BY <1>0, <2>1, <2>2, <2>3, <2>4, Count DEF Types
    <2>6. Guarded'
      BY <1>0, <2>1, <2>2, <2>3, <2>4, GuardedStep DEF Active, Ended, Guarded, Types
    <2>7. Stamped'
      BY <1>0, <2>1, <2>2, <2>3, <2>4 DEF Stamped, Unmade, Before, Ended
    <2>8. Listed'
      BY <1>0, <2>1, <2>2, <2>3, <2>4 DEF Listed, Unmade, Before, Ended, Types
    <2>9. Unused'
      BY <1>0, <2>1, <2>2, <2>3, <2>4 DEF Unused, Before, Ended
    <2> QED
      BY <2>5, <2>6, <2>7, <2>8, <2>9 DEF Base
  <1>10. ASSUME NEW i \in Install, ChildTimesOut(i) PROVE Base'
    <2>1. pc[i] \in {"child"} /\ UNCHANGED <<proc, alive, dest, backup, stamp,
                                             found, faults, retired, collided>>
      BY <1>10 DEF ChildTimesOut, Live, disk, history
    <2>2. /\ pc' \in [Install -> Pcs] /\ pc'[i] \in {"failed"}
          /\ \A j \in Install : j # i => pc'[j] = pc[j]
          /\ guard' = IF pc'[i] \in Ended THEN guard \ {proc[i]} ELSE guard
      <3>1. \E to \in {"failed"} : /\ pc' = [pc EXCEPT ![i] = to]
                          /\ guard' = IF to \in Ended THEN guard \ {proc[i]} ELSE guard
        BY <1>10 DEF ChildTimesOut, End, Go, Ended
      <3>2. pc \in [Install -> Pcs]
        BY <1>0 DEF Types
      <3> QED
        BY <3>1, <3>2 DEF Pcs, Ended
    <2>3. staging' \in [Install -> {"none", "partial", "whole"}]
      BY <1>0, <1>10 DEF Types, ChildTimesOut, Cleaned
    <2>4. writing' \subseteq writing
      BY <1>0, <1>10 DEF ChildTimesOut
    <2>5. Types'
      BY <1>0, <2>1, <2>2, <2>3, <2>4, Count DEF Types
    <2>6. Guarded'
      BY <1>0, <2>1, <2>2, <2>3, <2>4, GuardedStep DEF Active, Ended, Guarded, Types
    <2>7. Stamped'
      BY <1>0, <2>1, <2>2, <2>3, <2>4 DEF Stamped, Unmade, Before, Ended
    <2>8. Listed'
      BY <1>0, <2>1, <2>2, <2>3, <2>4 DEF Listed, Unmade, Before, Ended, Types
    <2>9. Unused'
      BY <1>0, <2>1, <2>2, <2>3, <2>4 DEF Unused, Before, Ended
    <2> QED
      BY <2>5, <2>6, <2>7, <2>8, <2>9 DEF Base
  <1>11. ASSUME NEW i \in Install, SetAside(i) PROVE Base'
    <2>1. pc[i] \in {"aside"} /\ UNCHANGED <<proc, alive, stamp, found, writing, faults, retired>>
      BY <1>11 DEF SetAside, Live
    <2>2. /\ pc' \in [Install -> Pcs] /\ pc'[i] \in {"activate", "failed"}
          /\ \A j \in Install : j # i => pc'[j] = pc[j]
          /\ guard' = IF pc'[i] \in Ended THEN guard \ {proc[i]} ELSE guard
      <3>1. \E to \in {"activate", "failed"} : /\ pc' = [pc EXCEPT ![i] = to]
                          /\ guard' = IF to \in Ended THEN guard \ {proc[i]} ELSE guard
        BY <1>11 DEF SetAside, End, Go, Ended
      <3>2. pc \in [Install -> Pcs]
        BY <1>0 DEF Types
      <3> QED
        BY <3>1, <3>2 DEF Pcs, Ended
    <2>3. \/ pc'[i] = "failed" /\ UNCHANGED <<dest, backup, collided>>
          \/ /\ pc'[i] = "activate" /\ dest # None /\ dest' = None
             /\ backup' = [backup EXCEPT ![i] = dest] /\ collided' \in BOOLEAN
      <3>1. (collided \/ Overlooks(i)) \in BOOLEAN
        BY DEF Overlooks
      <3> QED
        BY <1>0, <1>11, <3>1 DEF SetAside, End, Go, Types
    <2>4. staging' \in [Install -> {"none", "partial", "whole"}]
      BY <1>0, <1>11 DEF Types, SetAside, Cleaned
    <2>5. /\ dest' \in Tree \union {None} /\ backup' \in [Install -> Tree \union {None}]
          /\ collided' \in BOOLEAN
          /\ \A j \in Install : j # i => backup'[j] = backup[j]
          /\ backup'[i] # None => pc'[i] = "activate"
          /\ dest' # None => dest' = dest
          /\ backup'[i] # None => dest # None /\ backup'[i] = dest
      <3>1. backup[i] = None
        BY <1>0, <2>1 DEF Stamped, Unmade, Before
      <3> QED
        BY <1>0, <2>3, <3>1 DEF Types
    <2>6. Types'
      BY <1>0, <2>1, <2>2, <2>4, <2>5 DEF Types
    <2>7. Guarded'
      BY <1>0, <2>1, <2>2, GuardedStep DEF Active, Ended, Guarded, Types
    <2>8. Stamped'
      BY <1>0, <2>1, <2>2, <2>5 DEF Stamped, Unmade, Before, Ended
    <2>9. Listed'
      BY <1>0, <2>1, <2>2, <2>5 DEF Listed, Unmade, Before, Ended, Types
    <2>10. Unused'
      BY <1>0, <2>1, <2>2, <2>5 DEF Unused, Before, Ended
    <2> QED
      BY <2>6, <2>7, <2>8, <2>9, <2>10 DEF Base
  <1>12. ASSUME NEW i \in Install, SetAsideFails(i) PROVE Base'
    <2>1. pc[i] \in {"aside"} /\ UNCHANGED <<proc, alive, dest, backup, stamp,
                                             found, writing, retired, collided>>
      BY <1>12 DEF SetAsideFails, Live, disk, history
    <2>2. /\ pc' \in [Install -> Pcs] /\ pc'[i] \in {"failed"}
          /\ \A j \in Install : j # i => pc'[j] = pc[j]
          /\ guard' = IF pc'[i] \in Ended THEN guard \ {proc[i]} ELSE guard
      <3>1. \E to \in {"failed"} : /\ pc' = [pc EXCEPT ![i] = to]
                          /\ guard' = IF to \in Ended THEN guard \ {proc[i]} ELSE guard
        BY <1>12 DEF SetAsideFails, End, Go, Ended
      <3>2. pc \in [Install -> Pcs]
        BY <1>0 DEF Types
      <3> QED
        BY <3>1, <3>2 DEF Pcs, Ended
    <2>3. faults' \in 0 .. MaxFaults
      BY <1>0, <1>12, InstallerAssumption DEF Types, SetAsideFails, Fault
    <2>4. staging' \in [Install -> {"none", "partial", "whole"}]
      BY <1>0, <1>12 DEF Types, SetAsideFails, Cleaned
    <2>5. Types'
      BY <1>0, <2>1, <2>2, <2>3, <2>4, Count DEF Types
    <2>6. Guarded'
      BY <1>0, <2>1, <2>2, <2>3, <2>4, GuardedStep DEF Active, Ended, Guarded, Types
    <2>7. Stamped'
      BY <1>0, <2>1, <2>2, <2>3, <2>4 DEF Stamped, Unmade, Before, Ended
    <2>8. Listed'
      BY <1>0, <2>1, <2>2, <2>3, <2>4 DEF Listed, Unmade, Before, Ended, Types
    <2>9. Unused'
      BY <1>0, <2>1, <2>2, <2>3, <2>4 DEF Unused, Before, Ended
    <2> QED
      BY <2>5, <2>6, <2>7, <2>8, <2>9 DEF Base
  <1>13. ASSUME NEW i \in Install, Activate(i) PROVE Base'
    <2>1. pc[i] \in {"activate"} /\ UNCHANGED <<proc, alive, backup, stamp, found,
                                                writing, faults, collided>>
      BY <1>13 DEF Activate, Live, disk, history
    <2>2. /\ pc' \in [Install -> Pcs] /\ pc'[i] \in {"done", "discard"}
          /\ \A j \in Install : j # i => pc'[j] = pc[j]
          /\ guard' = IF pc'[i] \in Ended THEN guard \ {proc[i]} ELSE guard
      <3>1. \E to \in {"done", "discard"} : /\ pc' = [pc EXCEPT ![i] = to]
                          /\ guard' = IF to \in Ended THEN guard \ {proc[i]} ELSE guard
        BY <1>13 DEF Activate, End, Go, Ended
      <3>2. pc \in [Install -> Pcs]
        BY <1>0 DEF Types
      <3> QED
        BY <3>1, <3>2 DEF Pcs, Ended
    <2>3. staging' \in [Install -> {"none", "partial", "whole"}]
      BY <1>0, <1>13 DEF Types, Activate, Cleaned
    <2>4. /\ dest = None /\ dest' \in Tree /\ dest'.version = i
          /\ pc'[i] = "discard" => backup[i] # None
      <3>1. /\ dest = None /\ dest' = [version |-> i, whole |-> staging[i] = "whole"]
            /\ backup[i] = None => pc' = [pc EXCEPT ![i] = "done"]
        BY <1>13 DEF Activate, End, Go
      <3>2. i \in Version /\ (staging[i] = "whole") \in BOOLEAN
        BY DEF Version
      <3>3. dest' \in Tree /\ dest'.version = i
        BY <1>0, <3>1, <3>2, Trees
      <3>4. backup[i] = None => pc'[i] = "done"
        BY <1>0, <3>1 DEF Types
      <3> QED
        BY <3>1, <3>3, <3>4
    <2>5. retired' \subseteq Version /\ \A v \in retired' :
             v \in retired \/ \E j \in Install : backup[j] # None /\ backup[j].version = v
      <3>1. retired' = IF Kept = None THEN retired ELSE retired \union {Kept.version}
        BY <1>13 DEF Activate
      <3>2. Kept = None \/ \E j \in Install : backup[j] # None /\ Kept = backup[j]
        BY <1>0, <2>4, KeptTree
      <3> QED
        BY <1>0, <3>1, <3>2, Trees DEF Types
    <2>6. Types'
      BY <1>0, <2>1, <2>2, <2>3, <2>4, <2>5, Count DEF Types
    <2>7. Guarded'
      BY <1>0, <2>1, <2>2, <2>3, <2>4, <2>5, GuardedStep
         DEF Active, Ended, Guarded, Types
    <2>8. Stamped'
      BY <1>0, <2>1, <2>2, <2>3, <2>4, <2>5 DEF Stamped, Unmade, Before, Ended
    <2>9. Listed'
      BY <1>0, <2>1, <2>2, <2>3, <2>4, <2>5 DEF Listed, Unmade, Before, Ended, Types
    <2>10. Unused'
      BY <1>0, <2>1, <2>2, <2>3, <2>4, <2>5 DEF Unused, Before, Ended
    <2> QED
      BY <2>6, <2>7, <2>8, <2>9, <2>10 DEF Base
  <1>14. ASSUME NEW i \in Install, ActivateFails(i) PROVE Base'
    <2>1. pc[i] \in {"activate"} /\ UNCHANGED <<proc, alive, stamp, found, writing,
                                                retired>>
      BY <1>14 DEF ActivateFails, Live, disk, history
    <2>2. /\ pc' \in [Install -> Pcs] /\ pc'[i] \in {"failed"}
          /\ \A j \in Install : j # i => pc'[j] = pc[j]
          /\ guard' = IF pc'[i] \in Ended THEN guard \ {proc[i]} ELSE guard
      <3>1. \E to \in {"failed"} : /\ pc' = [pc EXCEPT ![i] = to]
                          /\ guard' = IF to \in Ended THEN guard \ {proc[i]} ELSE guard
        BY <1>14 DEF ActivateFails, End, Go, Ended
      <3>2. pc \in [Install -> Pcs]
        BY <1>0 DEF Types
      <3> QED
        BY <3>1, <3>2 DEF Pcs, Ended
    <2>3. staging' \in [Install -> {"none", "partial", "whole"}]
      BY <1>0, <1>14 DEF Types, ActivateFails, Cleaned
    <2>4. \/ UNCHANGED <<dest, backup, collided>>
          \/ /\ dest = None /\ backup[i] # None /\ dest' = backup[i]
             /\ backup' = [backup EXCEPT ![i] = None] /\ collided' \in BOOLEAN
      BY <1>14 DEF ActivateFails, Undone, Overlooks
    <2>5. /\ dest' \in Tree \union {None} /\ backup' \in [Install -> Tree \union {None}]
          /\ collided' \in BOOLEAN
          /\ \A j \in Install : backup'[j] # None => backup'[j] = backup[j]
          /\ dest' = dest \/ (backup[i] # None /\ dest' = backup[i])
          /\ \A j \in Install : j # i => backup'[j] = backup[j]
      <3>1. backup \in [Install -> Tree \union {None}] /\ dest \in Tree \union {None}
        BY <1>0 DEF Types
      <3>2. collided \in BOOLEAN
        BY <1>0 DEF Types
      <3>3. CASE UNCHANGED <<dest, backup, collided>>
        BY <3>1, <3>2, <3>3
      <3>4. CASE /\ dest = None /\ backup[i] # None /\ dest' = backup[i]
                 /\ backup' = [backup EXCEPT ![i] = None] /\ collided' \in BOOLEAN
        BY <3>1, <3>4
      <3> QED
        BY <2>4, <3>3, <3>4
    <2>6. faults' \in 0 .. MaxFaults
      BY <1>0, <1>14, InstallerAssumption DEF ActivateFails, Fault, Types
    <2>7. Types'
      BY <1>0, <2>1, <2>2, <2>3, <2>5, <2>6 DEF Types
    <2>8. Guarded'
      BY <1>0, <2>1, <2>2, <2>3, <2>4, <2>5, <2>6, GuardedStep
         DEF Active, Ended, Guarded, Types
    <2>9. Stamped'
      BY <1>0, <2>1, <2>2, <2>5 DEF Stamped, Unmade, Before, Ended
    <2>10. Listed'
      BY <1>0, <2>1, <2>2, <2>5 DEF Listed, Unmade, Before, Ended, Types
    <2>11. Unused'
      BY <1>0, <2>1, <2>2, <2>5 DEF Unused, Before, Ended
    <2> QED
      BY <2>7, <2>8, <2>9, <2>10, <2>11 DEF Base
  <1>15. ASSUME NEW i \in Install, Discard(i) PROVE Base'
    <2>1. pc[i] \in {"discard"} /\ UNCHANGED <<proc, alive, dest, staging, stamp,
                                               found, writing, retired, collided>>
      BY <1>15 DEF Discard, Live, disk, history
    <2>2. /\ pc' \in [Install -> Pcs] /\ pc'[i] \in {"discard", "done"}
          /\ \A j \in Install : j # i => pc'[j] = pc[j]
          /\ guard' = IF pc'[i] \in Ended THEN guard \ {proc[i]} ELSE guard
      <3>1. \/ UNCHANGED <<pc, guard>>
            \/ pc' = [pc EXCEPT ![i] = "done"] /\ guard' = guard \ {proc[i]}
        BY <1>15 DEF Discard, End, Go
      <3> QED
        BY <1>0, <2>1, <3>1 DEF Types, Pcs, Ended
    <2>3. faults' \in 0 .. MaxFaults
      BY <1>0, <1>15, InstallerAssumption DEF Types, Discard, Fault
    <2>4. \/ backup' = [backup EXCEPT ![i].whole = FALSE]
          \/ backup' = [backup EXCEPT ![i] = None] /\ pc' = [pc EXCEPT ![i] = "done"]
          \/ backup' = backup
      BY <1>15 DEF Discard, Go, End
    <2>5. /\ backup[i] # None /\ backup' \in [Install -> Tree \union {None}]
          /\ \A j \in Install : j # i => backup'[j] = backup[j]
          /\ backup'[i] # None => backup'[i].version = backup[i].version
          /\ pc'[i] = "discard" => backup'[i] # None
      <3>1. backup[i] # None /\ backup[i] \in Tree
        BY <1>0, <2>1, Trees DEF Listed
      <3>2. CASE backup' = [backup EXCEPT ![i].whole = FALSE]
        <4>1. backup \in [Install -> Tree \union {None}] /\ None \notin Tree
          BY <1>0, InstallerAssumption DEF Types
        <4> QED
          BY <3>1, <3>2, <4>1 DEF Tree
      <3>3. CASE backup' = [backup EXCEPT ![i] = None] /\ pc' = [pc EXCEPT ![i] = "done"]
        BY <1>0, <3>1, <3>3 DEF Types
      <3>4. CASE backup' = backup
        BY <1>0, <3>1, <3>4 DEF Types
      <3> QED
        BY <2>4, <3>2, <3>3, <3>4
    <2>6. Types'
      BY <1>0, <2>1, <2>2, <2>3, <2>5 DEF Types
    <2>7. Guarded'
      BY <1>0, <2>1, <2>2, <2>3, <2>4, <2>5, GuardedStep
         DEF Active, Ended, Guarded, Types
    <2>8. Stamped'
      BY <1>0, <2>1, <2>2, <2>5 DEF Stamped, Unmade, Before, Ended
    <2>9. Listed'
      BY <1>0, <2>1, <2>2, <2>5 DEF Listed, Unmade, Before, Ended, Types
    <2>10. Unused'
      BY <1>0, <2>1, <2>2, <2>5 DEF Unused, Before, Ended
    <2> QED
      BY <2>6, <2>7, <2>8, <2>9, <2>10 DEF Base
  <1>16. ASSUME NEW i \in Install, ChildGone(i) PROVE Base'
    <2>1. /\ UNCHANGED <<pc, proc, alive, guard, dest, staging, backup, stamp,
                         found, faults, retired, collided>>
          /\ writing' = writing \ {i}
      BY <1>16 DEF ChildGone, disk, history
    <2>2. Types'
      BY <1>0, <2>1 DEF Types, Pcs, Ended
    <2>3. Guarded'
      BY <1>0, <2>1 DEF Guarded, Active, Types, Ended
    <2>4. Stamped'
      BY <1>0, <2>1 DEF Stamped, Unmade, Before, Ended, Types
    <2>5. Listed'
      BY <1>0, <2>1 DEF Listed, Stamped, Unmade, Before, Types, Ended
    <2>6. Unused'
      BY <1>0, <2>1 DEF Unused, Before, Ended
    <2> QED
      BY <2>2, <2>3, <2>4, <2>5, <2>6 DEF Base
  <1>17. ASSUME NEW i \in Install, NEW p \in Process, Begin(i, p) PROVE Base'
    <2>1. /\ pc[i] = "new" /\ p \in alive /\ proc' = [proc EXCEPT ![i] = p]
          /\ \/ p \in guard /\ pc' = [pc EXCEPT ![i] = "refused"] /\ guard' = guard
             \/ p \notin guard /\ pc' = [pc EXCEPT ![i] = "recover"] /\ guard' = guard \union {p}
          /\ UNCHANGED <<alive, dest, staging, backup, stamp, found, writing,
                         faults, retired, collided>>
      BY <1>17 DEF Begin, Go, disk, history
    <2>2. /\ pc' \in [Install -> Pcs] /\ proc' \in [Install -> Process \union {None}]
          /\ \A j \in Install : j # i => pc'[j] = pc[j] /\ proc'[j] = proc[j]
          /\ proc'[i] = p
          /\ \/ p \in guard /\ pc'[i] = "refused" /\ guard' = guard
             \/ p \notin guard /\ pc'[i] = "recover" /\ guard' = guard \union {p}
      BY <1>0, <2>1 DEF Types, Pcs, Ended
    <2>3. Types'
      BY <1>0, <2>1, <2>2 DEF Types, Pcs, Ended
    <2>4. Guarded'
      BY <1>0, <2>1, <2>2 DEF Guarded, Active, Types, Ended
    <2>5. Stamped'
      BY <1>0, <2>1, <2>2 DEF Stamped, Unmade, Before, Ended, Types
    <2>6. Listed'
      BY <1>0, <2>1, <2>2 DEF Listed, Stamped, Unmade, Before, Types, Ended
    <2>7. Unused'
      BY <1>0, <2>1, <2>2 DEF Unused, Before, Ended
    <2> QED
      BY <2>3, <2>4, <2>5, <2>6, <2>7 DEF Base
  <1>18. ASSUME NEW p \in Process, Ends(p), writing' \subseteq writing PROVE Base'
    <2>1. /\ alive' = alive \ {p} /\ guard' = guard \ {p} /\ writing' \subseteq writing
          /\ pc' = [i \in Install |-> IF proc[i] = p /\ pc[i] \notin Ended THEN "dead" ELSE pc[i]]
          /\ UNCHANGED <<proc, dest, staging, backup, stamp, found, faults, retired,
                         collided>>
      BY <1>18 DEF Ends, disk, history
    <2>2. /\ pc' \in [Install -> Pcs]
          /\ \A i \in Install : (pc'[i] = pc[i] /\ (proc[i] # p \/ pc[i] \in Ended)) \/ pc'[i] = "dead"
      BY <1>0, <2>1 DEF Types, Pcs, Ended
    <2>3. Types'
      BY <1>0, <2>1, <2>2 DEF Types, Pcs, Ended
    <2>4. Guarded'
      BY <1>0, <2>1, <2>2 DEF Guarded, Active, Types, Ended
    <2>5. Stamped'
      BY <1>0, <2>1, <2>2 DEF Stamped, Unmade, Before, Ended, Types
    <2>6. Listed'
      BY <1>0, <2>1, <2>2 DEF Listed, Stamped, Unmade, Before, Types, Ended
    <2>7. Unused'
      BY <1>0, <2>1, <2>2 DEF Unused, Before, Ended
    <2> QED
      BY <2>3, <2>4, <2>5, <2>6, <2>7 DEF Base
  <1>21. ASSUME NEW i \in Install, TakeStamp(i) PROVE Base'
    <2>1. pc[i] \in {"promote"} /\ UNCHANGED <<proc, alive, guard, dest, staging, backup,
                                               found, writing, faults, retired, collided>>
      BY <1>21 DEF TakeStamp, Live, history
    <2>2. /\ pc' \in [Install -> Pcs] /\ pc'[i] = "look"
          /\ \A j \in Install : j # i => pc'[j] = pc[j]
      BY <1>0, <1>21 DEF TakeStamp, Go, Types, Pcs
    <2>3. /\ stamp' \in [Install -> 0 .. Cardinality(Install)] /\ stamp'[i] > 0
          /\ \A j \in Install : j # i => stamp'[j] = stamp[j] /\ stamp[j] # stamp'[i]
      <3>1. PICK now \in 1 .. Cardinality(Install) :
              /\ \A j \in Install : stamp[j] # now
              /\ stamp' = [stamp EXCEPT ![i] = now]
        BY <1>21 DEF TakeStamp
      <3> QED
        BY <1>0, <3>1, Count DEF Types
    <2>4. Types'
      BY <1>0, <2>1, <2>2, <2>3 DEF Types
    <2>5. Guarded'
      BY <1>0, <2>1, <2>2 DEF Guarded, Active, Types, Ended
    <2>6. Stamped'
      BY <1>0, <2>1, <2>2, <2>3 DEF Stamped, Unmade, Before
    <2>7. Listed'
      BY <1>0, <2>1, <2>2 DEF Listed, Unmade, Before, Types
    <2>8. Unused'
      BY <1>0, <2>1, <2>2 DEF Unused, Before
    <2> QED
      BY <2>4, <2>5, <2>6, <2>7, <2>8 DEF Base
  <1>22. ASSUME NEW i \in Install, Look(i) PROVE Base'
    <2>1. pc[i] \in {"look"} /\ UNCHANGED <<proc, alive, guard, dest, staging, backup, stamp,
                                            found, writing, faults, retired, collided>>
      BY <1>22 DEF Look, Live, disk, history
    <2>2. /\ pc' \in [Install -> Pcs] /\ pc'[i] \in {"activate", "aside"}
          /\ \A j \in Install : j # i => pc'[j] = pc[j]
      BY <1>0, <1>22 DEF Look, Go, Types, Pcs
    <2>3. Types'
      BY <1>0, <2>1, <2>2 DEF Types
    <2>4. Guarded'
      BY <1>0, <2>1, <2>2 DEF Guarded, Active, Types, Ended
    <2>5. Stamped'
      BY <1>0, <2>1, <2>2 DEF Stamped, Unmade, Before
    <2>6. Listed'
      BY <1>0, <2>1, <2>2 DEF Listed, Unmade, Before, Types
    <2>7. Unused'
      BY <1>0, <2>1, <2>2 DEF Unused, Before
    <2> QED
      BY <2>3, <2>4, <2>5, <2>6, <2>7 DEF Base
  <1>19. CASE UNCHANGED vars
    BY <1>0, <1>19
       DEF vars, disk, history, Base, Types, Guarded, Active, Stamped, Listed,
           Unused
  <1>20. \A p \in Process : Crash(p) \/ ShutDown(p) => Ends(p) /\ writing' \subseteq writing
    BY DEF Crash, ShutDown
  <1> QED
    BY <1>1, <1>2, <1>3, <1>4, <1>5, <1>6, <1>7, <1>8, <1>9, <1>10, <1>11, <1>12,
       <1>13, <1>14, <1>15, <1>16, <1>17, <1>18, <1>19, <1>20, <1>21, <1>22 DEF Next, Step

\* The initial states.
LEMMA BaseInit == Init => Base
  <1> SUFFICES ASSUME Init PROVE Base
    OBVIOUS
  <1>1. Types
    <2>1. [version |-> Shipped, whole |-> TRUE] \in Tree
      BY DEF Tree, Version
    <2>2. /\ 0 \in 0 .. Cardinality(Install) /\ 0 \in 0 .. MaxFaults
      BY Count, InstallerAssumption
    <2>3. dest \in Tree \union {None} /\ alive \subseteq Process /\ guard \subseteq alive
      BY <2>1 DEF Init
    <2>4. /\ pc \in [Install -> Pcs] /\ proc \in [Install -> Process \union {None}]
          /\ staging \in [Install -> {"none", "partial", "whole"}]
          /\ backup \in [Install -> Tree \union {None}]
          /\ found \in [Install -> SUBSET Install]
      BY DEF Init, Pcs
    <2>5. stamp \in [Install -> 0 .. Cardinality(Install)]
      BY <2>2 DEF Init
    <2>6. writing \subseteq Install /\ faults \in 0 .. MaxFaults /\ retired \subseteq Version
          /\ collided \in BOOLEAN
      BY <2>2 DEF Init
    <2> QED
      BY <2>3, <2>4, <2>5, <2>6 DEF Types
  <1>2. Guarded /\ Listed /\ Stamped
    <2>1. \A j \in Install : stamp[j] = 0
      BY DEF Init
    <2>2. Stamped
      BY <2>1 DEF Init, Stamped
    <2> QED
      BY <2>2 DEF Init, Guarded, Active, Listed
  <1>3. Unused
    BY InstallerAssumption DEF Init, Unused
  <1> QED
    BY <1>1, <1>2, <1>3 DEF Base

\* Base holds throughout.
LEMMA Based == Spec => []Base
  BY BaseInit, BaseStep, PTL DEF Spec

-----------------------------------------------------------------------------
(* What a step does to the trees that a recovery would find.               *)

\* Nothing, and without an active tree no backup is doomed that was not before.
Spares == dest' = None => \A j \in Install : Doomed(j)' => Doomed(j)
Unmoved == /\ UNCHANGED <<dest, backup, collided, retired>> /\ Spares
           /\ \A j \in Install : backup[j] # None => stamp'[j] = stamp[j]

\* A doomed backup is deleted, in part or for good.
Deletes(o) ==
  /\ Doomed(o) /\ Spares /\ UNCHANGED <<dest, stamp, collided, retired>>
  /\ \A j \in Install : j # o => backup'[j] = backup[j]
  /\ backup'[o] # None => backup[o] # None

\* A backup becomes the active tree again.
PutsBack(n) ==
  /\ dest = None /\ backup[n] # None /\ dest' = backup[n]
  /\ \A j \in Install : backup'[j] = IF j = n THEN None ELSE backup[j]
  /\ collided' = (collided \/ Overlooks(n)) /\ UNCHANGED <<stamp, retired>>

\* The active tree becomes a backup, the newest one unless daemons collide.
SetsAside(i) ==
  /\ dest # None /\ dest' = None /\ ~Doomed(i)'
  /\ backup'[i] = dest /\ \A j \in Install : j # i => backup'[j] = backup[j]
  /\ collided' = (collided \/ Overlooks(i)) /\ UNCHANGED <<stamp, retired>>

\* What was staged becomes the active tree.
Activates(i) ==
  /\ dest = None /\ pc[i] = "activate"
  /\ dest' = [version |-> i, whole |-> staging[i] = "whole"]
  /\ retired' = IF Kept = None THEN retired ELSE retired \union {Kept.version}
  /\ UNCHANGED <<backup, stamp, collided>>

Move == Unmoved \/ \E i \in Install : Deletes(i) \/ PutsBack(i) \/ SetsAside(i) \/ Activates(i)

\* A step does one of these.
LEMMA Moves == Base /\ [Next]_vars => Move
  <1> SUFFICES ASSUME Base, [Next]_vars PROVE Move
    OBVIOUS
  <1>0. Types /\ Guarded /\ Stamped /\ Listed
    BY DEF Base
  <1>1. ASSUME \A j \in Install : pc'[j] \in {"prune", "discard"} =>
                                     pc'[j] = pc[j] /\ found'[j] \subseteq found[j]
        PROVE  Spares
    BY <1>1 DEF Spares, Doomed
  <1>2. ASSUME NEW i \in Install, Step(i) PROVE Move
    <2>0. /\ pc \in [Install -> Pcs] /\ found \in [Install -> SUBSET Install]
          /\ backup \in [Install -> Tree \union {None}]
      BY <1>0 DEF Types
    <2>1. CASE Recover(i)
      BY <1>1, <2>0, <2>1 DEF Recover, Go, Move, Unmoved, history
    <2>2. CASE Restore(i)
      <3>1. \/ /\ UNCHANGED <<dest, backup, found, collided>> /\ pc' = [pc EXCEPT
                              ![i] = "failed"]
            \/ /\ UNCHANGED <<dest, backup, found, collided>> /\ pc' = [pc EXCEPT
                              ![i] = "prune"]
               /\ dest # None \/ found[i] = {}
            \/ PutsBack(Newest(found[i])) /\ Newest(found[i]) \in Install
        <4>1. found[i] # {} => Newest(found[i]) \in found[i]
          BY <1>0, <2>0, Chosen
        <4> QED
          BY <1>0, <2>0, <2>2, <4>1 DEF Restore, Go, End, PutsBack
      <3>2. CASE /\ UNCHANGED <<dest, backup, found, collided>> /\ pc' = [pc EXCEPT
                                ![i] = "failed"]
        BY <1>1, <2>0, <2>2, <3>2 DEF Restore, Move, Unmoved
      <3>3. CASE /\ UNCHANGED <<dest, backup, found, collided>> /\ pc' = [pc EXCEPT
                                ![i] = "prune"]
                 /\ dest # None \/ found[i] = {}
        <4>1. Spares
          BY <2>0, <3>3 DEF Spares, Doomed
        <4> QED
          BY <2>2, <3>3, <4>1 DEF Restore, Move, Unmoved
      <3> QED
        BY <3>1, <3>2, <3>3 DEF Move
    <2>3. CASE Prune(i)
      <3>1. \/ UNCHANGED <<backup, found>>
            \/ \E n \in found[i] :
                  \/ /\ backup' = [backup EXCEPT ![n].whole = FALSE] /\ Whole(backup[n])
                     /\ found' = found
                  \/ backup' = [backup EXCEPT ![n] = None] /\ found' = [found EXCEPT ![i] = @ \ {n}]
                  \/ backup' = backup /\ found' = [found EXCEPT ![i] = @ \ {n}]
        <4>1. found[i] # {} => Oldest(found[i]) \in found[i]
          BY <1>0, <2>0, Chosen
        <4> QED
          BY <2>3, <4>1 DEF Prune, Fault
      <3>2. /\ UNCHANGED <<dest, stamp, collided, retired>> /\ pc[i] = "prune"
            /\ \A j \in Install : pc'[j] \in {"prune", "discard"} => pc'[j] = pc[j]
        BY <2>0, <2>3 DEF Prune, Go, Live, history
      <3>3. Spares
        BY <1>1, <2>0, <3>1, <3>2
      <3>4. CASE backup' = backup
        BY <3>2, <3>3, <3>4 DEF Move, Unmoved
      <3>5. ASSUME NEW n \in found[i],
                   \/ backup' = [backup EXCEPT ![n].whole = FALSE] /\ Whole(backup[n])
                   \/ backup' = [backup EXCEPT ![n] = None]
            PROVE  Move
        <4>1. n \in Install /\ Doomed(n)
          BY <2>0, <3>2 DEF Doomed
        <4>2. Deletes(n)
          BY <1>0, <2>0, <3>2, <3>3, <3>5, <4>1, Trees DEF Deletes
        <4> QED
          BY <4>1, <4>2 DEF Move
      <3> QED
        BY <3>1, <3>4, <3>5
    <2>4. CASE Stage(i) \/ EarlyError(i) \/ Download(i) \/ Unpack(i) \/ RunChild(i)
      BY <1>1, <2>0, <2>4
         DEF Stage, EarlyError, Download, Unpack, RunChild, Go, End, Move, Unmoved, disk, history
    <2>5. CASE ChildExits(i) \/ ChildTimesOut(i) \/ ChildGone(i) \/ SetAsideFails(i)
      BY <1>1, <2>0, <2>5
         DEF ChildExits, ChildTimesOut, ChildGone, SetAsideFails, Go, End, Move, Unmoved, disk,
             history
    <2>6. CASE SetAside(i)
      <3>1. /\ pc[i] = "aside" /\ pc' = [pc EXCEPT ![i] = pc'[i]]
            /\ pc'[i] \in {"activate", "failed"} /\ UNCHANGED <<found, stamp, retired>>
        BY <2>0, <2>6 DEF SetAside, Live, End, Go
      <3>2. Spares /\ ~Doomed(i)'
        <4>1. \A j \in Install : i \notin found[j]
          BY <1>0, <3>1 DEF Listed, Unmade, Before, Types
        <4> QED
          BY <1>1, <2>0, <3>1, <4>1 DEF Doomed
      <3>3. CASE dest = None
        BY <2>6, <3>1, <3>2, <3>3 DEF SetAside, Move, Unmoved
      <3>4. CASE dest # None
        <4>1. SetsAside(i)
          BY <2>0, <2>6, <3>1, <3>2, <3>4 DEF SetAside, SetsAside
        <4> QED
          BY <4>1 DEF Move
      <3> QED
        BY <3>3, <3>4
    <2>10. CASE TakeStamp(i)
      <3>1. /\ UNCHANGED <<dest, backup, found, collided, retired>> /\ pc[i] = "promote"
            /\ pc' = [pc EXCEPT ![i] = "look"] /\ \A j \in Install : j # i => stamp'[j] = stamp[j]
        BY <1>0, <2>10 DEF TakeStamp, Live, Go, Types, history
      <3>2. backup[i] = None
        BY <1>0, <3>1 DEF Stamped, Unmade, Before
      <3>3. Spares
        BY <1>1, <2>0, <3>1
      <3> QED
        BY <3>1, <3>2, <3>3 DEF Move, Unmoved
    <2>11. CASE Look(i)
      BY <1>1, <2>0, <2>11 DEF Look, Go, Move, Unmoved, disk, history
    <2>7. CASE Activate(i)
      BY <2>7 DEF Activate, Live, Activates, Move
    <2>8. CASE ActivateFails(i)
      <3>1. /\ pc' = [pc EXCEPT ![i] = "failed"] /\ UNCHANGED <<found, stamp, retired>>
            /\ \/ UNCHANGED <<dest, backup, collided>>
               \/ /\ dest = None /\ backup[i] # None /\ dest' = backup[i]
                  /\ backup' = [backup EXCEPT ![i] = None]
                  /\ collided' = (collided \/ Overlooks(i))
        BY <2>8 DEF ActivateFails, Undone, End, Go
      <3>2. CASE UNCHANGED <<dest, backup, collided>>
        BY <1>1, <2>0, <3>1, <3>2 DEF Move, Unmoved
      <3>3. CASE /\ dest = None /\ backup[i] # None /\ dest' = backup[i]
                 /\ backup' = [backup EXCEPT ![i] = None]
                 /\ collided' = (collided \/ Overlooks(i))
        <4>1. PutsBack(i)
          BY <2>0, <3>1, <3>3 DEF PutsBack
        <4> QED
          BY <4>1 DEF Move
      <3> QED
        BY <3>1, <3>2, <3>3
    <2>9. CASE Discard(i)
      <3>1. /\ pc[i] = "discard" /\ UNCHANGED <<dest, stamp, found, collided,
                                                retired>>
            /\ pc' = pc \/ pc' = [pc EXCEPT ![i] = "done"]
            /\ \/ backup' = [backup EXCEPT ![i].whole = FALSE]
               \/ backup' = [backup EXCEPT ![i] = None]
               \/ backup' = backup
        BY <2>9 DEF Discard, Live, End, Go, history
      <3>2. Doomed(i) /\ backup[i] # None
        BY <1>0, <3>1 DEF Doomed, Listed
      <3>3. Spares
        BY <1>1, <2>0, <3>1
      <3>4. Deletes(i)
        BY <2>0, <3>1, <3>2, <3>3 DEF Deletes
      <3> QED
        BY <3>4 DEF Move
    <2> QED
      BY <1>2, <2>1, <2>2, <2>3, <2>4, <2>5, <2>6, <2>7, <2>8, <2>9, <2>10, <2>11 DEF Step
  <1>3. ASSUME NEW i \in Install, NEW p \in Process, Begin(i, p) PROVE Move
    BY <1>0, <1>1, <1>3 DEF Begin, Go, Move, Unmoved, Types, disk, history
  <1>4. ASSUME NEW p \in Process, Ends(p) PROVE Move
    BY <1>0, <1>1, <1>4 DEF Ends, Move, Unmoved, Types, disk, history
  <1>5. CASE UNCHANGED vars
    BY <1>1, <1>5 DEF vars, disk, history, Move, Unmoved
  <1> QED
    BY <1>2, <1>3, <1>4, <1>5 DEF Next, Crash, ShutDown
-----------------------------------------------------------------------------
(* What a recovery would find, and that it is safe.                        *)

\* Without an active tree, nobody is deleting the newest backup, unless daemons collide.
Spared == ~collided /\ dest = None => \A j \in Install : Latest(j) => ~Doomed(j)

\* The active tree is whole; without one the newest backup is.
Sound == ~collided => /\ dest # None => dest.whole
                      /\ dest = None => \A j \in Install : Latest(j) => backup[j].whole

\* Kept, without a choice.
KeptKnown ==
  /\ dest # None => Kept = dest
  /\ dest = None => \A j \in Install : Latest(j) => Kept = backup[j]
  /\ dest = None /\ (\A j \in Install : backup[j] = None) => Kept = None
  /\ (\E j \in Install : backup[j] # None) => \E j \in Install : Latest(j)

\* What Kept, written with a choice, is in each case: the lemma on its definition.
LEMMA KeptIs == Base => KeptKnown
  <1> SUFFICES ASSUME Base PROVE KeptKnown
    OBVIOUS
  <1>0. Types /\ Stamped
    BY DEF Base
  <1> DEFINE backups == {j \in Install : backup[j] # None}
  <1>1. \A j \in Install : stamp[j] \in Nat
    BY <1>0, Count DEF Types
  <1>2. backups # {} => /\ Newest(backups) \in backups
                        /\ \A k \in backups : stamp[k] <= stamp[Newest(backups)]
    BY <1>0, Chosen
  <1>3. backups # {} => Latest(Newest(backups)) /\ Newest(backups) \in Install
    BY <1>2 DEF Latest
  <1>4. \A j \in Install : Latest(j) => j = Newest(backups)
    BY <1>0, <1>1, <1>2 DEF Latest, Stamped
  <1>5. dest = None => Kept = IF backups = {} THEN None ELSE backup[Newest(backups)]
    BY DEF Kept
  <1>6. dest # None => Kept = dest
    BY DEF Kept
  <1>7. \A j \in Install : Latest(j) => backups # {}
    BY DEF Latest
  <1> HIDE DEF backups
  <1>8. (\E j \in Install : backup[j] # None) => backups # {}
    BY DEF backups
  <1>9. (\A j \in Install : backup[j] = None) => backups = {}
    BY DEF backups
  <1> QED
    BY <1>3, <1>4, <1>5, <1>6, <1>7, <1>8, <1>9 DEF KeptKnown

\* A backup that is deleted while there is no active tree leaves the newest alone.
LEMMA Deleting ==
  ASSUME Base, Spared, NEW o \in Install, Deletes(o), dest = None, ~collided
  PROVE  \A j \in Install : (Latest(j) <=> Latest(j)') /\ (Latest(j) => backup'[j] = backup[j])
  <1>1. ~Latest(o) /\ \A j \in Install : j # o => backup'[j] = backup[j]
    BY DEF Deletes, Spared
  <1>2. stamp' = stamp /\ (backup'[o] # None => backup[o] # None)
    BY DEF Deletes
  <1>3. \A j \in Install : stamp[j] \in Nat
    BY Count DEF Base, Types
  <1>4. \A j \in Install : Latest(j) => Latest(j)' /\ backup'[j] = backup[j]
    BY <1>1, <1>2 DEF Latest
  <1>5. ASSUME NEW j \in Install, Latest(j)' PROVE Latest(j)
    <2>1. backup[j] # None
      BY <1>1, <1>2, <1>5 DEF Latest
    <2>2. ASSUME NEW k \in Install, backup[k] # None PROVE stamp[k] <= stamp[j]
      <3>1. CASE k # o
        BY <1>1, <1>2, <1>5, <2>2, <3>1 DEF Latest
      <3>2. CASE k = o
        <4>1. PICK l \in Install : backup[l] # None /\ ~(stamp[l] <= stamp[o])
          BY <1>1, <2>2, <3>2 DEF Latest
        <4>2. l # o /\ backup'[l] # None
          BY <1>1, <1>3, <4>1
        <4>3. stamp[l] <= stamp[j]
          BY <1>2, <1>5, <4>2 DEF Latest
        <4> QED
          BY <1>3, <3>2, <4>1, <4>3
      <3> QED
        BY <3>1, <3>2
    <2> QED
      BY <2>1, <2>2 DEF Latest
  <1> QED
    BY <1>4, <1>5

\* The tree that was set aside is the newest backup, unless daemons collide.
LEMMA SettingAside ==
  ASSUME Base, NEW i \in Install, SetsAside(i), ~collided'
  PROVE  ~collided /\ \A j \in Install : Latest(j)' <=> j = i
  <1>1. \A j \in Install : stamp[j] \in Nat
    BY Count DEF Base, Types
  <1>2. ~collided /\ ~Overlooks(i)
    BY DEF SetsAside
  <1>3. \A j \in Install : j # i /\ backup[j] # None => stamp[j] < stamp[i]
    BY <1>1, <1>2 DEF Overlooks, Base, Stamped
  <1> QED
    BY <1>1, <1>2, <1>3 DEF SetsAside, Latest

\* A backup that is put back was the newest, unless daemons collide.
LEMMA PuttingBack ==
  ASSUME Base, NEW n \in Install, PutsBack(n), ~collided'
  PROVE  ~collided /\ Latest(n) /\ dest' = backup[n] /\ dest' # None
  <1>1. \A j \in Install : stamp[j] \in Nat
    BY Count DEF Base, Types
  <1>2. ~collided /\ ~Overlooks(n)
    BY DEF PutsBack
  <1> QED
    BY <1>1, <1>2 DEF PutsBack, Latest, Overlooks

\* An activated tree is one.
LEMMA Activating ==
  ASSUME Types, NEW i \in Install, Activates(i)
  PROVE  /\ dest' # None /\ dest'.version = i
         /\ dest'.whole = (staging[i] = "whole")
  <1>1. i \in Version /\ (staging[i] = "whole") \in BOOLEAN
    BY DEF Version
  <1>2. [version |-> i, whole |-> staging[i] = "whole"] \in Tree
    BY <1>1, Trees
  <1>3. dest' \in Tree /\ None \notin Tree
    BY <1>2, Trees DEF Activates
  <1> QED
    BY <1>3 DEF Activates

\* The newest backup stays spared.
LEMMA SparedStep == Base /\ Spared /\ [Next]_vars => Spared'
  <1> SUFFICES ASSUME Base, Spared, [Next]_vars, ~collided', dest' = None,
                      NEW j \in Install, Latest(j)'
               PROVE  ~Doomed(j)'
    BY DEF Spared
  <1>1. Move
    BY Moves
  <1>2. CASE Unmoved
    <2>1. Latest(j)
      BY <1>2 DEF Unmoved, Latest
    <2> QED
      BY <1>2, <2>1 DEF Unmoved, Spares, Spared
  <1>3. ASSUME NEW i \in Install, Deletes(i) PROVE ~Doomed(j)'
    <2>1. dest = None /\ ~collided
      BY <1>3 DEF Deletes
    <2>2. Latest(j)
      BY <1>3, <2>1, Deleting
    <2> QED
      BY <1>3, <2>1, <2>2 DEF Deletes, Spares, Spared
  <1>4. ASSUME NEW i \in Install, SetsAside(i) PROVE ~Doomed(j)'
    BY <1>4, SettingAside DEF SetsAside
  <1>5. ASSUME NEW i \in Install, PutsBack(i) \/ Activates(i) PROVE ~Doomed(j)'
    <2>1. CASE PutsBack(i)
      BY <2>1 DEF PutsBack
    <2>2. CASE Activates(i)
      BY <2>2, Activating DEF Base
    <2> QED
      BY <1>5, <2>1, <2>2
  <1> QED
    BY <1>1, <1>2, <1>3, <1>4, <1>5 DEF Move
\* The newest backup and the active tree stay whole.
LEMMA SoundStep == Base /\ Spared /\ Complete /\ Sound /\ [Next]_vars => Sound'
  <1> SUFFICES ASSUME Base, Spared, Complete, Sound, [Next]_vars, ~collided'
               PROVE  /\ dest' # None => dest'.whole
                      /\ dest' = None => \A j \in Install : Latest(j)' => backup'[j].whole
    BY DEF Sound
  <1>1. Move
    BY Moves
  <1>2. CASE Unmoved
    BY <1>2 DEF Unmoved, Sound, Latest
  <1>3. ASSUME NEW i \in Install, Deletes(i)
        PROVE  /\ dest' # None => dest'.whole
               /\ dest' = None => \A j \in Install : Latest(j)' => backup'[j].whole
    <2>1. dest' = dest /\ ~collided
      BY <1>3 DEF Deletes
    <2> QED
      BY <1>3, <2>1, Deleting DEF Sound
  <1>4. ASSUME NEW i \in Install, SetsAside(i)
        PROVE  /\ dest' # None => dest'.whole
               /\ dest' = None => \A j \in Install : Latest(j)' => backup'[j].whole
    <2>1. dest' = None /\ ~collided /\ backup'[i] = dest /\ dest # None
      BY <1>4, SettingAside DEF SetsAside
    <2> QED
      BY <1>4, <2>1, SettingAside DEF Sound
  <1>5. ASSUME NEW i \in Install, PutsBack(i)
        PROVE  dest' # None /\ dest'.whole
    <2>1. dest = None
      BY <1>5 DEF PutsBack
    <2> QED
      BY <1>5, <2>1, PuttingBack DEF Sound
  <1>6. ASSUME NEW i \in Install, Activates(i)
        PROVE  dest' # None /\ dest'.whole
    <2>1. staging[i] = "whole"
      BY <1>6 DEF Activates, Complete
    <2> QED
      BY <1>6, <2>1, Activating DEF Base
  <1> QED
    BY <1>1, <1>2, <1>3, <1>4, <1>5, <1>6 DEF Move

\* Daemons leave each other's staging directories and backups alone.
LEMMA Touched ==
  ASSUME Base, NEW k \in Install, Step(k), NEW i \in Install, proc[i] \in alive,
         <<staging[i], backup[i]>>' # <<staging[i], backup[i]>>
  PROVE  proc[k] = proc[i]
  <1>0. /\ found \in [Install -> SUBSET Install]
        /\ staging \in [Install -> {"none", "partial", "whole"}]
        /\ backup \in [Install -> Tree \union {None}]
    BY DEF Base, Types
  <1>1. \A n \in found[k] : proc[n] = proc[k] \/ proc[n] \notin alive
    BY DEF Base, Listed
  <1>2. found[k] # {} => Newest(found[k]) \in found[k] /\ Oldest(found[k]) \in found[k]
    BY <1>0, Chosen DEF Base
  <1>3. CASE Recover(k)
    BY <1>0, <1>3 DEF Recover, Stale
  <1>4. CASE Restore(k)
    BY <1>0, <1>1, <1>2, <1>4 DEF Restore
  <1>5. CASE Prune(k)
    <2>1. staging' = staging /\ \A j \in Install : backup'[j] # backup[j] => j \in found[k]
      BY <1>0, <1>2, <1>5 DEF Prune
    <2> QED
      BY <1>1, <2>1
  <1>6. CASE \/ Stage(k) \/ EarlyError(k) \/ Download(k) \/ Unpack(k) \/ RunChild(k)
             \/ ChildExits(k) \/ ChildTimesOut(k) \/ ChildGone(k)
    BY <1>0, <1>6
       DEF Stage, EarlyError, Download, Unpack, RunChild, ChildExits, ChildTimesOut,
          ChildGone, Cleaned, disk
  <1>7. CASE TakeStamp(k) \/ Look(k) \/ SetAside(k) \/ SetAsideFails(k) \/ Activate(k)
    BY <1>0, <1>7 DEF TakeStamp, Look, SetAside, SetAsideFails, Activate, Cleaned, disk
  <1>8. CASE ActivateFails(k) \/ Discard(k)
    BY <1>0, <1>8 DEF ActivateFails, Discard, Undone, Cleaned
  <1> QED
    BY <1>3, <1>4, <1>5, <1>6, <1>7, <1>8 DEF Step

\* Only the deletions of recover and of prune disturb LivesUntouched: both take the head of
\* a list that holds no id of another living process.
LEMMA LivesStep ==
  Base /\ [Next]_vars =>
    [\A i \in Install :
       proc[i] \in alive \intersect alive' /\ <<staging[i], backup[i]>>' # <<staging[i], backup[i]>>
         => \E j \in Install : proc[j] = proc[i] /\ Step(j)]_vars
  <1> SUFFICES ASSUME Base, Next, NEW i \in Install, proc[i] \in alive,
                      <<staging[i], backup[i]>>' # <<staging[i], backup[i]>>
               PROVE  \E j \in Install : proc[j] = proc[i] /\ Step(j)
    OBVIOUS
  <1>1. ASSUME NEW k \in Install, Step(k)
        PROVE  \E j \in Install : proc[j] = proc[i] /\ Step(j)
    BY <1>1, Touched
  <1>2. ASSUME NEW k \in Install, NEW p \in Process, Begin(k, p) PROVE FALSE
    BY <1>2 DEF Begin, disk
  <1>3. ASSUME NEW p \in Process, Crash(p) \/ ShutDown(p) PROVE FALSE
    BY <1>3 DEF Crash, ShutDown, Ends, disk
  <1> QED
    BY <1>1, <1>2, <1>3 DEF Next

\* Of its own steps only the exit of its child lets an installation clean up or activate what
\* a child has written, and the recovery of another finds it only when it has ended.
LEMMA CleanStep ==
  Base /\ [Next]_vars =>
    [\A i \in Install : staging[i] # "none" /\ staging'[i] = "none" /\ i \in writing'
       => pc[i] \in Ended /\ \E j \in Install \ {i} : Recover(j)]_vars
  <1> SUFFICES ASSUME Base, Next, NEW i \in Install, staging[i] # "none", staging'[i] = "none",
                      i \in writing'
               PROVE  pc[i] \in Ended /\ \E j \in Install \ {i} : Recover(j)
    OBVIOUS
  <1>0. /\ i \in writing => pc[i] = "child" \/ pc[i] \in Ended
        /\ staging \in [Install -> {"none", "partial", "whole"}]
        /\ writing \subseteq Install
    BY DEF Base, Guarded, Types
  <1>1. ASSUME NEW k \in Install, Recover(k)
        PROVE  pc[i] \in Ended /\ \E j \in Install \ {i} : Recover(j)
    <2>1. i \in writing /\ k # i /\ Active(k) /\ proc[k] \in alive
      BY <1>0, <1>1 DEF Recover, Live, Active, Ended
    <2>2. proc[i] = proc[k] \/ proc[i] \notin alive
      BY <1>0, <1>1 DEF Recover, Stale
    <2>3. pc[i] # "child"
      <3>1. SUFFICES ASSUME pc[i] = "child" PROVE FALSE
        OBVIOUS
      <3>2. Active(i) /\ proc[i] \in alive
        BY <3>1 DEF Base, Guarded, Types, Active, Ended
      <3> QED
        BY <2>1, <2>2, <3>2 DEF Base, Guarded
    <2> QED
      BY <1>0, <1>1, <2>1, <2>3
  <1>2. ASSUME NEW k \in Install, Step(k), ~Recover(k) PROVE FALSE
    <2>1. CASE Restore(k) \/ Prune(k) \/ Stage(k) \/ EarlyError(k) \/ RunChild(k)
               \/ ChildGone(k) \/ TakeStamp(k) \/ Look(k) \/ Discard(k)
      BY <1>0, <2>1
         DEF Restore, Prune, Stage, EarlyError, RunChild, ChildGone, TakeStamp, Look, Discard,
             disk
    <2>2. CASE Download(k) \/ Unpack(k) \/ SetAside(k) \/ SetAsideFails(k) \/ Activate(k)
               \/ ActivateFails(k)
      <3>1. pc[k] \notin Ended \union {"child"} /\ writing' = writing
        BY <2>2 DEF Download, Unpack, SetAside, SetAsideFails, Activate, ActivateFails, Live, Ended
      <3>2. k = i
        BY <1>0, <2>2
           DEF Download, Unpack, SetAside, SetAsideFails, Activate, ActivateFails, Cleaned
      <3> QED
        BY <1>0, <3>1, <3>2
    <2>3. CASE ChildExits(k) \/ ChildTimesOut(k)
      BY <1>0, <2>3 DEF ChildExits, ChildTimesOut, Cleaned
    <2> QED
      BY <1>2, <2>1, <2>2, <2>3 DEF Step
  <1>3. ASSUME NEW k \in Install, NEW p \in Process, Begin(k, p) PROVE FALSE
    BY <1>3 DEF Begin, disk
  <1>4. ASSUME NEW p \in Process, Crash(p) \/ ShutDown(p) PROVE FALSE
    BY <1>4 DEF Crash, ShutDown, Ends, disk
  <1> QED
    BY <1>1, <1>2, <1>3, <1>4 DEF Next

\* What is promoted is complete, because archives are.
LEMMA CompleteStep ==
  Base /\ Complete /\ [Next]_vars => Complete'
  <1> SUFFICES ASSUME Base, Complete, [Next]_vars,
                      NEW j \in Install, pc'[j] \in {"promote", "look", "aside", "activate"}
               PROVE  staging'[j] = "whole"
    BY DEF Complete
  <1>0. /\ pc \in [Install -> Pcs] /\ proc \in [Install -> Process \union {None}]
        /\ staging \in [Install -> {"none", "partial", "whole"}]
    BY DEF Base, Types
  <1>1. ASSUME NEW i \in Install, Step(i) PROVE staging'[j] = "whole"
    <2>1. CASE Recover(i)
      <3>1. pc'[j] = pc[j] /\ Active(j) /\ Active(i) /\ i # j
        BY <1>0, <2>1 DEF Recover, Live, Go, Active, Ended
      <3>2. proc[j] \in alive /\ proc[i] # proc[j]
        BY <3>1 DEF Base, Guarded, Types
      <3>3. staging'[j] = staging[j]
        BY <2>1, <3>2 DEF Recover, Stale
      <3> QED
        BY <3>1, <3>3 DEF Complete
    <2>2. CASE Restore(i) \/ Prune(i) \/ EarlyError(i) \/ RunChild(i) \/ ChildGone(i)
      BY <1>0, <2>2
         DEF Restore, Prune, EarlyError, RunChild, ChildGone, Go, End, Complete, disk
    <2>3. CASE Stage(i) \/ Download(i) \/ ChildExits(i) \/ ChildTimesOut(i)
      BY <1>0, <2>3
         DEF Stage, Download, ChildExits, ChildTimesOut, Go, End, Cleaned, Complete
    <2>4. CASE Unpack(i)
      <3>1. \/ /\ staging' = [staging EXCEPT ![i] = "whole"]
               /\ pc' = [pc EXCEPT ![i] = "promote"]
            \/ /\ Cleaned(i) /\ pc' = [pc EXCEPT ![i] = "failed"]
        BY <2>4, ArchivesAreComplete DEF Unpack, Go, End, ArchivesComplete
      <3> QED
        BY <1>0, <3>1 DEF Cleaned, Complete
    <2>5. CASE TakeStamp(i) \/ Look(i) \/ SetAside(i) \/ Discard(i)
      BY <1>0, <2>5
         DEF TakeStamp, Look, SetAside, Discard, Live, Go, End, Cleaned, Complete, disk
    <2>6. CASE SetAsideFails(i) \/ Activate(i) \/ ActivateFails(i)
      BY <1>0, <2>6
         DEF SetAsideFails, Activate, ActivateFails, Go, End, Cleaned, Complete
    <2> QED
      BY <1>1, <2>1, <2>2, <2>3, <2>4, <2>5, <2>6 DEF Step
  <1>2. ASSUME NEW i \in Install, NEW p \in Process, Begin(i, p) PROVE staging'[j] = "whole"
    BY <1>0, <1>2 DEF Begin, Go, Complete, disk
  <1>3. ASSUME NEW p \in Process, Ends(p) PROVE staging'[j] = "whole"
    BY <1>0, <1>3 DEF Ends, Complete, disk
  <1>4. CASE UNCHANGED vars
    BY <1>4 DEF vars, disk, Complete
  <1> QED
    BY <1>1, <1>2, <1>3, <1>4 DEF Next, Crash, ShutDown

-----------------------------------------------------------------------------
(* The promise of AtomicInstall.                                           *)

\* The version that a recovery would find.
Shown == IF Kept = None THEN None ELSE Kept.version

\* The version the promise shows is one of the versions, or none.
LEMMA ShownTyped == Base => Shown \in Version \union {None}
  <1> SUFFICES ASSUME Base PROVE Shown \in Version \union {None}
    OBVIOUS
  <1>1. KeptKnown /\ Types
    BY KeptIs DEF Base
  <1>2. Kept = None \/ Kept = dest \/ \E j \in Install : backup[j] # None /\ Kept = backup[j]
    BY <1>1 DEF KeptKnown, Latest
  <1> QED
    BY <1>1, <1>2, Trees DEF Shown

\* The refinement, initial states.
LEMMA PromiseInit == Init => Promise!Init
  <1> SUFFICES ASSUME Init PROVE Promise!Init
    OBVIOUS
  <1>1. Shown \in Version \union {None}
    BY BaseInit, ShownTyped
  <1> QED
    BY <1>1 DEF Init, Promise!Init, Shown

\* The refinement, steps: an activation is a Replace, a backup that is put back or made
\* under an older stamp than another's a Collide, every other move of the trees a stutter.
LEMMA PromiseStep ==
  /\ Base /\ Spared /\ KeptKnown /\ [Next]_vars
  /\ KeptKnown' /\ (Shown \in Version \union {None})' /\ (retired \subseteq Version)'
  => [Promise!Next]_(Promise!vars)
  <1> SUFFICES ASSUME Base, Spared, KeptKnown, [Next]_vars, KeptKnown',
                      Shown' \in Version \union {None}, retired' \subseteq Version
               PROVE  Promise!Next \/ UNCHANGED <<Shown, retired, collided>>
    BY DEF Promise!vars, Shown
  <1>0. Types
    BY DEF Base
  <1>1. CASE collided'
    <2>1. collided' = TRUE
      BY <1>0, <1>1, Moves
         DEF Move, Unmoved, Deletes, PutsBack, SetsAside, Activates, Types
    <2>2. Promise!Collide
      BY <2>1 DEF Promise!Collide, Shown
    <2> QED
      BY <2>2 DEF Promise!Next
  <1>2. CASE ~collided'
    <2>0. Move
      BY Moves
    <2>1. CASE Unmoved
      <3>1. \A j \in Install : Latest(j)' <=> Latest(j)
        BY <2>1 DEF Unmoved, Latest
      <3>2. Kept' = Kept
        BY <2>1, <3>1 DEF Unmoved, KeptKnown
      <3> QED
        BY <2>1, <3>2 DEF Unmoved, Shown
    <2>2. ASSUME NEW o \in Install, Deletes(o) PROVE UNCHANGED <<Shown, retired, collided>>
      <3>1. UNCHANGED <<dest, stamp, collided, retired>>
        BY <2>2 DEF Deletes
      <3>2. CASE dest # None
        BY <3>1, <3>2 DEF KeptKnown, Shown
      <3>3. CASE dest = None
        <4>1. CASE \E j \in Install : Latest(j)
          BY <1>2, <2>2, <3>1, <3>3, <4>1, Deleting DEF KeptKnown, Shown
        <4>2. CASE \A j \in Install : ~Latest(j)
          <5>1. \A j \in Install : backup[j] = None
            BY <4>2 DEF KeptKnown
          <5>2. \A j \in Install : backup'[j] = None
            BY <2>2, <5>1 DEF Deletes
          <5>3. Kept = None /\ Kept' = None
            BY <3>1, <3>3, <5>1, <5>2 DEF KeptKnown
          <5> QED
            BY <3>1, <5>3 DEF Shown
        <4> QED
          BY <4>1, <4>2
      <3> QED
        BY <3>2, <3>3
    <2>3. ASSUME NEW i \in Install, SetsAside(i) PROVE UNCHANGED <<Shown, retired, collided>>
      <3>1. ~collided /\ \A j \in Install : Latest(j)' <=> j = i
        BY <1>2, <2>3, SettingAside
      <3>2. Kept = dest /\ Kept' = dest
        BY <2>3, <3>1 DEF SetsAside, KeptKnown
      <3>3. collided' = collided
        BY <1>0, <1>2, <2>3, <3>1 DEF SetsAside, Types
      <3> QED
        BY <2>3, <3>2, <3>3 DEF SetsAside, Shown
    <2>4. ASSUME NEW n \in Install, PutsBack(n) PROVE UNCHANGED <<Shown, retired, collided>>
      <3>1. dest = None /\ retired' = retired
        BY <2>4 DEF PutsBack
      <3>2. ~collided /\ Latest(n) /\ dest' = backup[n] /\ dest' # None
        BY <1>2, <2>4, PuttingBack
      <3>3. Kept = backup[n] /\ Kept' = backup[n]
        BY <3>1, <3>2 DEF KeptKnown
      <3>4. collided' = collided
        BY <1>0, <1>2, <2>4, <3>2 DEF PutsBack, Types
      <3> QED
        BY <3>1, <3>3, <3>4 DEF Shown
    <2>5. ASSUME NEW i \in Install, Activates(i) PROVE Promise!Next
      <3>1. /\ ~collided /\ collided' = collided /\ dest = None /\ pc[i] = "activate"
            /\ retired' = IF Kept = None THEN retired ELSE retired \union {Kept.version}
        BY <1>2, <2>5 DEF Activates
      <3>2. i \in Version /\ None \notin Version
        BY InstallerAssumption DEF Version
      <3>3. Shown' = i
        <4>1. dest' # None /\ dest'.version = i
          BY <1>0, <2>5, Activating
        <4> QED
          BY <4>1 DEF KeptKnown, Shown
      <3>4. Kept = None \/ \E j \in Install : backup[j] # None /\ Kept = backup[j]
        BY <1>0, <3>1, KeptTree
      <3>5. Kept # None => Kept.version \in Version /\ Kept.version # None
        BY <1>0, <3>2, <3>4, Trees
      <3>6. i \notin retired /\ i # Shown
        BY <3>1, <3>2, <3>4 DEF Base, Unused, Before, Shown
      <3>7. retired' = retired \union ({Shown} \ {None})
        BY <3>1, <3>5 DEF Shown
      <3>8. Promise!Replace(i)
        BY <3>1, <3>3, <3>6, <3>7 DEF Promise!Replace, Shown
      <3> QED
        BY <3>2, <3>8 DEF Promise!Next
    <2> QED
      BY <2>0, <2>1, <2>2, <2>3, <2>4, <2>5 DEF Move
  <1> QED
    BY <1>1, <1>2

-----------------------------------------------------------------------------
(* The results.                                                            *)

\* Hidden trees of a live daemon are moved and deleted by that daemon alone: the
\* lists that recover_stale_install_siblings works off name its own process or dead
\* ones, and a dead pid does not come back to life while they are worked off.
THEOREM LivesAreLeftAlone == Spec => LivesUntouched
  BY Based, LivesStep, PTL DEF Spec, LivesUntouched

\* A staging directory in which a child may write is not activated, nor removed by the
\* StagingGuard of its installation; only a recovery for another installation removes it,
\* when its own has ended.
THEOREM CleansAfterTheChild == Spec => CleanedAfterChild
  BY Based, CleanStep, PTL DEF Spec, CleanedAfterChild

\* The invariant of the trees: nobody deletes the newest backup while there is no
\* active tree, as long as no backup was put back or made under an older stamp than
\* that of another one (collided).
THEOREM NewestIsSpared == Spec => [](Base /\ Spared)
  <1>1. Init => Spared
    BY DEF Init, Spared, Latest
  <1> QED
    BY <1>1, Based, SparedStep, PTL DEF Spec

\* The promise of AtomicInstall is kept, whatever the archives are: an installation
\* is replaced as a whole by one that was never there before, and is never lost,
\* unless a backup is put back or made under an older stamp than another's.
THEOREM PromiseIsKept == Spec => KeepsPromise
  <1>1. Base => retired \subseteq Version
    BY DEF Base, Types
  <1> QED
    BY <1>1, NewestIsSpared, KeptIs, ShownTyped, PromiseInit, PromiseStep, PTL
       DEF Spec, KeepsPromise, Promise!Spec

\* The inductive invariant of complete trees.
LEMMA CompleteAndSound == Spec => [](Complete /\ Sound)
  <1>1. Init => Complete /\ Sound
    BY InstallerAssumption DEF Init, Complete, Sound, Latest
  <1> QED
    BY <1>1, NewestIsSpared, CompleteStep, SoundStep, PTL DEF Spec

\* The types of the state hold throughout, and a promotion works on a complete
\* tree.
THEOREM TypeCorrect == Spec => []TypeOK
  <1>1. Base /\ Complete => TypeOK
    BY DEF Base, Types, Complete, TypeOK, Pcs, Live
  <1> QED
    BY <1>1, Based, CompleteAndSound, PTL

\* The installation that a server start or a recovery finds is complete, whoever
\* was killed or failed at whatever step (installer.rs:460) and in whatever order the
\* stamps were read, as long as no backup was put back or made under an older stamp
\* than another's.
THEOREM KeptStaysWhole == Spec => []KeptIsWhole
  <1>1. Base /\ KeptKnown /\ Sound => KeptIsWhole
    BY DEF KeptKnown, Sound, KeptIsWhole
  <1> QED
    BY <1>1, Based, KeptIs, CompleteAndSound, PTL
=============================================================================
