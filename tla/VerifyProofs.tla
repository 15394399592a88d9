---------------------------- MODULE VerifyProofs ----------------------------
(***************************************************************************)
(* Proofs about verify's staging and reports, for any PRs, trees, payloads *)
(* and settings, and any number of runs and crashes.                       *)
(***************************************************************************)
EXTENDS Verify, FiniteSetTheorems, WellFoundedInduction, TLAPS

-----------------------------------------------------------------------------
\* Least and greatest numbers, and the PR in hand.

(* A set of numbers that is not empty has a least one. *)
LEMMA Least ==
  ASSUME NEW T \in SUBSET Nat, T # {}
  PROVE  \E m \in T : \A n \in T : m <= n
<1>1. IsWellFoundedOn(OpToRel(<, Nat), Nat)
  BY NatLessThanWellFounded
<1>2. PICK m \in T : \A n \in T : ~ (<<n, m>> \in OpToRel(<, Nat))
  BY <1>1, WFMin
<1>3. \A n \in T : ~ (n < m)
  BY <1>2 DEF OpToRel
<1> QED  BY <1>3

\* Whether a set of numbers has a greatest one.
HasMax(S) == \E n \in S : \A k \in S : k <= n

(* A finite set of numbers that is not empty has a greatest one. *)
LEMMA Greatest ==
  ASSUME NEW S \in SUBSET Nat, IsFiniteSet(S), S # {}
  PROVE  HasMax(S)
<1> DEFINE Bad(R) == R \subseteq Nat /\ IsFiniteSet(R) /\ R # {} /\ ~ HasMax(R)
           T == {n \in Nat : \E R \in SUBSET Nat : Bad(R) /\ Cardinality(R) = n}
<1>1. SUFFICES ASSUME ~ HasMax(S) PROVE FALSE
  OBVIOUS
<1>2. Cardinality(S) \in T
  BY <1>1, FS_CardinalityType
<1>3. PICK n \in T : \A k \in T : n <= k
  <2>1. T \in SUBSET Nat /\ T # {}
    BY <1>2
  <2> HIDE DEF T
  <2> QED  BY <2>1, Least
<1>4. PICK R \in SUBSET Nat : Bad(R) /\ Cardinality(R) = n
  BY <1>3
<1>5. PICK x \in R : TRUE
  BY <1>4
<1> DEFINE Q == R \ {x}
<1>6. IsFiniteSet(Q) /\ Cardinality(Q) = n - 1 /\ Cardinality(Q) \in Nat
  BY <1>4, <1>5, FS_RemoveElement, FS_CardinalityType
<1>7. n - 1 < n
  BY <1>3
<1>8. ~ Bad(Q)
  BY <1>3, <1>4, <1>6, <1>7
<1>9. CASE Q = {}
  <2>1. R = {x}
    BY <1>5, <1>9
  <2>2. HasMax(R)
    BY <1>4, <2>1 DEF HasMax
  <2> QED  BY <1>4, <2>2
<1>10. CASE Q # {}
  <2>1. PICK y \in Q : \A k \in Q : k <= y
    BY <1>4, <1>6, <1>8, <1>10 DEF HasMax
  <2>2. x \in Nat /\ y \in Nat /\ y \in R /\ Q \subseteq Nat
    BY <1>4, <1>5, <2>1
  <2>3. \A k \in R : k = x \/ k \in Q
    OBVIOUS
  <2>4. HasMax(R)
    <3>1. CASE x <= y
      BY <1>4, <2>1, <2>2, <2>3, <3>1 DEF HasMax
    <3>2. CASE y <= x
      <4>1. \A k \in R : k <= x
        BY <1>4, <2>1, <2>2, <2>3, <3>2
      <4> QED  BY <1>5, <4>1 DEF HasMax
    <3> QED  BY <2>2, <3>1, <3>2
  <2> QED  BY <1>4, <2>4
<1> QED  BY <1>9, <1>10

(* MaxOf is the greatest of a finite set of numbers, 0 of the empty one. *)
LEMMA MaxOfIs ==
  ASSUME NEW S \in SUBSET Nat, IsFiniteSet(S)
  PROVE  MaxOf(S) \in Nat /\ (S # {} => MaxOf(S) \in S)
BY Greatest DEF MaxOf, HasMax

(* What is computed of the members of a finite set is finite. *)
LEMMA ImageFinite ==
  ASSUME NEW S, IsFiniteSet(S), NEW f, DOMAIN f = S
  PROVE  IsFiniteSet({f[x] : x \in S})
<1> DEFINE T == {f[x] : x \in S}
           g == [x \in S |-> f[x]]
<1>1. g \in Surjection(S, T)
  BY DEF Surjection
<1> QED  BY <1>1, FS_Surjection

\* A rank has three numbers.
RankIs(r, p) == r[1] \in Nat /\ r[2] \in Nat /\ r[3] = p

(* A PR is ranked by the pawns and the men of its tables, then by its number
   (verify.py:315). *)
LEMMA Ranked ==
  ASSUME world \in Worlds, NEW p \in PRs, NEW h \in DOMAIN world.trees[p]
  PROVE  RankIs(Rank(p, h), p)
<1> DEFINE mats == DOMAIN Tree(p, h)
           pawns == [m \in mats |-> Materials[m].pawns]
           pieces == [m \in mats |-> Materials[m].pieces]
<1>1. mats \subseteq DOMAIN Materials
  BY VerifyAssumption DEF Tree, PRs
<1>2. IsFiniteSet(mats)
  BY <1>1, VerifyAssumption, FS_Subset
<1> HIDE DEF mats
<1>3. IsFiniteSet({pawns[m] : m \in mats}) /\ IsFiniteSet({pieces[m] : m \in mats})
  BY <1>2, ImageFinite
<1>4. /\ {pawns[m] : m \in mats} = {Materials[m].pawns : m \in mats}
      /\ {pieces[m] : m \in mats} = {Materials[m].pieces : m \in mats}
  OBVIOUS
<1>5. /\ {Materials[m].pawns : m \in mats} \in SUBSET Nat
      /\ {Materials[m].pieces : m \in mats} \in SUBSET Nat
  BY <1>1, VerifyAssumption
<1>6. /\ MaxOf({Materials[m].pawns : m \in mats}) \in Nat
      /\ MaxOf({Materials[m].pieces : m \in mats}) \in Nat
  BY <1>3, <1>4, <1>5, MaxOfIs
<1> QED  BY <1>6 DEF Rank, RankIs, mats

\* The PRs a run has before it, each at a head of its own.
Batch ==
  /\ run.todo \subseteq DOMAIN run.open /\ DOMAIN run.open \subseteq PRs
  /\ \A p \in DOMAIN run.open : run.open[p] \in DOMAIN world.trees[p]

(* The PR a run takes next is one of its batch (verify.py:459). *)
LEMMA NowIs ==
  ASSUME world \in Worlds, Batch, run.todo # {}
  PROVE  Now \in run.todo
<1> DEFINE todo == run.todo
           R(p) == RankNow(p)
<1>1. \A p \in todo : RankIs(R(p), p)
  BY Ranked DEF Batch, RankNow
<1>2. todo \subseteq Nat
  BY VerifyAssumption DEF Batch, PRs
<1> HIDE DEF todo, R
<1> DEFINE A == {R(p)[1] : p \in todo}
<1>3. PICK a \in A : \A x \in A : a <= x
  <2>1. A \in SUBSET Nat /\ A # {}
    BY <1>1 DEF RankIs, todo
  <2> HIDE DEF A
  <2> QED  BY <2>1, Least
<1> DEFINE S == {p \in todo : R(p)[1] = a}
           B == {R(p)[2] : p \in S}
<1>4. PICK b \in B : \A x \in B : b <= x
  <2>1. B \in SUBSET Nat /\ B # {}
    BY <1>1, <1>3 DEF RankIs
  <2> HIDE DEF B
  <2> QED  BY <2>1, Least
<1> DEFINE C == {p \in S : R(p)[2] = b}
<1>5. PICK c \in C : \A x \in C : c <= x
  <2>1. C \in SUBSET Nat /\ C # {}
    BY <1>2, <1>4
  <2> HIDE DEF C
  <2> QED  BY <2>1, Least
<1>6. c \in todo /\ R(c)[1] = a /\ R(c)[2] = b
  BY <1>5
<1>7. ASSUME NEW q \in todo \ {c} PROVE Before(R(c), R(q))
  <2>1. RankIs(R(q), q) /\ RankIs(R(c), c) /\ q \in Nat /\ c \in Nat /\ q # c
    BY <1>1, <1>2, <1>6
  <2>2. a \in Nat /\ a <= R(q)[1]
    BY <1>1, <1>3 DEF RankIs
  <2>3. CASE a < R(q)[1]
    BY <1>6, <2>3 DEF Before
  <2>4. CASE a = R(q)[1]
    <3>1. b \in Nat /\ b <= R(q)[2]
      BY <1>1, <1>4, <2>4 DEF RankIs
    <3>2. CASE b < R(q)[2]
      BY <1>6, <2>4, <3>2 DEF Before
    <3>3. CASE b = R(q)[2]
      <4>1. c <= q
        BY <1>5, <2>4, <3>3
      <4> QED  BY <1>6, <2>1, <2>4, <3>3, <4>1 DEF Before, RankIs
    <3> QED  BY <2>1, <3>1, <3>2, <3>3 DEF RankIs
  <2> QED  BY <2>1, <2>2, <2>3, <2>4 DEF RankIs
<1>8. \E p \in run.todo : \A q \in run.todo \ {p} : Before(RankNow(p), RankNow(q))
  BY <1>6, <1>7 DEF R, todo
<1> QED  BY <1>8 DEF Now

-----------------------------------------------------------------------------
\* The inductive invariant.

Heads(p) == DOMAIN world.trees[p]

Setup ==
  /\ world \in Worlds
  /\ prs = [p \in PRs |-> [status |-> prs[p].status, at |-> prs[p].at]]
  /\ \A p \in PRs : prs[p].at \in Heads(p)

\* The head the files of a PR were last fetched for, at most.
HeadNow(p) == IF run # None /\ p \in DOMAIN run.open THEN run.open[p] ELSE prs[p].at

DirFields == {"files", "record", "report", "partial"}
RecordFields == {"head", "files"}
DirIs(d) ==
  /\ d = [f \in DirFields |-> d[f]]
  /\ d.record = [f \in RecordFields |-> d.record[f]]

\* c is what the head h has for m.
From(p, m, c, h) == h \in Heads(p) /\ m \in DOMAIN Tree(p, h) /\ c = Tree(p, h)[m]

(* A staged file is one of a head fetched so far, and the record of it is of that head or of
   one before: the file is replaced before its record. *)
FilesAre(p, d, top) ==
  /\ \A m \in DOMAIN d.record.files :
       \E h \in Heads(p) : h <= top /\ From(p, m, d.record.files[m], h)
  /\ \A m \in DOMAIN d.files :
       \E h \in Heads(p) :
         /\ h <= top /\ From(p, m, d.files[m], h)
         /\ m \in DOMAIN d.record.files =>
              \E k \in Heads(p) : k <= h /\ From(p, m, d.record.files[m], k)

\* An entry tells of one content, under the settings of its report.
EntryIs(e, c, settings) == e.sha = c /\ e.seen = c /\ e.settings = settings
ReportIs(p, r) ==
  /\ r.head \in Heads(p) /\ DOMAIN r.tables \subseteq DOMAIN Tree(p, r.head)
  /\ \A m \in DOMAIN r.tables : EntryIs(r.tables[m], Tree(p, r.head)[m], r.settings)
WholeIs(p, r) ==
  /\ ReportIs(p, r) /\ DOMAIN r.tables = DOMAIN Tree(p, r.head)
  /\ r.pass => Tidy(p, r.head)
ReportsAre(p, d) ==
  /\ IsReport(d.report) => WholeIs(p, d.report)
  /\ IsReport(d.partial) => ReportIs(p, d.partial)

Dirs ==
  /\ staging = [p \in PRs |-> staging[p]]
  /\ \A p \in PRs : /\ DirIs(staging[p])
                    /\ FilesAre(p, staging[p], HeadNow(p))
                    /\ ReportsAre(p, staging[p])

RunFields == {"at", "todo", "open", "manifest", "settings", "full", "sources", "left",
              "overlay", "entries", "delivered"}
RunIs ==
  run # None =>
    /\ run = [f \in RunFields |-> run[f]]
    /\ Batch
    /\ \A p \in DOMAIN run.open : run.open[p] <= prs[p].at
    /\ run.at # "pr" => run.todo # {}

\* What an earlier run left and this one may take over.
SourceIs(r) ==
  IsReport(r) => \A m \in DOMAIN r.tables : EntryIs(r.tables[m], r.tables[m].sha, r.settings)
Sources ==
  /\ DOMAIN run.sources \subseteq Nat
  /\ \A i \in DOMAIN run.sources : SourceIs(run.sources[i])
Entries ==
  /\ DOMAIN run.entries \subseteq DOMAIN Wanted
  /\ \A m \in DOMAIN run.entries : EntryIs(run.entries[m], Wanted[m], run.settings)

\* m is staged as the head has it, and recorded so.
Held(m) ==
  /\ m \in DOMAIN Here.files /\ Here.files[m] = Wanted[m]
  /\ m \in DOMAIN Here.record.files /\ Here.record.files[m] = Wanted[m]
Fetching ==
  /\ run.left \subseteq DOMAIN Wanted
  /\ \A m \in DOMAIN Wanted \ run.left : Held(m)
Fetched ==
  LET m == First(run.left)
  IN  run.left # {} /\ m \in DOMAIN Here.files /\ Here.files[m] = Wanted[m]

Working ==
  run # None /\ run.at # "pr" =>
    /\ Sources /\ Entries
    /\ run.at \in {"fetch", "note"} => Fetching
    /\ run.at = "note" => Fetched
    /\ run.at \in {"overlay", "table"} => \A m \in DOMAIN Wanted : Held(m)
    /\ run.at = "table" => \A m \in DOMAIN Wanted : run.overlay[m] = Wanted[m]
    /\ run.at \in {"report", "done"} => DOMAIN run.entries = DOMAIN Wanted

IInv == Setup /\ RunIs /\ Dirs /\ Working

-----------------------------------------------------------------------------
\* Steps that write a directory, and steps that write none.

(* Heads are numbers. *)
LEMMA HeadsAreNat ==
  ASSUME world \in Worlds, NEW p \in PRs
  PROVE  Heads(p) \subseteq Nat /\ 1 \in Heads(p)
BY VerifyAssumption DEF Heads, PRs

(* The head of a PR is one of its heads, in a run and between runs. *)
LEMMA HeadNowIs ==
  ASSUME Setup, RunIs, NEW p \in PRs
  PROVE  HeadNow(p) \in Heads(p) /\ HeadNow(p) <= prs[p].at
<1>1. prs[p].at \in Heads(p) /\ prs[p].at \in Nat
  BY HeadsAreNat DEF Setup
<1> QED  BY <1>1 DEF RunIs, Batch, HeadNow, Heads

(* What is true of files fetched so far stays true when more may have been fetched. *)
LEMMA FilesLater ==
  ASSUME world \in Worlds, NEW p \in PRs, NEW d, NEW t \in Nat, NEW u \in Nat, t <= u,
         FilesAre(p, d, t)
  PROVE  FilesAre(p, d, u)
<1>1. Heads(p) \subseteq Nat
  BY HeadsAreNat
<1>2. \A h \in Heads(p) : h <= t => h <= u
  BY <1>1
<1> HIDE DEF Heads
<1> QED  BY <1>2 DEF FilesAre

\* The world a step leaves as it is.
SameWorld == UNCHANGED world /\ \A p \in PRs : HeadNow(p) <= HeadNow(p)' /\ HeadNow(p)' \in Nat

(* Heads, files and reports of a directory depend on nothing that a step changes. *)
LEMMA SameMeaning ==
  ASSUME UNCHANGED world
  PROVE  /\ PRs' = PRs
         /\ \A p : Heads(p)' = Heads(p)
         /\ \A p, d, t : FilesAre(p, d, t)' <=> FilesAre(p, d, t)
         /\ \A p, d : ReportsAre(p, d)' <=> ReportsAre(p, d)
BY DEF PRs, Heads, FilesAre, From, Tree, ReportsAre, WholeIs, ReportIs, Tidy

(* A step that writes no directory keeps all of them true. *)
LEMMA DirsKept ==
  ASSUME Setup, RunIs, Dirs, SameWorld, UNCHANGED staging
  PROVE  Dirs'
<1>1. PRs' = PRs
  BY SameMeaning DEF SameWorld
<1>2. ASSUME NEW p \in PRs
      PROVE  /\ DirIs(staging[p])' /\ FilesAre(p, staging[p], HeadNow(p))'
             /\ ReportsAre(p, staging[p])'
  <2> DEFINE d == staging[p]
  <2>1. DirIs(d) /\ FilesAre(p, d, HeadNow(p)) /\ ReportsAre(p, d)
    BY DEF Dirs
  <2>2. HeadNow(p) \in Nat
    BY HeadNowIs, HeadsAreNat DEF Setup
  <2>3. HeadNow(p)' \in Nat /\ HeadNow(p) <= HeadNow(p)'
    BY DEF SameWorld
  <2>4. staging'[p] = d
    OBVIOUS
  <2> HIDE DEF d
  <2> DEFINE u == HeadNow(p)'
  <2>5. FilesAre(p, d, u)
    BY <2>1, <2>2, <2>3, FilesLater DEF Setup
  <2> HIDE DEF u
  <2> QED  BY <2>1, <2>4, <2>5, SameMeaning DEF SameWorld, DirIs, u
<1> QED  BY <1>1, <1>2 DEF Dirs

(* A step that writes the directory of one PR keeps all of them true when what it writes is. *)
LEMMA DirsWritten ==
  ASSUME Setup, RunIs, Dirs, SameWorld, NEW q \in PRs, NEW d,
         staging' = [staging EXCEPT ![q] = d],
         DirIs(d), FilesAre(q, d, HeadNow(q)), ReportsAre(q, d)
  PROVE  Dirs'
<1>1. PRs' = PRs
  BY SameMeaning DEF SameWorld
<1>2. staging' = [p \in PRs |-> staging'[p]]
  BY DEF Dirs
<1>3. ASSUME NEW p \in PRs
      PROVE  /\ DirIs(staging[p])' /\ FilesAre(p, staging[p], HeadNow(p))'
             /\ ReportsAre(p, staging[p])'
  <2> DEFINE e == IF p = q THEN d ELSE staging[p]
  <2>1. DirIs(e) /\ FilesAre(p, e, HeadNow(p)) /\ ReportsAre(p, e)
    BY DEF Dirs
  <2>2. HeadNow(p) \in Nat
    BY HeadNowIs, HeadsAreNat DEF Setup
  <2>3. HeadNow(p)' \in Nat /\ HeadNow(p) <= HeadNow(p)'
    BY DEF SameWorld
  <2>4. staging'[p] = e
    BY DEF Dirs
  <2> HIDE DEF e
  <2> DEFINE u == HeadNow(p)'
  <2>5. FilesAre(p, e, u)
    BY <2>1, <2>2, <2>3, FilesLater DEF Setup
  <2> HIDE DEF u
  <2> QED  BY <2>1, <2>4, <2>5, SameMeaning DEF SameWorld, DirIs, u
<1> QED  BY <1>1, <1>2, <1>3 DEF Dirs

(* A step of the process, of which only the run's own place and findings change. *)
SameRun ==
  /\ UNCHANGED <<world, hubVars>> /\ run # None
  /\ run' # None /\ run' = [f \in RunFields |-> run'[f]]
  /\ run'.open = run.open /\ run'.todo = run.todo /\ run'.settings = run.settings

(* Such a step keeps the PRs, the batch and what is in hand. *)
LEMMA RunKept ==
  ASSUME Setup, RunIs, SameRun, run.at # "pr"
  PROVE  /\ Setup' /\ RunIs' /\ SameWorld
         /\ Now' = Now /\ Wanted' = Wanted
         /\ Now \in PRs /\ Now \in DOMAIN run.open /\ HeadNow(Now) = run.open[Now]
         /\ run.open[Now] \in Heads(Now)
<1>1. UNCHANGED <<world, prs>> /\ PRs' = PRs
  BY DEF SameRun, hubVars, PRs
<1>2. Now' = Now
  BY <1>1 DEF SameRun, Now, RankNow, Rank, Tree
<1>3. Wanted' = Wanted
  BY <1>1, <1>2 DEF SameRun, Wanted, Tree
<1>4. Setup'
  BY <1>1 DEF Setup, Heads
<1>5. RunIs'
  BY <1>1 DEF SameRun, RunIs, Batch
<1>6. Now \in run.todo
  BY NowIs DEF Setup, RunIs, SameRun
<1>7. Now \in PRs /\ Now \in DOMAIN run.open /\ run.open[Now] \in Heads(Now)
  BY <1>6 DEF RunIs, SameRun, Batch, Heads
<1>8. HeadNow(Now) = run.open[Now]
  BY <1>7 DEF HeadNow, SameRun
<1>9. SameWorld
  <2>1. \A p : HeadNow(p)' = HeadNow(p)
    BY <1>1 DEF SameRun, HeadNow
  <2>2. \A p \in PRs : HeadNow(p) \in Nat
    BY HeadNowIs, HeadsAreNat DEF Setup
  <2> QED  BY <1>1, <2>1, <2>2 DEF SameWorld
<1> QED  BY <1>2, <1>3, <1>4, <1>5, <1>7, <1>8, <1>9

(* What has been found of a PR stays found when what it was found from stays. *)
LEMMA SourcesKept ==
  ASSUME Sources, run'.sources = run.sources
  PROVE  Sources'
BY DEF Sources, SourceIs, EntryIs, IsReport

(* Nor do another PR's reports or another time change an entry of the run. *)
LEMMA EntriesKept ==
  ASSUME Entries, run'.entries = run.entries, run'.settings = run.settings, Wanted' = Wanted
  PROVE  Entries'
BY DEF Entries, EntryIs

(* A file that is held is held while its directory and its head are. *)
LEMMA HeldKept ==
  ASSUME Here' = Here, Wanted' = Wanted, NEW m, Held(m)
  PROVE  Held(m)'
BY DEF Held

(* A run is not the absence of one. *)
LEMMA RunIsSome ==
  ASSUME NEW r, r = [f \in RunFields |-> r[f]]
  PROVE  r # None
<1>1. "at" \in DOMAIN r
  BY DEF RunFields
<1>2. DOMAIN None = {}
  BY DEF None
<1> QED  BY <1>1, <1>2

-----------------------------------------------------------------------------
\* The steps.

\* At first every PR has one push, and nothing is staged.
LEMMA InitInvariant == ASSUME Init PROVE IInv
<1>1. /\ world \in Worlds /\ run = None
      /\ prs = [p \in PRs |-> [status |-> "open", at |-> 1]]
      /\ staging = [p \in PRs |-> Empty]
  BY DEF Init
<1>2. Setup
  BY <1>1, HeadsAreNat DEF Setup
<1>3. RunIs /\ Working
  BY <1>1 DEF RunIs, Working
<1>4. DirIs(Empty) /\ Empty.files = <<>> /\ Empty.record.files = <<>>
      /\ ~ IsReport(Empty.report) /\ ~ IsReport(Empty.partial)
  BY DEF DirIs, Empty, NoRecord, DirFields, RecordFields, IsReport
<1>5. \A p, t : FilesAre(p, Empty, t)
  BY <1>4 DEF FilesAre
<1>6. Dirs
  BY <1>1, <1>4, <1>5 DEF Dirs, ReportsAre
<1> QED  BY <1>2, <1>3, <1>6 DEF IInv

\* A run begins with open PRs at their heads of the moment.
LEMMA StartStep == ASSUME IInv, Start PROVE IInv' /\ SameWorld
<1>1. PICK batch \in (SUBSET Open) \ {{}}, settings \in world.settings, full \in world.full :
        run' = [at |-> "pr", todo |-> batch, open |-> [p \in Open |-> HeadOf(p)],
                manifest |-> DOMAIN published, settings |-> settings, full |-> full,
                sources |-> <<>>, left |-> {}, overlay |-> <<>>, entries |-> <<>>,
                delivered |-> <<>>]
  BY DEF Start
<1>2. UNCHANGED <<world, prs, staging>> /\ run = None
  BY DEF Start, hubVars
<1>3. Open \subseteq PRs /\ PRs' = PRs
  BY <1>2 DEF Open, PRs
<1>4. Setup'
  BY <1>2, <1>3 DEF IInv, Setup, Heads
<1>5. run'.open = [p \in Open |-> prs[p].at] /\ run'.todo = batch /\ run'.at = "pr"
  BY <1>1 DEF HeadOf
<1>6. \A p \in PRs : prs[p].at \in Heads(p) /\ prs[p].at \in Nat
  BY HeadsAreNat DEF IInv, Setup
<1>7. RunIs'
  <2>1. run' = [f \in RunFields |-> run'[f]]
    BY <1>1 DEF RunFields
  <2>2. Batch'
    BY <1>2, <1>3, <1>5, <1>6 DEF Batch, Heads
  <2>3. \A p \in DOMAIN run'.open : run'.open[p] <= prs'[p].at
    BY <1>2, <1>3, <1>5, <1>6
  <2> QED  BY <1>5, <2>1, <2>2, <2>3 DEF RunIs
<1>8. SameWorld
  <2>1. \A p \in PRs : HeadNow(p) = prs[p].at
    BY <1>2 DEF HeadNow
  <2>2. \A p \in PRs : HeadNow(p)' = prs[p].at
    BY <1>2, <1>5 DEF HeadNow
  <2> QED  BY <1>2, <1>6, <2>1, <2>2 DEF SameWorld
<1>9. Dirs'
  BY <1>2, <1>8, DirsKept DEF IInv
<1>10. Working'
  BY <1>5 DEF Working
<1> QED  BY <1>4, <1>7, <1>8, <1>9, <1>10 DEF IInv

\* A run takes up a PR with the reports that earlier ones left, or ends.
LEMMA TakePrStep == ASSUME IInv, TakePr PROVE IInv' /\ SameWorld
<1>1. UNCHANGED <<world, hubVars, prs, staging>> /\ run # None /\ run.at = "pr"
  BY DEF TakePr, hubVars
<1>2. CASE run.todo = {}
  <2>1. run' = None
    BY <1>2 DEF TakePr
  <2>2. Setup' /\ RunIs' /\ Working'
    BY <1>1, <2>1 DEF IInv, Setup, Heads, PRs, RunIs, Working
  <2>3. SameWorld
    <3>1. \A p \in PRs : HeadNow(p)' = prs[p].at
      BY <1>1, <2>1 DEF HeadNow
    <3>2. \A p \in PRs : HeadNow(p) <= prs[p].at /\ prs[p].at \in Nat
      BY HeadNowIs, HeadsAreNat DEF IInv, Setup
    <3> QED  BY <1>1, <3>1, <3>2 DEF SameWorld
  <2>4. Dirs'
    BY <1>1, <2>3, DirsKept DEF IInv
  <2> QED  BY <2>2, <2>3, <2>4 DEF IInv
<1>3. CASE run.todo # {}
  <2> DEFINE s == IF run.full THEN <<>> ELSE <<Here.report, Here.partial>>
  <2>1. run' = [run EXCEPT !.at = "stage", !.entries = <<>>, !.sources = s]
    BY <1>3 DEF TakePr
  <2>2. run = [f \in RunFields |-> run[f]] /\ Batch
    BY <1>1 DEF IInv, RunIs
  <2>3. /\ run' = [f \in RunFields |-> run'[f]] /\ run'.at = "stage" /\ run'.entries = <<>>
        /\ run'.sources = s /\ run'.open = run.open /\ run'.todo = run.todo
    BY <2>1, <2>2 DEF RunFields
  <2>4. run' # None
    BY <2>3, RunIsSome
  <2>5. Setup' /\ RunIs'
    BY <1>1, <1>3, <2>3 DEF IInv, Setup, Heads, PRs, RunIs, Batch
  <2>6. Now \in PRs
    BY <1>3, <2>2, NowIs DEF IInv, Setup, Batch
  <2>7. SameWorld
    <3>1. \A p \in PRs : HeadNow(p)' = HeadNow(p)
      BY <1>1, <2>3, <2>4 DEF HeadNow
    <3>2. \A p \in PRs : HeadNow(p) \in Nat
      BY HeadNowIs, HeadsAreNat DEF IInv, Setup
    <3> QED  BY <1>1, <3>1, <3>2 DEF SameWorld
  <2>8. Dirs'
    BY <1>1, <2>7, DirsKept DEF IInv
  <2>9. Sources'
    <3>1. ReportsAre(Now, Here)
      BY <2>6 DEF IInv, Dirs, Here
    <3>2. SourceIs(Here.report) /\ SourceIs(Here.partial)
      BY <3>1 DEF ReportsAre, WholeIs, ReportIs, SourceIs, EntryIs
    <3>3. \A i \in DOMAIN s : i \in Nat /\ SourceIs(s[i])
      BY <3>2
    <3> HIDE DEF s
    <3> QED  BY <2>3, <3>3 DEF Sources, SourceIs, EntryIs, IsReport
  <2>10. Working'
    BY <2>3, <2>9 DEF Working, Entries
  <2> QED  BY <2>5, <2>7, <2>8, <2>10 DEF IInv
<1> QED  BY <1>2, <1>3

(* The directory in hand. *)
LEMMA HereIs ==
  ASSUME IInv, Now \in PRs
  PROVE  /\ staging = [p \in PRs |-> staging[p]] /\ Here = staging[Now]
         /\ DirIs(Here) /\ FilesAre(Now, Here, HeadNow(Now)) /\ ReportsAre(Now, Here)
BY DEF IInv, Dirs, Here

\* A directory with other files, a record, or a report.
WithFiles(d, fs, rec) == [d EXCEPT !.files = fs, !.record = rec]
WithReport(d, r) == [d EXCEPT !.report = r]
WithPartial(d, r) == [d EXCEPT !.partial = r]

(* Staging changes the files and their record, not the reports. *)
LEMMA WithFilesIs ==
  ASSUME NEW d, DirIs(d), NEW fs, NEW rec, rec = [f \in RecordFields |-> rec[f]]
  PROVE  LET e == WithFiles(d, fs, rec)
         IN  /\ DirIs(e) /\ e.files = fs /\ e.record = rec
             /\ e.report = d.report /\ e.partial = d.partial
BY DEF DirIs, DirFields, WithFiles

(* A report changes nothing else of its directory. *)
LEMMA WithReportIs ==
  ASSUME NEW d, DirIs(d), NEW r
  PROVE  LET e == WithReport(d, r)
         IN  /\ DirIs(e) /\ e.files = d.files /\ e.record = d.record
             /\ e.report = r /\ e.partial = d.partial
BY DEF DirIs, DirFields, WithReport

(* Nor does a partial report. *)
LEMMA WithPartialIs ==
  ASSUME NEW d, DirIs(d), NEW r
  PROVE  LET e == WithPartial(d, r)
         IN  /\ DirIs(e) /\ e.files = d.files /\ e.record = d.record
             /\ e.report = d.report /\ e.partial = r
BY DEF DirIs, DirFields, WithPartial

(* Of a directory's files any part may go, and of their records any part. *)
LEMMA FilesLess ==
  ASSUME NEW p, NEW d, NEW t, FilesAre(p, d, t), NEW e,
         DOMAIN e.files \subseteq DOMAIN d.files,
         \A m \in DOMAIN e.files : e.files[m] = d.files[m],
         DOMAIN e.record.files \subseteq DOMAIN d.record.files,
         \A m \in DOMAIN e.record.files : e.record.files[m] = d.record.files[m]
  PROVE  FilesAre(p, e, t)
BY DEF FilesAre

\* Files the head does not have go.
LEMMA StageStep == ASSUME IInv, Stage PROVE IInv'
<1>1. /\ UNCHANGED <<world, hubVars>> /\ run # None /\ run.at = "stage"
      /\ staging' = [staging EXCEPT ![Now] = WithFiles(Here, Kept, KeptRecord)]
      /\ run' = [run EXCEPT !.at = "fetch", !.left = DOMAIN Wanted]
  BY DEF Stage, Write, WithFiles
<1> DEFINE d == WithFiles(Here, Kept, KeptRecord)
<1>2. run = [f \in RunFields |-> run[f]]
  BY <1>1 DEF IInv, RunIs
<1>3. /\ run' = [f \in RunFields |-> run'[f]] /\ run'.at = "fetch" /\ run'.left = DOMAIN Wanted
      /\ run'.open = run.open /\ run'.todo = run.todo /\ run'.settings = run.settings
      /\ run'.sources = run.sources /\ run'.entries = run.entries
  BY <1>1, <1>2 DEF RunFields
<1>4. SameRun
  BY <1>1, <1>3, RunIsSome DEF SameRun
<1>5. /\ Setup' /\ RunIs' /\ SameWorld /\ Now' = Now /\ Wanted' = Wanted
      /\ Now \in PRs /\ HeadNow(Now) = run.open[Now]
  BY <1>1, <1>4, RunKept DEF IInv
<1>6. DirIs(Here) /\ FilesAre(Now, Here, HeadNow(Now)) /\ ReportsAre(Now, Here)
  BY <1>5, HereIs
<1>7. KeptRecord = [f \in RecordFields |-> KeptRecord[f]]
  BY DEF KeptRecord, RecordFields
<1>8. /\ DirIs(d) /\ d.files = Kept /\ d.record = KeptRecord
      /\ d.report = Here.report /\ d.partial = Here.partial
  BY <1>6, <1>7, WithFilesIs
<1>9. FilesAre(Now, d, HeadNow(Now))
  <2>1. /\ DOMAIN Kept \subseteq DOMAIN Here.files
        /\ \A m \in DOMAIN Kept : Kept[m] = Here.files[m]
    BY DEF Kept, Only
  <2>2. /\ DOMAIN KeptRecord.files \subseteq DOMAIN Here.record.files
        /\ \A m \in DOMAIN KeptRecord.files : KeptRecord.files[m] = Here.record.files[m]
    BY DEF KeptRecord, Only
  <2> HIDE DEF d
  <2> QED  BY <1>6, <1>8, <2>1, <2>2, FilesLess
<1>10. Dirs'
  <2>1. ReportsAre(Now, d)
    BY <1>6, <1>8 DEF ReportsAre
  <2> QED  BY <1>1, <1>5, <1>8, <1>9, <2>1, DirsWritten DEF IInv
<1>11. Working'
  <2>1. Sources /\ Entries
    BY <1>1 DEF IInv, Working
  <2>2. Sources' /\ Entries'
    BY <1>3, <1>5, <2>1, SourcesKept, EntriesKept
  <2>3. Fetching'
    BY <1>3, <1>5 DEF Fetching
  <2> QED  BY <1>3, <2>2, <2>3 DEF Working
<1> QED  BY <1>5, <1>10, <1>11 DEF IInv

(* A file that looks staged is what the head has: its size alone would not say so, but the
   record is of the file's head or of an earlier one, and nobody pushed a content back. *)
LEMMA StagedIs ==
  ASSUME ~ AlikeInSize \/ NeverBack, world \in Worlds, NEW p \in PRs, NEW t \in Heads(p),
         NEW d, FilesAre(p, d, t), NEW m \in DOMAIN Tree(p, t), Staged(d, m, Tree(p, t)[m])
  PROVE  d.files[m] = Tree(p, t)[m]
<1>1. CASE ~ AlikeInSize
  BY <1>1 DEF Staged, SameSize
<1>2. CASE NeverBack
  <2>1. m \in DOMAIN d.files /\ m \in DOMAIN d.record.files /\ d.record.files[m] = Tree(p, t)[m]
    BY DEF Staged
  <2>2. PICK h \in Heads(p) :
          /\ h <= t /\ From(p, m, d.files[m], h)
          /\ \E k \in Heads(p) : k <= h /\ From(p, m, d.record.files[m], k)
    BY <2>1 DEF FilesAre
  <2>3. PICK k \in Heads(p) : k <= h /\ From(p, m, d.record.files[m], k)
    BY <2>2
  <2>4. Tree(p, k)[m] = Tree(p, t)[m] /\ m \in DOMAIN Tree(p, k) /\ m \in DOMAIN Tree(p, h)
    BY <2>1, <2>2, <2>3 DEF From
  <2>5. Tree(p, h)[m] = Tree(p, t)[m]
    <3> DEFINE trees == world.trees[p]
    <3>1. \A g, j, l \in DOMAIN trees :
            \A n \in DOMAIN trees[g].files \cap DOMAIN trees[j].files \cap DOMAIN trees[l].files :
              g <= j /\ j <= l /\ trees[g].files[n] = trees[l].files[n] =>
                trees[j].files[n] = trees[l].files[n]
      BY <1>2 DEF NeverBack, PRs
    <3>2. /\ trees[k].files[m] = trees[t].files[m]
          /\ m \in DOMAIN trees[k].files /\ m \in DOMAIN trees[h].files
          /\ m \in DOMAIN trees[t].files
          /\ k \in DOMAIN trees /\ h \in DOMAIN trees /\ t \in DOMAIN trees
      BY <2>2, <2>3, <2>4 DEF Tree, Heads
    <3> HIDE DEF trees
    <3>3. trees[h].files[m] = trees[t].files[m]
      BY <2>2, <2>3, <3>1, <3>2
    <3> QED  BY <3>3 DEF Tree, trees
  <2> QED  BY <2>2, <2>5 DEF From
<1> QED  BY <1>1, <1>2

(* The next name is one of those left. *)
LEMMA FirstIs ==
  ASSUME NEW S, S # {}
  PROVE  First(S) \in S
BY DEF First

\* A file of the head is downloaded, unless it is staged.
LEMMA FetchStep == ASSUME ~ AlikeInSize \/ NeverBack, IInv, Fetch PROVE IInv'
<1> DEFINE m == First(run.left)
           c == Wanted[m]
<1>1. UNCHANGED <<world, hubVars>> /\ run # None /\ run.at = "fetch"
  BY DEF Fetch
<1>2. run = [f \in RunFields |-> run[f]]
  BY <1>1 DEF IInv, RunIs
<1>3. Sources /\ Entries /\ Fetching
  BY <1>1 DEF IInv, Working
<1>4. CASE run.left = {}
  <2>1. run' = [run EXCEPT !.at = "overlay"] /\ UNCHANGED staging
    BY <1>4 DEF Fetch, Step
  <2>2. /\ run' = [f \in RunFields |-> run'[f]] /\ run'.at = "overlay"
        /\ run'.open = run.open /\ run'.todo = run.todo /\ run'.settings = run.settings
        /\ run'.sources = run.sources /\ run'.entries = run.entries
    BY <1>2, <2>1 DEF RunFields
  <2>3. SameRun
    BY <1>1, <2>2, RunIsSome DEF SameRun
  <2>4. Setup' /\ RunIs' /\ SameWorld /\ Now' = Now /\ Wanted' = Wanted
    BY <1>1, <2>3, RunKept DEF IInv
  <2>5. Dirs'
    BY <2>1, <2>4, DirsKept DEF IInv
  <2>6. Here' = Here
    BY <2>1, <2>4 DEF Here
  <2>7. \A n \in DOMAIN Wanted' : Held(n)'
    BY <1>3, <1>4, <2>4, <2>6, HeldKept DEF Fetching
  <2>8. Sources' /\ Entries'
    BY <1>3, <2>2, <2>4, SourcesKept, EntriesKept
  <2>9. Working'
    BY <2>2, <2>7, <2>8 DEF Working
  <2> QED  BY <2>4, <2>5, <2>9 DEF IInv
<1>5. CASE run.left # {} /\ Staged(Here, m, c)
  <2>1. run' = [run EXCEPT !.left = run.left \ {m}] /\ UNCHANGED staging
    BY <1>5 DEF Fetch
  <2>2. /\ run' = [f \in RunFields |-> run'[f]] /\ run'.at = "fetch"
        /\ run'.left = run.left \ {m}
        /\ run'.open = run.open /\ run'.todo = run.todo /\ run'.settings = run.settings
        /\ run'.sources = run.sources /\ run'.entries = run.entries
    BY <1>1, <1>2, <2>1 DEF RunFields
  <2>3. SameRun
    BY <1>1, <2>2, RunIsSome DEF SameRun
  <2>4. /\ Setup' /\ RunIs' /\ SameWorld /\ Now' = Now /\ Wanted' = Wanted
        /\ Now \in PRs /\ HeadNow(Now) = run.open[Now] /\ run.open[Now] \in Heads(Now)
    BY <1>1, <2>3, RunKept DEF IInv
  <2>5. Dirs'
    BY <2>1, <2>4, DirsKept DEF IInv
  <2>6. Here' = Here
    BY <2>1, <2>4 DEF Here
  <2>7. m \in DOMAIN Wanted
    BY <1>3, <1>5, FirstIs DEF Fetching
  <2>8. Here.files[m] = c
    BY <1>5, <2>4, <2>7, HereIs, StagedIs DEF IInv, Setup, Wanted
  <2>9. Held(m)
    BY <1>5, <2>8 DEF Held, Staged
  <2>10. Fetching'
    <3>1. \A n \in DOMAIN Wanted \ (run.left \ {m}) : Held(n)
      BY <1>3, <2>9 DEF Fetching
    <3> HIDE DEF m
    <3> QED  BY <1>3, <2>2, <2>4, <2>6, <3>1, HeldKept DEF Fetching
  <2>11. Sources' /\ Entries'
    BY <1>3, <2>2, <2>4, SourcesKept, EntriesKept
  <2>12. Working'
    BY <2>2, <2>10, <2>11 DEF Working
  <2> QED  BY <2>4, <2>5, <2>12 DEF IInv
<1>6. CASE run.left # {} /\ ~ Staged(Here, m, c)
  <2> DEFINE fs == With(Here.files, m, c)
             d == WithFiles(Here, fs, Here.record)
  <2>1. run' = [run EXCEPT !.at = "note"] /\ staging' = [staging EXCEPT ![Now] = [Here EXCEPT !.files = fs]]
    BY <1>6 DEF Fetch, Write, Step
  <2>2. /\ run' = [f \in RunFields |-> run'[f]] /\ run'.at = "note" /\ run'.left = run.left
        /\ run'.open = run.open /\ run'.todo = run.todo /\ run'.settings = run.settings
        /\ run'.sources = run.sources /\ run'.entries = run.entries
    BY <1>1, <1>2, <2>1 DEF RunFields
  <2>3. SameRun
    BY <1>1, <2>2, RunIsSome DEF SameRun
  <2>4. /\ Setup' /\ RunIs' /\ SameWorld /\ Now' = Now /\ Wanted' = Wanted
        /\ Now \in PRs /\ HeadNow(Now) = run.open[Now] /\ run.open[Now] \in Heads(Now)
    BY <1>1, <2>3, RunKept DEF IInv
  <2>5. /\ staging = [p \in PRs |-> staging[p]]
        /\ DirIs(Here) /\ FilesAre(Now, Here, HeadNow(Now)) /\ ReportsAre(Now, Here)
    BY <2>4, HereIs
  <2>6. m \in DOMAIN Wanted
    BY <1>3, <1>6, FirstIs DEF Fetching
  <2>7. /\ DOMAIN fs = DOMAIN Here.files \cup {m} /\ fs[m] = c
        /\ \A n \in DOMAIN Here.files : n # m => fs[n] = Here.files[n]
    BY DEF With
  <2> HIDE DEF m, c, fs
  <2>8. [Here EXCEPT !.files = fs] = d
    BY <2>5 DEF DirIs, WithFiles, DirFields
  <2>9. /\ DirIs(d) /\ d.files = fs /\ d.record = Here.record
        /\ d.report = Here.report /\ d.partial = Here.partial
    BY <2>5, WithFilesIs DEF DirIs
  <2>10. FilesAre(Now, d, HeadNow(Now))
    <3> DEFINE H == run.open[Now]
    <3>1. From(Now, m, c, H) /\ H <= H
      BY <2>4, <2>6, HeadsAreNat DEF From, Wanted, c, IInv, Setup
    <3> HIDE DEF d
    <3>2. ASSUME NEW n \in DOMAIN d.files
          PROVE  \E h \in Heads(Now) :
                   /\ h <= H /\ From(Now, n, d.files[n], h)
                   /\ n \in DOMAIN d.record.files =>
                        \E k \in Heads(Now) : k <= h /\ From(Now, n, d.record.files[n], k)
      <4>1. CASE n = m
        BY <2>4, <2>5, <2>7, <2>9, <3>1, <4>1 DEF FilesAre
      <4>2. CASE n # m
        BY <2>4, <2>5, <2>7, <2>9, <4>2 DEF FilesAre
      <4> QED  BY <4>1, <4>2
    <3>3. \A n \in DOMAIN d.record.files :
            \E h \in Heads(Now) : h <= H /\ From(Now, n, d.record.files[n], h)
      BY <2>4, <2>5, <2>9 DEF FilesAre
    <3> QED  BY <2>4, <3>2, <3>3 DEF FilesAre
  <2>11. Dirs'
    <3>1. ReportsAre(Now, d)
      BY <2>5, <2>9 DEF ReportsAre
    <3> HIDE DEF d
    <3> QED  BY <2>1, <2>4, <2>8, <2>9, <2>10, <3>1, DirsWritten DEF IInv
  <2>12. Here' = d
    BY <2>1, <2>4, <2>5, <2>8 DEF Here
  <2>13. Fetching' /\ Fetched'
    <3> HIDE DEF d
    <3>1. \A n \in DOMAIN Wanted \ run.left : Held(n)'
      <4> SUFFICES ASSUME NEW n \in DOMAIN Wanted \ run.left PROVE Held(n)'
        OBVIOUS
      <4>1. n # m
        BY <1>6, FirstIs DEF m
      <4>2. Held(n)
        BY <1>3 DEF Fetching
      <4> QED  BY <2>4, <2>7, <2>9, <2>12, <4>1, <4>2 DEF Held
    <3>2. Fetching'
      BY <1>3, <2>2, <2>4, <3>1 DEF Fetching
    <3>3. Fetched'
      BY <1>6, <2>2, <2>4, <2>7, <2>9, <2>12 DEF Fetched, m, c
    <3> QED  BY <3>2, <3>3
  <2>14. Sources' /\ Entries'
    BY <1>3, <2>2, <2>4, SourcesKept, EntriesKept
  <2>15. Working'
    BY <2>2, <2>13, <2>14 DEF Working
  <2> QED  BY <2>4, <2>11, <2>15 DEF IInv
<1> QED  BY <1>4, <1>5, <1>6

\* The record follows the file.
LEMMA NoteStep == ASSUME IInv, Note PROVE IInv'
<1> DEFINE m == First(run.left)
           c == Wanted[m]
           fs == With(Here.record.files, m, c)
           rec == [Here.record EXCEPT !.files = fs]
           d == WithFiles(Here, Here.files, rec)
<1>1. UNCHANGED <<world, hubVars>> /\ run # None /\ run.at = "note"
  BY DEF Note
<1>2. run = [f \in RunFields |-> run[f]]
  BY <1>1 DEF IInv, RunIs
<1>3. Sources /\ Entries /\ Fetching /\ Fetched
  BY <1>1 DEF IInv, Working
<1>4. /\ run' = [run EXCEPT !.at = "fetch", !.left = run.left \ {m}]
      /\ staging' = [staging EXCEPT ![Now] = [Here EXCEPT !.record.files = fs]]
  BY DEF Note, Write
<1>5. /\ run' = [f \in RunFields |-> run'[f]] /\ run'.at = "fetch"
      /\ run'.left = run.left \ {m}
      /\ run'.open = run.open /\ run'.todo = run.todo /\ run'.settings = run.settings
      /\ run'.sources = run.sources /\ run'.entries = run.entries
  BY <1>2, <1>4 DEF RunFields
<1>6. SameRun
  BY <1>1, <1>5, RunIsSome DEF SameRun
<1>7. /\ Setup' /\ RunIs' /\ SameWorld /\ Now' = Now /\ Wanted' = Wanted
      /\ Now \in PRs /\ HeadNow(Now) = run.open[Now] /\ run.open[Now] \in Heads(Now)
  BY <1>1, <1>6, RunKept DEF IInv
<1>8. /\ staging = [p \in PRs |-> staging[p]]
      /\ DirIs(Here) /\ FilesAre(Now, Here, HeadNow(Now)) /\ ReportsAre(Now, Here)
  BY <1>7, HereIs
<1>9. m \in DOMAIN Wanted /\ m \in DOMAIN Here.files /\ Here.files[m] = c
  BY <1>3, FirstIs DEF Fetching, Fetched
<1>10. /\ DOMAIN fs = DOMAIN Here.record.files \cup {m} /\ fs[m] = c
       /\ \A n \in DOMAIN Here.record.files : n # m => fs[n] = Here.record.files[n]
  BY DEF With
<1> HIDE DEF m, c, fs
<1>11. rec = [f \in RecordFields |-> rec[f]] /\ rec.files = fs
  BY <1>8 DEF DirIs, RecordFields
<1>12. [Here EXCEPT !.record.files = fs] = d
  BY <1>8 DEF DirIs, WithFiles, DirFields
<1> HIDE DEF rec
<1>13. /\ DirIs(d) /\ d.files = Here.files /\ d.record = rec
       /\ d.report = Here.report /\ d.partial = Here.partial
  BY <1>8, <1>11, WithFilesIs
<1>14. FilesAre(Now, d, HeadNow(Now))
  <2> DEFINE H == run.open[Now]
  <2>1. From(Now, m, c, H) /\ H <= H
    BY <1>7, <1>9, HeadsAreNat DEF From, Wanted, c, IInv, Setup
  <2> HIDE DEF d
  <2>2. ASSUME NEW n \in DOMAIN d.files
        PROVE  \E h \in Heads(Now) :
                 /\ h <= H /\ From(Now, n, d.files[n], h)
                 /\ n \in DOMAIN d.record.files =>
                      \E k \in Heads(Now) : k <= h /\ From(Now, n, d.record.files[n], k)
    <3>1. CASE n = m
      BY <1>7, <1>9, <1>10, <1>11, <1>13, <2>1, <3>1
    <3>2. CASE n # m
      BY <1>7, <1>8, <1>10, <1>11, <1>13, <3>2 DEF FilesAre
    <3> QED  BY <3>1, <3>2
  <2>3. ASSUME NEW n \in DOMAIN d.record.files
        PROVE  \E h \in Heads(Now) : h <= H /\ From(Now, n, d.record.files[n], h)
    <3>1. CASE n = m
      BY <1>7, <1>10, <1>11, <1>13, <2>1, <3>1
    <3>2. CASE n # m
      BY <1>7, <1>8, <1>10, <1>11, <1>13, <3>2 DEF FilesAre
    <3> QED  BY <3>1, <3>2
  <2> QED  BY <1>7, <2>2, <2>3 DEF FilesAre
<1>15. Dirs'
  <2>1. ReportsAre(Now, d)
    BY <1>8, <1>13 DEF ReportsAre
  <2> HIDE DEF d
  <2> QED  BY <1>4, <1>7, <1>12, <1>13, <1>14, <2>1, DirsWritten DEF IInv
<1>16. Here' = d
  BY <1>4, <1>7, <1>8, <1>12 DEF Here
<1>17. Fetching'
  <2> HIDE DEF d
  <2> SUFFICES ASSUME NEW n \in DOMAIN Wanted \ (run.left \ {m}) PROVE Held(n)'
    BY <1>3, <1>5, <1>7 DEF Fetching
  <2>1. CASE n = m
    BY <1>7, <1>9, <1>10, <1>11, <1>13, <1>16, <2>1 DEF Held, c
  <2>2. CASE n # m
    <3>1. Held(n)
      BY <1>3, <2>2 DEF Fetching
    <3> QED  BY <1>7, <1>10, <1>11, <1>13, <1>16, <2>2, <3>1 DEF Held
  <2> QED  BY <2>1, <2>2
<1>18. Sources' /\ Entries'
  BY <1>3, <1>5, <1>7, SourcesKept, EntriesKept
<1>19. Working'
  BY <1>5, <1>17, <1>18 DEF Working
<1> QED  BY <1>7, <1>15, <1>19 DEF IInv

\* The corpus the tables are checked over has the PR's own files as they are staged.
LEMMA BuildOverlayStep == ASSUME IInv, BuildOverlay PROVE IInv'
<1>1. /\ UNCHANGED <<world, hubVars>> /\ run # None /\ run.at = "overlay" /\ UNCHANGED staging
      /\ run' = [run EXCEPT !.at = "table", !.overlay = Overlay]
  BY DEF BuildOverlay
<1>2. run = [f \in RunFields |-> run[f]]
  BY <1>1 DEF IInv, RunIs
<1>3. Sources /\ Entries /\ \A m \in DOMAIN Wanted : Held(m)
  BY <1>1 DEF IInv, Working
<1>4. /\ run' = [f \in RunFields |-> run'[f]] /\ run'.at = "table" /\ run'.overlay = Overlay
      /\ run'.open = run.open /\ run'.todo = run.todo /\ run'.settings = run.settings
      /\ run'.sources = run.sources /\ run'.entries = run.entries
  BY <1>1, <1>2 DEF RunFields
<1>5. SameRun
  BY <1>1, <1>4, RunIsSome DEF SameRun
<1>6. Setup' /\ RunIs' /\ SameWorld /\ Now' = Now /\ Wanted' = Wanted
  BY <1>1, <1>5, RunKept DEF IInv
<1>7. Dirs'
  BY <1>1, <1>6, DirsKept DEF IInv
<1>8. Here' = Here
  BY <1>1, <1>6 DEF Here
<1>9. ASSUME NEW m \in DOMAIN Wanted PROVE Held(m)' /\ Overlay[m] = Wanted[m]
  <2>1. m \in DOMAIN Here.files /\ Here.files[m] = Wanted[m]
    BY <1>3 DEF Held
  <2>2. \A f : Union(f, Here.files)[m] = Here.files[m]
    BY <2>1 DEF Union
  <2> QED  BY <1>3, <1>6, <1>8, <2>1, <2>2, HeldKept DEF Overlay
<1>10. Sources' /\ Entries'
  BY <1>3, <1>4, <1>6, SourcesKept, EntriesKept
<1>11. Working'
  BY <1>4, <1>6, <1>9, <1>10 DEF Working
<1> QED  BY <1>6, <1>7, <1>11 DEF IInv

(* A run that ends, or dies, leaves the PRs, and no run. *)
LEMMA RunEnds ==
  ASSUME Setup, RunIs, UNCHANGED <<world, prs>>, run' = None
  PROVE  Setup' /\ RunIs' /\ Working' /\ SameWorld
<1>1. PRs' = PRs
  BY DEF PRs
<1>2. Setup' /\ RunIs' /\ Working'
  BY <1>1 DEF Setup, Heads, RunIs, Working
<1>3. \A p \in PRs : HeadNow(p)' = prs[p].at
  BY DEF HeadNow
<1>4. \A p \in PRs : HeadNow(p) <= prs[p].at /\ prs[p].at \in Nat
  BY HeadNowIs, HeadsAreNat DEF Setup
<1> QED  BY <1>2, <1>3, <1>4 DEF SameWorld

(* A table's entry, taken over or new, tells of the head's content under the run's settings
   (verify.py:498-522). *)
LEMMA NewEntryIs ==
  ASSUME Sources, NEW m \in DOMAIN Wanted, Held(m), run.overlay[m] = Wanted[m]
  PROVE  EntryIs(NewEntry(m), Wanted[m], run.settings)
<1>1. Here.record.files[m] = Wanted[m]
  BY DEF Held
<1>2. CASE TakenOver(m) # {}
  <2> DEFINE i == MinOf(TakenOver(m))
             src == run.sources[i]
  <2>1. TakenOver(m) \in SUBSET Nat
    BY DEF TakenOver, Sources
  <2>2. i \in TakenOver(m)
    <3>1. \E j \in TakenOver(m) : \A k \in TakenOver(m) : j <= k
      BY <1>2, <2>1, Least
    <3> QED  BY <3>1 DEF MinOf
  <2>3. /\ i \in DOMAIN run.sources /\ IsReport(src) /\ src.settings = run.settings
        /\ m \in DOMAIN src.tables /\ src.tables[m].sha = Wanted[m]
    BY <1>1, <2>2 DEF TakenOver, Reusable
  <2>4. EntryIs(src.tables[m], src.tables[m].sha, src.settings)
    BY <2>3 DEF Sources, SourceIs
  <2>5. NewEntry(m) = src.tables[m]
    BY <1>2 DEF NewEntry
  <2> HIDE DEF src
  <2> QED  BY <2>3, <2>4, <2>5 DEF EntryIs
<1>3. CASE TakenOver(m) = {}
  <2> DEFINE e == NewEntry(m)
  <2>1. e = Entry(Here.record.files[m], run.overlay[m], Source(m),
                  Source(m) = NoSource \/ Again(m), run.settings, run.open[Now],
                  Passes(m, run.overlay[m]))
    BY <1>3 DEF NewEntry
  <2>2. e.sha = Here.record.files[m] /\ e.seen = run.overlay[m] /\ e.settings = run.settings
    BY <2>1 DEF Entry
  <2> QED  BY <1>1, <2>2 DEF EntryIs
<1> QED  BY <1>2, <1>3

\* The next table is checked, and the partial report written.
LEMMA VerifyTableStep == ASSUME IInv, VerifyTable PROVE IInv'
<1>1. /\ UNCHANGED <<world, hubVars, prs>> /\ run # None /\ run.at = "table"
      /\ DOMAIN run.entries # DOMAIN Wanted
  BY DEF VerifyTable, hubVars
<1>2. run = [f \in RunFields |-> run[f]]
  BY <1>1 DEF IInv, RunIs
<1>3. /\ Sources /\ Entries
      /\ \A m \in DOMAIN Wanted : Held(m) /\ run.overlay[m] = Wanted[m]
  BY <1>1 DEF IInv, Working
<1>4. CASE Aborts(NextTable)
  <2>1. run' = None /\ UNCHANGED staging
    BY <1>1, <1>4 DEF VerifyTable
  <2>2. Setup' /\ RunIs' /\ Working' /\ SameWorld
    BY <1>1, <2>1, RunEnds DEF IInv
  <2>3. Dirs'
    BY <2>1, <2>2, DirsKept DEF IInv
  <2> QED  BY <2>2, <2>3 DEF IInv
<1>5. CASE ~ Aborts(NextTable)
  <2> DEFINE m == NextTable
             es == With(run.entries, m, NewEntry(m))
             r == Partial(es)
             d == WithPartial(Here, r)
  <2>1. run' = [run EXCEPT !.entries = es] /\ staging' = [staging EXCEPT ![Now] = d]
    BY <1>5 DEF VerifyTable, Write, WithPartial
  <2>2. /\ run' = [f \in RunFields |-> run'[f]] /\ run'.at = "table" /\ run'.entries = es
        /\ run'.open = run.open /\ run'.todo = run.todo /\ run'.settings = run.settings
        /\ run'.sources = run.sources /\ run'.overlay = run.overlay
    BY <1>1, <1>2, <2>1 DEF RunFields
  <2>3. SameRun
    BY <1>1, <2>2, RunIsSome DEF SameRun
  <2>4. /\ Setup' /\ RunIs' /\ SameWorld /\ Now' = Now /\ Wanted' = Wanted
        /\ Now \in PRs /\ HeadNow(Now) = run.open[Now] /\ run.open[Now] \in Heads(Now)
    BY <1>1, <2>3, RunKept DEF IInv
  <2>5. /\ staging = [p \in PRs |-> staging[p]]
        /\ DirIs(Here) /\ FilesAre(Now, Here, HeadNow(Now)) /\ ReportsAre(Now, Here)
    BY <2>4, HereIs
  <2>6. m \in DOMAIN Wanted
    BY <1>1, <1>3, FirstIs DEF NextTable, Entries
  <2>7. EntryIs(NewEntry(m), Wanted[m], run.settings)
    BY <1>3, <2>6, NewEntryIs
  <2>8. /\ DOMAIN es \subseteq DOMAIN Wanted
        /\ \A n \in DOMAIN es : EntryIs(es[n], Wanted[n], run.settings)
    BY <1>3, <2>6, <2>7 DEF With, Entries
  <2> HIDE DEF m, es
  <2>9. r.head = run.open[Now] /\ r.settings = run.settings /\ r.tables = es
    BY DEF Partial, ReportJson
  <2> HIDE DEF r
  <2>10. /\ DirIs(d) /\ d.files = Here.files /\ d.record = Here.record
         /\ d.report = Here.report /\ d.partial = r
    BY <2>5, WithPartialIs
  <2> HIDE DEF d
  <2>11. FilesAre(Now, d, HeadNow(Now)) /\ ReportsAre(Now, d)
    <3>1. ReportIs(Now, r)
      BY <2>4, <2>8, <2>9 DEF ReportIs, Wanted
    <3> QED  BY <2>5, <2>10, <3>1 DEF FilesAre, ReportsAre
  <2>12. Dirs'
    BY <2>1, <2>4, <2>10, <2>11, DirsWritten DEF IInv
  <2>13. Here' = d
    BY <2>1, <2>4, <2>5 DEF Here
  <2>14. \A n \in DOMAIN Wanted' : Held(n)' /\ run'.overlay[n] = Wanted'[n]
    BY <1>3, <2>2, <2>4, <2>10, <2>13 DEF Held
  <2>15. Sources'
    BY <1>3, <2>2, SourcesKept
  <2>16. Entries'
    BY <2>2, <2>4, <2>8 DEF Entries, EntryIs
  <2>17. Working'
    BY <2>2, <2>14, <2>15, <2>16 DEF Working
  <2> QED  BY <2>4, <2>12, <2>17 DEF IInv
<1> QED  BY <1>4, <1>5

\* The last report goes before the next one is written.
LEMMA MoveAsideStep == ASSUME IInv, MoveAside PROVE IInv'
<1> DEFINE d == WithReport(Here, None)
<1>1. /\ UNCHANGED <<world, hubVars>> /\ run # None /\ run.at = "table"
      /\ DOMAIN run.entries = DOMAIN Wanted
      /\ run' = [run EXCEPT !.at = "report"] /\ staging' = [staging EXCEPT ![Now] = d]
  BY DEF MoveAside, Write, Step, WithReport
<1>2. run = [f \in RunFields |-> run[f]]
  BY <1>1 DEF IInv, RunIs
<1>3. Sources /\ Entries
  BY <1>1 DEF IInv, Working
<1>4. /\ run' = [f \in RunFields |-> run'[f]] /\ run'.at = "report" /\ run'.entries = run.entries
      /\ run'.open = run.open /\ run'.todo = run.todo /\ run'.settings = run.settings
      /\ run'.sources = run.sources
  BY <1>1, <1>2 DEF RunFields
<1>5. SameRun
  BY <1>1, <1>4, RunIsSome DEF SameRun
<1>6. /\ Setup' /\ RunIs' /\ SameWorld /\ Now' = Now /\ Wanted' = Wanted
      /\ Now \in PRs
  BY <1>1, <1>5, RunKept DEF IInv
<1>7. DirIs(Here) /\ FilesAre(Now, Here, HeadNow(Now)) /\ ReportsAre(Now, Here)
  BY <1>6, HereIs
<1>8. /\ DirIs(d) /\ d.files = Here.files /\ d.record = Here.record
      /\ d.report = None /\ d.partial = Here.partial
  BY <1>7, WithReportIs
<1> HIDE DEF d
<1>9. FilesAre(Now, d, HeadNow(Now)) /\ ReportsAre(Now, d)
  BY <1>7, <1>8 DEF FilesAre, ReportsAre, IsReport
<1>10. Dirs'
  BY <1>1, <1>6, <1>8, <1>9, DirsWritten DEF IInv
<1>11. Sources' /\ Entries'
  BY <1>3, <1>4, <1>6, SourcesKept, EntriesKept
<1>12. Working'
  BY <1>1, <1>4, <1>6, <1>11 DEF Working
<1> QED  BY <1>6, <1>10, <1>12 DEF IInv

(* A report passes only where the PR's files are in order. *)
LEMMA PassIsTidy ==
  ASSUME NEW es, NEW h, NEW s, NEW tidy, ReportJson(es, h, s, tidy).pass
  PROVE  tidy
<1> DEFINE all == \A m \in DOMAIN es : es[m].passed
<1>1. ReportJson(es, h, s, tidy).pass = (tidy /\ all)
  BY DEF ReportJson
<1> HIDE DEF all
<1> QED  BY <1>1, Zenon

\* The report has every table of the head.
LEMMA WriteReportStep == ASSUME IInv, WriteReport PROVE IInv'
<1> DEFINE r == ReportJson(run.entries, run.open[Now], run.settings, Tidy(Now, run.open[Now]))
           d == WithReport(Here, r)
<1>1. /\ UNCHANGED <<world, hubVars>> /\ run # None /\ run.at = "report"
      /\ staging' = [staging EXCEPT ![Now] = d]
  BY DEF WriteReport, Write, WithReport
<1>2. PICK dl : run' = [run EXCEPT !.at = "done", !.delivered = dl]
  BY DEF WriteReport
<1>3. run = [f \in RunFields |-> run[f]]
  BY <1>1 DEF IInv, RunIs
<1>4. Sources /\ Entries /\ DOMAIN run.entries = DOMAIN Wanted
  BY <1>1 DEF IInv, Working
<1>5. /\ run' = [f \in RunFields |-> run'[f]] /\ run'.at = "done" /\ run'.entries = run.entries
      /\ run'.open = run.open /\ run'.todo = run.todo /\ run'.settings = run.settings
      /\ run'.sources = run.sources
  BY <1>2, <1>3 DEF RunFields
<1>6. SameRun
  BY <1>1, <1>5, RunIsSome DEF SameRun
<1>7. /\ Setup' /\ RunIs' /\ SameWorld /\ Now' = Now /\ Wanted' = Wanted
      /\ Now \in PRs /\ run.open[Now] \in Heads(Now)
  BY <1>1, <1>6, RunKept DEF IInv
<1>8. DirIs(Here) /\ FilesAre(Now, Here, HeadNow(Now)) /\ ReportsAre(Now, Here)
  BY <1>7, HereIs
<1>9. r.head = run.open[Now] /\ r.settings = run.settings /\ r.tables = run.entries
  BY DEF ReportJson
<1>10. r.pass => Tidy(Now, run.open[Now])
  BY PassIsTidy
<1> HIDE DEF r
<1>11. /\ DirIs(d) /\ d.files = Here.files /\ d.record = Here.record
       /\ d.report = r /\ d.partial = Here.partial
  BY <1>8, WithReportIs
<1> HIDE DEF d
<1>12. FilesAre(Now, d, HeadNow(Now)) /\ ReportsAre(Now, d)
  <2>1. ReportIs(Now, r) /\ DOMAIN r.tables = DOMAIN Tree(Now, r.head)
    BY <1>4, <1>7, <1>9 DEF ReportIs, Entries, Wanted
  <2>2. WholeIs(Now, r)
    BY <1>9, <1>10, <2>1 DEF WholeIs
  <2> QED  BY <1>8, <1>11, <2>2 DEF FilesAre, ReportsAre
<1>13. Dirs'
  BY <1>1, <1>7, <1>11, <1>12, DirsWritten DEF IInv
<1>14. Sources' /\ Entries'
  BY <1>4, <1>5, <1>7, SourcesKept, EntriesKept
<1>15. Working'
  BY <1>4, <1>5, <1>7, <1>14 DEF Working
<1> QED  BY <1>7, <1>13, <1>15 DEF IInv

\* The partial report goes, and the next PR is taken up.
LEMMA PostStep == ASSUME IInv, Post PROVE IInv' /\ SameWorld
<1> DEFINE d == WithPartial(Here, None)
<1>1. /\ UNCHANGED <<world, hubVars, prs>> /\ run # None /\ run.at = "done"
      /\ run' = [run EXCEPT !.at = "pr", !.todo = run.todo \ {Now}]
      /\ staging' = [staging EXCEPT ![Now] = d]
  BY DEF Post, Write, WithPartial, hubVars
<1>2. run = [f \in RunFields |-> run[f]] /\ Batch /\ run.todo # {}
  BY <1>1 DEF IInv, RunIs
<1>3. /\ run' = [f \in RunFields |-> run'[f]] /\ run'.at = "pr"
      /\ run'.open = run.open /\ run'.todo = run.todo \ {Now}
  BY <1>1, <1>2 DEF RunFields
<1>4. run' # None
  BY <1>3, RunIsSome
<1>5. PRs' = PRs
  BY <1>1 DEF PRs
<1>6. Setup' /\ RunIs' /\ Working'
  BY <1>1, <1>3, <1>5 DEF IInv, Setup, Heads, RunIs, Batch, Working
<1>7. Now \in PRs
  BY <1>2, NowIs DEF IInv, Setup, Batch
<1>8. SameWorld
  <2>1. \A p \in PRs : HeadNow(p)' = HeadNow(p)
    BY <1>1, <1>3, <1>4 DEF HeadNow
  <2>2. \A p \in PRs : HeadNow(p) \in Nat
    BY HeadNowIs, HeadsAreNat DEF IInv, Setup
  <2> QED  BY <1>1, <2>1, <2>2 DEF SameWorld
<1>9. DirIs(Here) /\ FilesAre(Now, Here, HeadNow(Now)) /\ ReportsAre(Now, Here)
  BY <1>7, HereIs
<1>10. /\ DirIs(d) /\ d.files = Here.files /\ d.record = Here.record
       /\ d.report = Here.report /\ d.partial = None
  BY <1>9, WithPartialIs
<1> HIDE DEF d
<1>11. FilesAre(Now, d, HeadNow(Now)) /\ ReportsAre(Now, d)
  BY <1>9, <1>10 DEF FilesAre, ReportsAre, IsReport
<1>12. Dirs'
  BY <1>1, <1>7, <1>8, <1>10, <1>11, DirsWritten DEF IInv
<1> QED  BY <1>6, <1>8, <1>12 DEF IInv

(* What a crash leaves of a directory is true as far as it can be read. *)
LEMMA CutOffIs ==
  ASSUME IInv, run # None, run.at \in {"stage", "note", "table", "report"}
  PROVE  /\ Now \in PRs
         /\ DirIs(CutOff) /\ FilesAre(Now, CutOff, HeadNow(Now)) /\ ReportsAre(Now, CutOff)
<1>1. Now \in PRs
  BY NowIs DEF IInv, Setup, RunIs, Batch
<1>2. DirIs(Here) /\ FilesAre(Now, Here, HeadNow(Now)) /\ ReportsAre(Now, Here)
  BY <1>1, HereIs
<1>3. NoRecord = [f \in RecordFields |-> NoRecord[f]] /\ DOMAIN NoRecord.files = {}
  BY DEF NoRecord, RecordFields
<1>4. CASE run.at = "stage"
  <2> DEFINE d == WithFiles(Here, Kept, NoRecord)
  <2>1. CutOff = d
    BY <1>4 DEF CutOff, WithFiles
  <2>2. /\ DirIs(d) /\ d.files = Kept /\ d.record = NoRecord
        /\ d.report = Here.report /\ d.partial = Here.partial
    BY <1>2, <1>3, WithFilesIs
  <2> HIDE DEF d
  <2>3. /\ DOMAIN Kept \subseteq DOMAIN Here.files
        /\ \A m \in DOMAIN Kept : Kept[m] = Here.files[m]
    BY DEF Kept, Only
  <2>4. FilesAre(Now, d, HeadNow(Now)) /\ ReportsAre(Now, d)
    BY <1>2, <1>3, <2>2, <2>3, FilesLess DEF ReportsAre
  <2> QED  BY <1>1, <2>1, <2>2, <2>4
<1>5. CASE run.at = "note"
  <2> DEFINE d == WithFiles(Here, Here.files, NoRecord)
  <2>1. CutOff = d
    BY <1>2, <1>5 DEF CutOff, WithFiles, DirIs, DirFields
  <2>2. /\ DirIs(d) /\ d.files = Here.files /\ d.record = NoRecord
        /\ d.report = Here.report /\ d.partial = Here.partial
    BY <1>2, <1>3, WithFilesIs
  <2> HIDE DEF d
  <2>3. FilesAre(Now, d, HeadNow(Now)) /\ ReportsAre(Now, d)
    BY <1>2, <1>3, <2>2, FilesLess DEF ReportsAre
  <2> QED  BY <1>1, <2>1, <2>2, <2>3
<1>6. CASE run.at = "table"
  <2> DEFINE d == WithPartial(Here, Torn)
  <2>1. CutOff = d
    BY <1>6 DEF CutOff, WithPartial
  <2>2. /\ DirIs(d) /\ d.files = Here.files /\ d.record = Here.record
        /\ d.report = Here.report /\ d.partial = Torn
    BY <1>2, WithPartialIs
  <2> HIDE DEF d
  <2>3. FilesAre(Now, d, HeadNow(Now)) /\ ReportsAre(Now, d)
    BY <1>2, <2>2 DEF FilesAre, ReportsAre, IsReport
  <2> QED  BY <1>1, <2>1, <2>2, <2>3
<1>7. CASE run.at = "report"
  <2> DEFINE d == WithReport(Here, Torn)
  <2>1. CutOff = d
    BY <1>7 DEF CutOff, WithReport
  <2>2. /\ DirIs(d) /\ d.files = Here.files /\ d.record = Here.record
        /\ d.report = Torn /\ d.partial = Here.partial
    BY <1>2, WithReportIs
  <2> HIDE DEF d
  <2>3. FilesAre(Now, d, HeadNow(Now)) /\ ReportsAre(Now, d)
    BY <1>2, <2>2 DEF FilesAre, ReportsAre, IsReport
  <2> QED  BY <1>1, <2>1, <2>2, <2>3
<1> QED  BY <1>4, <1>5, <1>6, <1>7

\* A process may die at any step.
LEMMA CrashStep == ASSUME IInv, Crash PROVE IInv'
<1>1. UNCHANGED <<world, prs>> /\ run # None /\ run' = None
  BY DEF Crash, hubVars
<1>2. Setup' /\ RunIs' /\ Working' /\ SameWorld
  BY <1>1, RunEnds DEF IInv
<1>3. CASE UNCHANGED staging
  BY <1>2, <1>3, DirsKept DEF IInv
<1>4. CASE ~ UNCHANGED staging
  <2>1. run.at \in {"stage", "note", "table", "report"} /\ Write(CutOff)
    BY <1>4 DEF Crash
  <2>2. staging' = [staging EXCEPT ![Now] = CutOff]
    BY <2>1 DEF Write
  <2>3. /\ Now \in PRs
        /\ DirIs(CutOff) /\ FilesAre(Now, CutOff, HeadNow(Now)) /\ ReportsAre(Now, CutOff)
    BY <1>1, <2>1, CutOffIs
  <2>4. Dirs'
    BY <1>2, <2>2, <2>3, DirsWritten DEF IInv
  <2> QED  BY <1>2, <2>4 DEF IInv
<1> QED  BY <1>3, <1>4

(* What authors, accept and the maintainer do leaves the run and the staging directory alone;
   a head only moves on. *)
LEMMA OthersStep == ASSUME IInv, Others PROVE IInv' /\ SameWorld
<1>1. UNCHANGED <<world, staging, run>> /\ PRs' = PRs
  BY DEF Others, Pull, Push, Accept, PRs
<1>2. /\ prs' = [p \in PRs |-> [status |-> prs'[p].status, at |-> prs'[p].at]]
      /\ \A p \in PRs : prs'[p].at \in Heads(p) /\ prs[p].at <= prs'[p].at
  <2>1. \A p \in PRs : prs[p].at \in Heads(p) /\ prs[p].at \in Nat
    BY HeadsAreNat DEF IInv, Setup
  <2>2. CASE Pull
    BY <2>1, <2>2 DEF Pull, IInv, Setup
  <2>3. ASSUME NEW q \in PRs, Push(q)
        PROVE  /\ prs' = [p \in PRs |-> [status |-> prs'[p].status, at |-> prs'[p].at]]
               /\ \A p \in PRs : prs'[p].at \in Heads(p) /\ prs[p].at <= prs'[p].at
    <3> DEFINE n == prs[q].at + 1
    <3>1. prs' = [prs EXCEPT ![q].at = n]
      BY <2>3 DEF Push
    <3>2. n \in Heads(q)
      <4>1. Heads(q) = 1 .. Len(world.trees[q]) /\ Len(world.trees[q]) \in Nat
        BY VerifyAssumption DEF Heads, PRs, IInv, Setup
      <4>2. prs[q].at < Len(world.trees[q])
        BY <2>3 DEF Push, HeadOf
      <4> QED  BY <2>1, <4>1, <4>2
    <3>3. n \in Nat /\ prs[q].at <= n
      BY <2>1
    <3> HIDE DEF n
    <3>4. /\ prs'[q] = [status |-> prs[q].status, at |-> n]
          /\ \A p \in PRs : p # q => prs'[p] = prs[p]
      BY <3>1 DEF IInv, Setup
    <3>5. prs' = [p \in PRs |-> prs'[p]]
      BY <3>1 DEF IInv, Setup
    <3>6. \A p \in PRs : prs[p] = [status |-> prs[p].status, at |-> prs[p].at]
      BY DEF IInv, Setup
    <3>7. \A p \in PRs : prs'[p] = [status |-> prs'[p].status, at |-> prs'[p].at]
      BY <3>4, <3>6
    <3> QED  BY <2>1, <3>2, <3>3, <3>4, <3>5, <3>7
  <2>4. ASSUME NEW q \in PRs, Accept(q)
        PROVE  /\ prs' = [p \in PRs |-> [status |-> prs'[p].status, at |-> prs'[p].at]]
               /\ \A p \in PRs : prs'[p].at \in Heads(p) /\ prs[p].at <= prs'[p].at
    <3>1. prs' = [prs EXCEPT ![q].status = "merged"]
      BY <2>4 DEF Accept
    <3>2. /\ prs'[q] = [status |-> "merged", at |-> prs[q].at]
          /\ \A p \in PRs : p # q => prs'[p] = prs[p]
      BY <3>1 DEF IInv, Setup
    <3>3. prs' = [p \in PRs |-> prs'[p]]
      BY <3>1 DEF IInv, Setup
    <3>4. \A p \in PRs : prs[p] = [status |-> prs[p].status, at |-> prs[p].at]
      BY DEF IInv, Setup
    <3>5. \A p \in PRs : prs'[p] = [status |-> prs'[p].status, at |-> prs'[p].at]
      BY <3>2, <3>4
    <3> QED  BY <2>1, <3>2, <3>3, <3>5
  <2> QED  BY <2>2, <2>3, <2>4 DEF Others
<1>3. Setup'
  BY <1>1, <1>2 DEF IInv, Setup, Heads
<1>4. \A p \in PRs : prs[p].at \in Nat /\ prs'[p].at \in Nat
  BY <1>1, <1>2, HeadsAreNat DEF IInv, Setup
<1>5. RunIs'
  <2> SUFFICES ASSUME run # None PROVE RunIs'
    BY <1>1 DEF RunIs
  <2>1. Batch'
    BY <1>1 DEF IInv, RunIs, Batch
  <2>2. \A p \in DOMAIN run.open : run.open[p] <= prs'[p].at
    <3> SUFFICES ASSUME NEW p \in DOMAIN run.open PROVE run.open[p] <= prs'[p].at
      OBVIOUS
    <3>1. p \in PRs /\ run.open[p] \in Heads(p) /\ run.open[p] <= prs[p].at
      BY DEF IInv, RunIs, Batch, Heads
    <3>2. run.open[p] \in Nat
      BY <3>1, HeadsAreNat DEF IInv, Setup
    <3> QED  BY <1>2, <1>4, <3>1, <3>2
  <2> QED  BY <1>1, <2>1, <2>2 DEF IInv, RunIs
<1>6. SameWorld
  <2>1. \A p \in PRs : HeadNow(p) \in Nat
    BY HeadNowIs, HeadsAreNat DEF IInv, Setup
  <2>2. \A p \in PRs : HeadNow(p)' = IF run # None /\ p \in DOMAIN run.open THEN run.open[p]
                                                                           ELSE prs'[p].at
    BY <1>1 DEF HeadNow
  <2> QED  BY <1>1, <1>2, <1>4, <2>1, <2>2 DEF SameWorld, HeadNow
<1>7. Dirs'
  BY <1>1, <1>6, DirsKept DEF IInv
<1>8. Working'
  <2>1. Now' = Now /\ Wanted' = Wanted /\ Here' = Here
    BY <1>1 DEF Now, RankNow, Rank, Tree, Wanted, Here
  <2> QED  BY <1>1, <2>1 DEF IInv, Working, Sources, SourceIs, Entries, EntryIs, IsReport,
                             Fetching, Fetched, Held
<1> QED  BY <1>3, <1>5, <1>6, <1>7, <1>8 DEF IInv

(* Where nobody pushes a replaced content back, or a file's size tells its contents apart,
   staging, reports and what a run takes over are true throughout. *)
THEOREM Invariant == ASSUME ~ AlikeInSize \/ NeverBack PROVE Spec => []IInv
<1>1. Init => IInv
  BY InitInvariant
<1>2. IInv /\ [Next]_vars => IInv'
  <2> SUFFICES ASSUME IInv, [Next]_vars PROVE IInv'
    OBVIOUS
  <2>1. CASE UNCHANGED vars
    <3>1. UNCHANGED <<world, prs, staging, run>> /\ PRs' = PRs
      BY <2>1 DEF vars, PRs
    <3>2. Now' = Now /\ Wanted' = Wanted /\ Here' = Here
      BY <3>1 DEF Now, RankNow, Rank, Tree, Wanted, Here
    <3>3. Setup' /\ RunIs'
      BY <3>1 DEF IInv, Setup, Heads, RunIs, Batch
    <3>4. SameWorld
      <4>1. \A p \in PRs : HeadNow(p)' = HeadNow(p) /\ HeadNow(p) \in Nat
        BY <3>1, HeadNowIs, HeadsAreNat DEF IInv, Setup, HeadNow
      <4> QED  BY <3>1, <4>1 DEF SameWorld
    <3>5. Dirs'
      BY <3>1, <3>4, DirsKept DEF IInv
    <3>6. Working'
      BY <3>1, <3>2 DEF IInv, Working, Sources, SourceIs, Entries, EntryIs, IsReport,
                        Fetching, Fetched, Held
    <3> QED  BY <3>3, <3>5, <3>6 DEF IInv
  <2>2. CASE Start
    BY <2>2, StartStep
  <2>3. CASE Process
    BY <2>3, TakePrStep, StageStep, FetchStep, NoteStep, BuildOverlayStep, VerifyTableStep,
       MoveAsideStep, WriteReportStep, PostStep DEF Process
  <2>4. CASE Crash
    BY <2>4, CrashStep
  <2>5. CASE Others
    BY <2>5, OthersStep
  <2> QED  BY <2>1, <2>2, <2>3, <2>4, <2>5 DEF Next
<1> QED  BY <1>1, <1>2, PTL DEF Spec

(* A report that passes has every table of its head, each checked on that very content under
   the settings it names, whatever earlier runs were killed at and other heads they saw. *)
THEOREM ReportsTrue == ASSUME ~ AlikeInSize \/ NeverBack PROVE Spec => []ReportTrue
<1>1. IInv => ReportTrue
  BY DEF IInv, Dirs, ReportsAre, WholeIs, ReportIs, EntryIs, ReportTrue
<1> QED  BY <1>1, Invariant, PTL

-----------------------------------------------------------------------------
\* What passes is right, and so is what is published.

\* What is passed of m is right; its sidecar need not be where m is published, one of P.
RightEntry(m, e, P) ==
  e.passed => e.seen.payload = Right[m] /\ (e.seen.sidecar = "ok" \/ m \in P)
RightReport(r, P) == IsReport(r) => \A m \in DOMAIN r.tables : RightEntry(m, r.tables[m], P)

(* A PR's report is of a head fetched so far; it passes only what each of its entries passes;
   and while its head is the latest fetched, the staged files are those it tells of. *)
Stands(p, d, t) ==
  IsReport(d.report) =>
    /\ d.report.head <= t
    /\ d.report.pass => \A m \in DOMAIN d.report.tables : d.report.tables[m].passed
    /\ d.report.head = t =>
         \A m \in DOMAIN d.files : m \in DOMAIN Tree(p, t) /\ d.files[m] = Tree(p, t)[m]
RightDir(p, d, t, P) == Stands(p, d, t) /\ RightReport(d.report, P) /\ RightReport(d.partial, P)

Corpus ==
  /\ PublishedIsRight
  /\ \A m \in DOMAIN tables : m \in DOMAIN published /\ tables[m] = published[m]
RightDirs == \A p \in PRs : RightDir(p, staging[p], HeadNow(p), DOMAIN published)
RightRun ==
  run # None =>
    /\ run.manifest \subseteq DOMAIN published
    /\ \A m \in DOMAIN run.delivered : run.delivered[m].payload = Right[m]

OnlyWanted  == DOMAIN Here.files \subseteq DOMAIN Wanted
RightTaken  == \A i \in DOMAIN run.sources : RightReport(run.sources[i], DOMAIN published)
RightFound  == \A m \in DOMAIN run.entries : RightEntry(m, run.entries[m], DOMAIN published)
RightBeside == \A m \in DOMAIN run.overlay \ DOMAIN Wanted : run.overlay[m].payload = Right[m]
RightWork ==
  run # None /\ run.at # "pr" =>
    /\ RightTaken /\ RightFound
    /\ run.at # "stage" => OnlyWanted
    /\ run.at = "table" => RightBeside
    /\ run.at = "report" => \A m \in DOMAIN Wanted : Held(m)

RInv == Corpus /\ RightDirs /\ RightRun /\ RightWork

(* What is right stays right when more is published. *)
LEMMA ReportStays ==
  ASSUME NEW P, NEW Q, P \subseteq Q, NEW r, RightReport(r, P)
  PROVE  RightReport(r, Q)
BY DEF RightReport, RightEntry

(* A report that stands still does when later heads are fetched. *)
LEMMA StandsLater ==
  ASSUME world \in Worlds, NEW p \in PRs, NEW d, ReportsAre(p, d),
         NEW t \in Nat, NEW u \in Nat, t <= u, Stands(p, d, t)
  PROVE  Stands(p, d, u)
<1> SUFFICES ASSUME IsReport(d.report) PROVE Stands(p, d, u)
  BY DEF Stands
<1>1. d.report.head \in Nat
  BY HeadsAreNat DEF ReportsAre, WholeIs, ReportIs
<1>2. d.report.head <= t /\ d.report.head <= u
  BY <1>1 DEF Stands
<1>3. CASE t = u
  BY <1>3
<1>4. CASE t # u
  <2>1. d.report.head # u
    BY <1>1, <1>2, <1>4
  <2> QED  BY <1>2, <2>1 DEF Stands
<1> QED  BY <1>3, <1>4

\* A step that takes nothing back of what is published.
Grows == DOMAIN published \subseteq DOMAIN published'

(* The staging directory is right after a step that writes at most one PR's, and that right. *)
LEMMA RightDirsWritten ==
  ASSUME IInv, RightDirs, SameWorld, Grows, NEW q \in PRs, NEW d,
         staging' = [staging EXCEPT ![q] = d], ReportsAre(q, d),
         RightDir(q, d, HeadNow(q), DOMAIN published)
  PROVE  RightDirs'
<1>1. PRs' = PRs /\ world' = world
  BY SameMeaning DEF SameWorld
<1>2. ASSUME NEW p \in PRs
      PROVE  RightDir(p, staging[p], HeadNow(p), DOMAIN published)'
  <2> DEFINE e == IF p = q THEN d ELSE staging[p]
  <2>1. RightDir(p, e, HeadNow(p), DOMAIN published) /\ ReportsAre(p, e)
    BY DEF RightDirs, IInv, Dirs
  <2>2. HeadNow(p) \in Nat
    BY HeadNowIs, HeadsAreNat DEF IInv, Setup
  <2>3. HeadNow(p)' \in Nat /\ HeadNow(p) <= HeadNow(p)'
    BY DEF SameWorld
  <2>4. staging'[p] = e
    BY DEF IInv, Dirs
  <2> HIDE DEF e
  <2> DEFINE u == HeadNow(p)'
             P == DOMAIN published'
  <2>5. Stands(p, e, u)
    BY <2>1, <2>2, <2>3, StandsLater DEF IInv, Setup, RightDir
  <2>6. RightReport(e.report, P) /\ RightReport(e.partial, P)
    BY <2>1, ReportStays DEF Grows, RightDir
  <2> HIDE DEF u, P
  <2>7. Stands(p, staging'[p], u) /\ RightReport(staging'[p].report, P)
        /\ RightReport(staging'[p].partial, P)
    BY <2>4, <2>5, <2>6
  <2> QED  BY <1>1, <2>7 DEF RightDir, Stands, RightReport, RightEntry, IsReport, Tree, u, P
<1> QED  BY <1>1, <1>2 DEF RightDirs

(* And after a step that writes none. *)
LEMMA RightDirsKept ==
  ASSUME IInv, RightDirs, SameWorld, Grows, UNCHANGED staging
  PROVE  RightDirs'
<1>1. PRs' = PRs
  BY SameMeaning DEF SameWorld
<1> SUFFICES ASSUME NEW q \in PRs PROVE RightDirs'
  BY <1>1 DEF RightDirs
<1> DEFINE d == staging[q]
<1>2. staging' = [staging EXCEPT ![q] = d]
  BY DEF IInv, Dirs
<1>3. ReportsAre(q, d) /\ RightDir(q, d, HeadNow(q), DOMAIN published)
  BY DEF IInv, Dirs, RightDirs
<1> HIDE DEF d
<1> QED  BY <1>2, <1>3, RightDirsWritten

(* Of a step of the process that publishes nothing, and of what the run brings to the next
   table when it neither takes results over nor reaches any. *)
LEMMA RightKept ==
  ASSUME IInv, RInv, SameRun, run.at # "pr"
  PROVE  /\ Corpus' /\ Grows
         /\ run'.manifest = run.manifest /\ run'.delivered = run.delivered => RightRun'
         /\ run'.sources = run.sources => RightTaken'
         /\ run'.entries = run.entries => RightFound'
<1>1. UNCHANGED <<published, tables>>
  BY DEF SameRun, hubVars
<1>2. Corpus' /\ Grows
  BY <1>1 DEF RInv, Corpus, PublishedIsRight, Grows
<1>3. RightTaken /\ RightFound /\ RightRun
  BY DEF RInv, RightWork, SameRun
<1>4. run'.manifest = run.manifest /\ run'.delivered = run.delivered => RightRun'
  BY <1>1, <1>3 DEF RightRun, SameRun
<1>5. run'.sources = run.sources => RightTaken'
  BY <1>1, <1>3 DEF RightTaken, RightReport, RightEntry, IsReport
<1>6. run'.entries = run.entries => RightFound'
  BY <1>1, <1>3 DEF RightFound, RightEntry
<1> QED  BY <1>2, <1>4, <1>5, <1>6

\* At first what is published is right, and nothing is staged.
LEMMA InitRight == ASSUME StartsRight, Init PROVE RInv
<1>1. /\ world \in Worlds /\ published = world.published /\ tables = world.published
      /\ staging = [p \in PRs |-> Empty] /\ run = None
  BY DEF Init
<1>2. Corpus
  BY <1>1 DEF Corpus, PublishedIsRight, StartsRight
<1>3. ~ IsReport(Empty.report) /\ ~ IsReport(Empty.partial)
  BY DEF Empty, IsReport
<1>4. RightDirs
  BY <1>1, <1>3 DEF RightDirs, RightDir, Stands, RightReport
<1> QED  BY <1>1, <1>2, <1>4 DEF RInv, RightRun, RightWork

\* A run begins with the manifest of the moment, and has delivered nothing.
LEMMA StartRight == ASSUME IInv, RInv, Start PROVE RInv'
<1>1. PICK batch \in (SUBSET Open) \ {{}}, settings \in world.settings, full \in world.full :
        run' = [at |-> "pr", todo |-> batch, open |-> [p \in Open |-> HeadOf(p)],
                manifest |-> DOMAIN published, settings |-> settings, full |-> full,
                sources |-> <<>>, left |-> {}, overlay |-> <<>>, entries |-> <<>>,
                delivered |-> <<>>]
  BY DEF Start
<1>2. run'.at = "pr" /\ run'.manifest = DOMAIN published /\ DOMAIN run'.delivered = {}
  BY <1>1
<1>3. UNCHANGED <<published, tables, staging>> /\ SameWorld
  BY StartStep DEF Start, hubVars
<1>4. Corpus' /\ Grows
  BY <1>3 DEF RInv, Corpus, PublishedIsRight, Grows
<1>5. RightDirs'
  BY <1>3, <1>4, RightDirsKept DEF RInv
<1> QED  BY <1>2, <1>3, <1>4, <1>5 DEF RInv, RightRun, RightWork

\* The reports an earlier run left are right.
LEMMA TakePrRight == ASSUME IInv, RInv, TakePr PROVE RInv'
<1>1. /\ UNCHANGED <<published, tables, staging>> /\ SameWorld /\ run # None /\ run.at = "pr"
  BY TakePrStep DEF TakePr, hubVars
<1>2. Corpus' /\ Grows
  BY <1>1 DEF RInv, Corpus, PublishedIsRight, Grows
<1>3. RightDirs'
  BY <1>1, <1>2, RightDirsKept DEF RInv
<1>4. CASE run.todo = {}
  BY <1>2, <1>3, <1>4 DEF TakePr, RInv, RightRun, RightWork
<1>5. CASE run.todo # {}
  <2> DEFINE s == IF run.full THEN <<>> ELSE <<Here.report, Here.partial>>
  <2>1. run' = [run EXCEPT !.at = "stage", !.entries = <<>>, !.sources = s]
    BY <1>5 DEF TakePr
  <2>2. run = [f \in RunFields |-> run[f]]
    BY <1>1 DEF IInv, RunIs
  <2>3. /\ run'.at = "stage" /\ run'.entries = <<>> /\ run'.sources = s
        /\ run'.manifest = run.manifest /\ run'.delivered = run.delivered
    BY <2>1, <2>2 DEF RunFields
  <2>4. RightRun'
    BY <1>1, <2>3 DEF RInv, RightRun
  <2>5. Now \in PRs
    BY <1>1, <1>5, NowIs DEF IInv, Setup, RunIs, Batch
  <2>6. RightReport(Here.report, DOMAIN published) /\ RightReport(Here.partial, DOMAIN published)
    BY <2>5 DEF RInv, RightDirs, RightDir, Here
  <2>7. \A i \in DOMAIN s : RightReport(s[i], DOMAIN published)
    BY <2>6
  <2> HIDE DEF s
  <2>8. RightTaken'
    BY <1>1, <2>3, <2>7 DEF RightTaken, RightReport, RightEntry, IsReport
  <2>9. RightWork'
    BY <2>3, <2>8 DEF RightWork, RightFound
  <2> QED  BY <1>2, <1>3, <2>4, <2>9 DEF RInv
<1> QED  BY <1>4, <1>5

\* What remains staged are files of the head.
LEMMA StageRight == ASSUME IInv, RInv, Stage PROVE RInv'
<1> DEFINE d == WithFiles(Here, Kept, KeptRecord)
<1>1. /\ UNCHANGED <<world, hubVars>> /\ run # None /\ run.at = "stage"
      /\ staging' = [staging EXCEPT ![Now] = d]
      /\ run' = [run EXCEPT !.at = "fetch", !.left = DOMAIN Wanted]
  BY DEF Stage, Write, WithFiles
<1>2. run = [f \in RunFields |-> run[f]]
  BY <1>1 DEF IInv, RunIs
<1>3. /\ run' = [f \in RunFields |-> run'[f]] /\ run'.at = "fetch"
      /\ run'.open = run.open /\ run'.todo = run.todo /\ run'.settings = run.settings
      /\ run'.sources = run.sources /\ run'.entries = run.entries
      /\ run'.manifest = run.manifest /\ run'.delivered = run.delivered
  BY <1>1, <1>2 DEF RunFields
<1>4. SameRun
  BY <1>1, <1>3, RunIsSome DEF SameRun
<1>5. SameWorld /\ Now' = Now /\ Wanted' = Wanted /\ Now \in PRs
  BY <1>1, <1>4, RunKept DEF IInv
<1>6. Corpus' /\ Grows /\ RightRun' /\ RightTaken' /\ RightFound'
  BY <1>1, <1>3, <1>4, RightKept
<1>7. /\ staging = [p \in PRs |-> staging[p]] /\ Here = staging[Now]
      /\ DirIs(Here) /\ ReportsAre(Now, Here)
  BY <1>5, HereIs
<1>8. KeptRecord = [f \in RecordFields |-> KeptRecord[f]]
  BY DEF KeptRecord, RecordFields
<1>9. d.files = Kept /\ d.report = Here.report /\ d.partial = Here.partial
  BY <1>7, <1>8, WithFilesIs
<1>10. Here' = d
  BY <1>1, <1>5, <1>7 DEF Here
<1> HIDE DEF d
<1>11. /\ DOMAIN Kept \subseteq DOMAIN Here.files /\ DOMAIN Kept \subseteq DOMAIN Wanted
       /\ \A m \in DOMAIN Kept : Kept[m] = Here.files[m]
  BY DEF Kept, Only
<1>12. RightDir(Now, d, HeadNow(Now), DOMAIN published)
  <2>1. RightDir(Now, Here, HeadNow(Now), DOMAIN published)
    BY <1>5 DEF RInv, RightDirs, Here
  <2> QED  BY <1>9, <1>11, <2>1 DEF RightDir, Stands
<1>13. RightDirs'
  <2>1. ReportsAre(Now, d)
    BY <1>7, <1>9 DEF ReportsAre
  <2> QED  BY <1>1, <1>5, <1>6, <1>12, <2>1, RightDirsWritten DEF RInv
<1>14. OnlyWanted'
  BY <1>5, <1>9, <1>10, <1>11 DEF OnlyWanted
<1> QED  BY <1>3, <1>6, <1>13, <1>14 DEF RInv, RightWork

\* A download is of a file the head has.
LEMMA FetchRight == ASSUME IInv, RInv, Fetch PROVE RInv'
<1> DEFINE m == First(run.left)
           c == Wanted[m]
<1>1. UNCHANGED <<world, hubVars>> /\ run # None /\ run.at = "fetch"
  BY DEF Fetch
<1>2. run = [f \in RunFields |-> run[f]]
  BY <1>1 DEF IInv, RunIs
<1>3. OnlyWanted /\ Fetching
  BY <1>1 DEF IInv, Working, RInv, RightWork
<1>4. CASE run.left = {} \/ Staged(Here, m, c)
  <2>1. /\ UNCHANGED staging
        /\ \/ run' = [run EXCEPT !.at = "overlay"]
           \/ run' = [run EXCEPT !.left = run.left \ {m}]
    BY <1>4 DEF Fetch, Step
  <2>2. /\ run' = [f \in RunFields |-> run'[f]] /\ run'.at \in {"overlay", "fetch"}
        /\ run'.open = run.open /\ run'.todo = run.todo /\ run'.settings = run.settings
        /\ run'.sources = run.sources /\ run'.entries = run.entries
        /\ run'.manifest = run.manifest /\ run'.delivered = run.delivered
    <3>1. CASE run' = [run EXCEPT !.at = "overlay"]
      BY <1>2, <3>1 DEF RunFields
    <3>2. CASE run' = [run EXCEPT !.left = run.left \ {m}]
      BY <1>1, <1>2, <3>2 DEF RunFields
    <3> QED  BY <2>1, <3>1, <3>2
  <2>3. SameRun
    BY <1>1, <2>2, RunIsSome DEF SameRun
  <2>4. SameWorld /\ Now' = Now /\ Wanted' = Wanted
    BY <1>1, <2>3, RunKept DEF IInv
  <2>5. Corpus' /\ Grows /\ RightRun' /\ RightTaken' /\ RightFound'
    BY <1>1, <2>2, <2>3, RightKept
  <2>6. RightDirs'
    BY <2>1, <2>4, <2>5, RightDirsKept DEF RInv
  <2>7. OnlyWanted'
    BY <1>3, <2>1, <2>4 DEF OnlyWanted, Here
  <2> QED  BY <2>2, <2>5, <2>6, <2>7 DEF RInv, RightWork
<1>5. CASE run.left # {} /\ ~ Staged(Here, m, c)
  <2> DEFINE fs == With(Here.files, m, c)
             d == WithFiles(Here, fs, Here.record)
  <2>1. /\ run' = [run EXCEPT !.at = "note"]
        /\ staging' = [staging EXCEPT ![Now] = [Here EXCEPT !.files = fs]]
    BY <1>5 DEF Fetch, Write, Step
  <2>2. /\ run' = [f \in RunFields |-> run'[f]] /\ run'.at = "note"
        /\ run'.open = run.open /\ run'.todo = run.todo /\ run'.settings = run.settings
        /\ run'.sources = run.sources /\ run'.entries = run.entries
        /\ run'.manifest = run.manifest /\ run'.delivered = run.delivered
    BY <1>2, <2>1 DEF RunFields
  <2>3. SameRun
    BY <1>1, <2>2, RunIsSome DEF SameRun
  <2>4. /\ SameWorld /\ Now' = Now /\ Wanted' = Wanted
        /\ Now \in PRs /\ HeadNow(Now) = run.open[Now]
    BY <1>1, <2>3, RunKept DEF IInv
  <2>5. Corpus' /\ Grows /\ RightRun' /\ RightTaken' /\ RightFound'
    BY <1>1, <2>2, <2>3, RightKept
  <2>6. /\ staging = [p \in PRs |-> staging[p]] /\ Here = staging[Now]
        /\ DirIs(Here) /\ ReportsAre(Now, Here)
    BY <2>4, HereIs
  <2>7. m \in DOMAIN Wanted
    BY <1>3, <1>5, FirstIs DEF Fetching
  <2>8. /\ DOMAIN fs = DOMAIN Here.files \cup {m} /\ fs[m] = c
        /\ \A n \in DOMAIN Here.files : n # m => fs[n] = Here.files[n]
    BY DEF With
  <2> HIDE DEF m, fs
  <2>9. [Here EXCEPT !.files = fs] = d
    BY <2>6 DEF DirIs, WithFiles, DirFields
  <2>10. d.files = fs /\ d.report = Here.report /\ d.partial = Here.partial
    <3>1. Here.record = [f \in RecordFields |-> Here.record[f]]
      BY <2>6 DEF DirIs
    <3> QED  BY <2>6, <3>1, WithFilesIs
  <2>11. Here' = d
    BY <2>1, <2>4, <2>6, <2>9 DEF Here
  <2> HIDE DEF d
  <2>12. RightDir(Now, d, HeadNow(Now), DOMAIN published)
    <3>1. RightDir(Now, Here, HeadNow(Now), DOMAIN published)
      BY <2>4 DEF RInv, RightDirs, Here
    <3>2. m \in DOMAIN Tree(Now, HeadNow(Now)) /\ c = Tree(Now, HeadNow(Now))[m]
      BY <2>4, <2>7 DEF Wanted
    <3> HIDE DEF c
    <3> QED  BY <2>8, <2>10, <3>1, <3>2 DEF RightDir, Stands
  <2>13. RightDirs'
    <3>1. ReportsAre(Now, d)
      BY <2>6, <2>10 DEF ReportsAre
    <3> QED  BY <2>1, <2>4, <2>5, <2>9, <2>12, <3>1, RightDirsWritten DEF RInv
  <2>14. OnlyWanted'
    BY <1>3, <2>4, <2>7, <2>8, <2>10, <2>11 DEF OnlyWanted
  <2> QED  BY <2>2, <2>5, <2>13, <2>14 DEF RInv, RightWork
<1> QED  BY <1>4, <1>5

\* The record is of no file and no report.
LEMMA NoteRight == ASSUME IInv, RInv, Note PROVE RInv'
<1> DEFINE m == First(run.left)
           fs == With(Here.record.files, m, Wanted[m])
           rec == [Here.record EXCEPT !.files = fs]
           d == WithFiles(Here, Here.files, rec)
<1>1. /\ UNCHANGED <<world, hubVars>> /\ run # None /\ run.at = "note"
      /\ run' = [run EXCEPT !.at = "fetch", !.left = run.left \ {m}]
      /\ staging' = [staging EXCEPT ![Now] = [Here EXCEPT !.record.files = fs]]
  BY DEF Note, Write
<1>2. run = [f \in RunFields |-> run[f]]
  BY <1>1 DEF IInv, RunIs
<1>3. /\ run' = [f \in RunFields |-> run'[f]] /\ run'.at = "fetch"
      /\ run'.open = run.open /\ run'.todo = run.todo /\ run'.settings = run.settings
      /\ run'.sources = run.sources /\ run'.entries = run.entries
      /\ run'.manifest = run.manifest /\ run'.delivered = run.delivered
  BY <1>1, <1>2 DEF RunFields
<1>4. SameRun
  BY <1>1, <1>3, RunIsSome DEF SameRun
<1>5. SameWorld /\ Now' = Now /\ Wanted' = Wanted /\ Now \in PRs
  BY <1>1, <1>4, RunKept DEF IInv
<1>6. Corpus' /\ Grows /\ RightRun' /\ RightTaken' /\ RightFound'
  BY <1>1, <1>3, <1>4, RightKept
<1>7. /\ staging = [p \in PRs |-> staging[p]] /\ Here = staging[Now]
      /\ DirIs(Here) /\ ReportsAre(Now, Here)
  BY <1>5, HereIs
<1> HIDE DEF fs
<1>8. rec = [f \in RecordFields |-> rec[f]]
  BY <1>7 DEF DirIs, RecordFields
<1>9. [Here EXCEPT !.record.files = fs] = d
  BY <1>7 DEF DirIs, WithFiles, DirFields
<1> HIDE DEF rec
<1>10. d.files = Here.files /\ d.report = Here.report /\ d.partial = Here.partial
  BY <1>7, <1>8, WithFilesIs
<1>11. Here' = d
  BY <1>1, <1>5, <1>7, <1>9 DEF Here
<1> HIDE DEF d
<1>12. RightDir(Now, d, HeadNow(Now), DOMAIN published) /\ ReportsAre(Now, d)
  <2>1. RightDir(Now, Here, HeadNow(Now), DOMAIN published)
    BY <1>5 DEF RInv, RightDirs, Here
  <2> QED  BY <1>7, <1>10, <2>1 DEF RightDir, Stands, ReportsAre
<1>13. RightDirs'
  BY <1>1, <1>5, <1>6, <1>9, <1>12, RightDirsWritten DEF RInv
<1>14. OnlyWanted'
  BY <1>1, <1>5, <1>10, <1>11 DEF RInv, RightWork, OnlyWanted
<1> QED  BY <1>3, <1>6, <1>13, <1>14 DEF RInv, RightWork

(* What other PRs supply is right: each is staged at the head its report passes. *)
LEMMA SuppliedIsRight ==
  ASSUME IInv, RInv, run # None, NEW m \in DOMAIN Supplied
  PROVE  Supplied[m].payload = Right[m]
<1> DEFINE S == {q \in PRs : Supplies(q) /\ m \in DOMAIN staging[q].files}
           q == MaxOf(S)
           r == staging[q].report
<1>1. S # {} /\ Supplied[m] = staging[q].files[m]
  BY DEF Supplied
<1>2. S \in SUBSET Nat /\ IsFiniteSet(S)
  <2>1. PRs \subseteq Nat /\ IsFiniteSet(PRs)
    BY VerifyAssumption DEF PRs, IInv, Setup
  <2> QED  BY <2>1, FS_Subset
<1>3. q \in S
  <2> HIDE DEF S
  <2> QED  BY <1>1, <1>2, MaxOfIs
<1>4. /\ q \in PRs /\ m \in DOMAIN staging[q].files /\ q \in DOMAIN run.open
      /\ IsReport(r) /\ r.pass /\ r.head = run.open[q]
  BY <1>3 DEF Supplies
<1> HIDE DEF q, S
<1>5. HeadNow(q) = r.head
  BY <1>4 DEF HeadNow
<1>6. /\ m \in DOMAIN Tree(q, r.head) /\ staging[q].files[m] = Tree(q, r.head)[m]
      /\ \A n \in DOMAIN r.tables : r.tables[n].passed
      /\ RightReport(r, DOMAIN published)
  BY <1>4, <1>5 DEF RInv, RightDirs, RightDir, Stands
<1>7. WholeIs(q, r)
  BY <1>4 DEF IInv, Dirs, ReportsAre
<1>8. m \in DOMAIN r.tables /\ r.tables[m].seen = Tree(q, r.head)[m]
  BY <1>6, <1>7 DEF WholeIs, ReportIs, EntryIs
<1>9. r.tables[m].seen.payload = Right[m]
  BY <1>4, <1>6, <1>8 DEF RightReport, RightEntry
<1> QED  BY <1>1, <1>6, <1>8, <1>9

\* Beside the PR's own files there is nothing wrong to check a table over.
LEMMA BuildOverlayRight == ASSUME IInv, RInv, BuildOverlay PROVE RInv'
<1>1. /\ UNCHANGED <<world, hubVars>> /\ run # None /\ run.at = "overlay" /\ UNCHANGED staging
      /\ run' = [run EXCEPT !.at = "table", !.overlay = Overlay]
  BY DEF BuildOverlay
<1>2. run = [f \in RunFields |-> run[f]]
  BY <1>1 DEF IInv, RunIs
<1>3. /\ run' = [f \in RunFields |-> run'[f]] /\ run'.at = "table" /\ run'.overlay = Overlay
      /\ run'.open = run.open /\ run'.todo = run.todo /\ run'.settings = run.settings
      /\ run'.sources = run.sources /\ run'.entries = run.entries
      /\ run'.manifest = run.manifest /\ run'.delivered = run.delivered
  BY <1>1, <1>2 DEF RunFields
<1>4. SameRun
  BY <1>1, <1>3, RunIsSome DEF SameRun
<1>5. SameWorld /\ Now' = Now /\ Wanted' = Wanted
  BY <1>1, <1>4, RunKept DEF IInv
<1>6. Corpus' /\ Grows /\ RightRun' /\ RightTaken' /\ RightFound'
  BY <1>1, <1>3, <1>4, RightKept
<1>7. RightDirs'
  BY <1>1, <1>5, <1>6, RightDirsKept DEF RInv
<1>8. OnlyWanted
  BY <1>1 DEF RInv, RightWork
<1>9. ASSUME NEW m \in DOMAIN Overlay \ DOMAIN Wanted PROVE Overlay[m].payload = Right[m]
  <2>1. m \notin DOMAIN Here.files
    BY <1>8 DEF OnlyWanted
  <2>2. m \in DOMAIN Union(Supplied, tables) /\ Overlay[m] = Union(Supplied, tables)[m]
    BY <2>1 DEF Overlay, Union
  <2>3. CASE m \in DOMAIN tables
    <3>1. Overlay[m] = tables[m]
      BY <2>2, <2>3 DEF Union
    <3> QED  BY <2>3, <3>1 DEF RInv, Corpus, PublishedIsRight
  <2>4. CASE m \notin DOMAIN tables
    <3>1. m \in DOMAIN Supplied /\ Overlay[m] = Supplied[m]
      BY <2>2, <2>4 DEF Union
    <3> QED  BY <1>1, <3>1, SuppliedIsRight
  <2> QED  BY <2>3, <2>4
<1>10. OnlyWanted' /\ RightBeside'
  BY <1>1, <1>3, <1>5, <1>8, <1>9 DEF OnlyWanted, RightBeside, Here
<1> QED  BY <1>3, <1>6, <1>7, <1>10 DEF RInv, RightWork

(* An entry passes when its table does. *)
LEMMA EntryPasses ==
  ASSUME NEW c, NEW c0, NEW source, NEW deepest, NEW settings, NEW head, NEW passed,
         Entry(c, c0, source, deepest, settings, head, passed).passed
  PROVE  passed
<1>1. Entry(c, c0, source, deepest, settings, head, passed).passed = passed
  BY DEF Entry
<1> QED  BY <1>1, Zenon

(* A table that was checked over right ones and passed is right (verify.py:105-171): where it is
   published or was delivered it has that payload, elsewhere it was computed from right ones. *)
LEMMA PassIsRight ==
  ASSUME ComputedRight, NoWrongPair, IInv, RInv, run # None, run.at = "table",
         NEW m \in DOMAIN Wanted, ~ Aborts(m), TakenOver(m) = {},
         Passes(m, run.overlay[m])
  PROVE  /\ run.overlay[m].payload = Right[m]
         /\ run.overlay[m].sidecar = "ok" \/ m \in DOMAIN published
<1> DEFINE c == run.overlay[m]
<1>1. \A n \in DOMAIN Wanted : run.overlay[n] = Wanted[n]
  BY DEF IInv, Working
<1>2. /\ RightBeside /\ run.manifest \subseteq DOMAIN published
      /\ \A n \in DOMAIN run.delivered : run.delivered[n].payload = Right[n]
  BY DEF RInv, RightWork, RightRun
<1>3. Now \in PRs /\ run.open[Now] \in Heads(Now)
  BY NowIs DEF IInv, Setup, RunIs, Batch, Heads
<1>4. ~ MissingSub(m, c) /\ (m \in run.manifest => m \in DOMAIN tables)
  BY DEF Aborts
<1>5. CASE Source(m) = NoSource
  <2>1. c.sidecar = "ok" /\ c.payload \in DOMAIN Built /\ Consistent(m, c)
    BY <1>5 DEF Passes
  <2>2. Materials[m].subs \subseteq DOMAIN run.overlay
    BY <1>4, <1>5, <2>1 DEF MissingSub
  <2> DEFINE files == world.trees[Now][run.open[Now]].files
  <2>3. Wanted = files
    BY DEF Wanted, Tree
  <2>4. ASSUME NEW s \in Materials[m].subs PROVE Built[c.payload][s] = Right[s]
    <3>1. Built[c.payload][s] = run.overlay[s].payload
      BY <2>1 DEF Consistent
    <3>2. CASE s \in DOMAIN Wanted
      <4>1. files[s].payload = Right[s]
        BY <1>3, <2>3, <3>2 DEF NoWrongPair, IInv, Setup, PRs, Heads
      <4> QED  BY <1>1, <2>3, <3>1, <3>2, <4>1
    <3>3. CASE s \notin DOMAIN Wanted
      BY <1>2, <2>2, <3>1, <3>3 DEF RightBeside
    <3> QED  BY <3>2, <3>3
  <2>5. c = files[m] /\ m \in DOMAIN files
    BY <1>1, <2>3
  <2>6. c.payload = Right[m]
    <3> DEFINE payload == files[m].payload
    <3>1. payload \in DOMAIN Built /\ (\A s \in Materials[m].subs : Built[payload][s] = Right[s])
             => payload = Right[m]
      BY <1>3, <2>5 DEF ComputedRight, IInv, Setup, PRs, Heads
    <3>2. payload = c.payload
      BY <2>5
    <3> HIDE DEF payload, c
    <3> QED  BY <2>1, <2>4, <3>1, <3>2
  <2> QED  BY <2>1, <2>6
<1>6. CASE Source(m) # NoSource
  <2>1. c.payload = Source(m) /\ (Again(m) => c.sidecar = "ok")
    BY <1>6 DEF Passes
  <2>2. CASE m \in run.manifest
    <3>1. Source(m) = tables[m].payload /\ m \in DOMAIN tables /\ m \in DOMAIN published
      BY <1>2, <1>4, <2>2 DEF Source
    <3> QED  BY <2>1, <3>1 DEF RInv, Corpus, PublishedIsRight
  <2>3. CASE m \notin run.manifest
    <3>1. Earlier(m) /\ Source(m) = run.delivered[m].payload
      BY <1>6, <2>3 DEF Source
    <3> QED  BY <1>2, <2>1, <2>3, <3>1 DEF Earlier, Again
  <2> QED  BY <2>2, <2>3
<1> QED  BY <1>5, <1>6

(* So is what a run finds of a table, also where it takes an earlier result over. *)
LEMMA NewEntryRight ==
  ASSUME ComputedRight, NoWrongPair, IInv, RInv, run # None, run.at = "table",
         NEW m \in DOMAIN Wanted, ~ Aborts(m)
  PROVE  RightEntry(m, NewEntry(m), DOMAIN published)
<1>1. CASE TakenOver(m) # {}
  <2> DEFINE i == MinOf(TakenOver(m))
             src == run.sources[i]
  <2>1. Sources /\ RightTaken
    BY DEF IInv, Working, RInv, RightWork
  <2>2. i \in TakenOver(m)
    <3>1. TakenOver(m) \in SUBSET Nat
      BY <2>1 DEF TakenOver, Sources
    <3>2. \E j \in TakenOver(m) : \A k \in TakenOver(m) : j <= k
      BY <1>1, <3>1, Least
    <3> QED  BY <3>2 DEF MinOf
  <2>3. i \in DOMAIN run.sources /\ IsReport(src) /\ m \in DOMAIN src.tables
    BY <2>2 DEF TakenOver, Reusable
  <2>4. NewEntry(m) = src.tables[m]
    BY <1>1 DEF NewEntry
  <2> HIDE DEF i
  <2> QED  BY <2>1, <2>3, <2>4 DEF RightTaken, RightReport
<1>2. CASE TakenOver(m) = {}
  <2> DEFINE c == run.overlay[m]
             deepest == Source(m) = NoSource \/ Again(m)
             e == Entry(Here.record.files[m], c, Source(m), deepest, run.settings,
                        run.open[Now], Passes(m, c))
  <2>1. NewEntry(m) = e
    BY <1>2 DEF NewEntry
  <2>2. e.seen = c
    BY DEF Entry
  <2> SUFFICES ASSUME e.passed PROVE c.payload = Right[m] /\ (c.sidecar = "ok" \/ m \in DOMAIN published)
    BY <2>1, <2>2 DEF RightEntry
  <2>3. Passes(m, c)
    BY EntryPasses
  <2> QED  BY <1>2, <2>3, PassIsRight
<1> QED  BY <1>1, <1>2

\* What is found of the next table is right, and so is the partial report.
LEMMA VerifyTableRight ==
  ASSUME ComputedRight, NoWrongPair, IInv, RInv, VerifyTable PROVE RInv'
<1>1. /\ UNCHANGED <<world, hubVars>> /\ UNCHANGED <<world, prs, published, tables>>
      /\ run # None /\ run.at = "table" /\ DOMAIN run.entries # DOMAIN Wanted
  BY DEF VerifyTable, hubVars
<1>2. run = [f \in RunFields |-> run[f]]
  BY <1>1 DEF IInv, RunIs
<1>3. OnlyWanted /\ RightBeside /\ RightFound /\ Entries
  BY <1>1 DEF IInv, Working, RInv, RightWork
<1>4. CASE Aborts(NextTable)
  <2>1. run' = None /\ UNCHANGED staging
    BY <1>1, <1>4 DEF VerifyTable
  <2>2. SameWorld
    BY <1>1, <2>1, RunEnds DEF IInv
  <2>3. Corpus' /\ Grows
    BY <1>1 DEF RInv, Corpus, PublishedIsRight, Grows
  <2>4. RightDirs'
    BY <2>1, <2>2, <2>3, RightDirsKept DEF RInv
  <2> QED  BY <2>1, <2>3, <2>4 DEF RInv, RightRun, RightWork
<1>5. CASE ~ Aborts(NextTable)
  <2> DEFINE m == NextTable
             es == With(run.entries, m, NewEntry(m))
             r == Partial(es)
             d == WithPartial(Here, r)
  <2>1. run' = [run EXCEPT !.entries = es] /\ staging' = [staging EXCEPT ![Now] = d]
    BY <1>5 DEF VerifyTable, Write, WithPartial
  <2>2. /\ run' = [f \in RunFields |-> run'[f]] /\ run'.at = "table" /\ run'.entries = es
        /\ run'.open = run.open /\ run'.todo = run.todo /\ run'.settings = run.settings
        /\ run'.sources = run.sources /\ run'.overlay = run.overlay
        /\ run'.manifest = run.manifest /\ run'.delivered = run.delivered
    BY <1>1, <1>2, <2>1 DEF RunFields
  <2>3. SameRun
    BY <1>1, <2>2, RunIsSome DEF SameRun
  <2>4. /\ SameWorld /\ Now' = Now /\ Wanted' = Wanted
        /\ Now \in PRs /\ run.open[Now] \in Heads(Now)
    BY <1>1, <2>3, RunKept DEF IInv
  <2>5. Corpus' /\ Grows /\ RightRun' /\ RightTaken'
    BY <1>1, <2>2, <2>3, RightKept
  <2>6. /\ staging = [p \in PRs |-> staging[p]] /\ Here = staging[Now]
        /\ DirIs(Here) /\ ReportsAre(Now, Here)
    BY <2>4, HereIs
  <2>7. m \in DOMAIN Wanted
    BY <1>1, <1>3, FirstIs DEF NextTable, Entries
  <2>8. RightEntry(m, NewEntry(m), DOMAIN published)
    BY <1>1, <1>5, <2>7, NewEntryRight
  <2>9. \A n \in DOMAIN es : RightEntry(n, es[n], DOMAIN published)
    BY <1>3, <2>8 DEF With, RightFound
  <2>10. Dirs'
    BY VerifyTableStep DEF IInv
  <2> HIDE DEF m, es
  <2>11. r.tables = es
    BY DEF Partial, ReportJson
  <2> HIDE DEF r
  <2>12. d.files = Here.files /\ d.report = Here.report /\ d.partial = r
    BY <2>6, WithPartialIs
  <2>13. Here' = d
    BY <2>1, <2>4, <2>6 DEF Here
  <2>14. ReportsAre(Now, d)
    <3>1. PRs' = PRs
      BY <1>1 DEF PRs
    <3>2. ReportsAre(Now, staging[Now])'
      BY <2>4, <2>10, <3>1 DEF Dirs
    <3>3. staging'[Now] = d
      BY <2>4, <2>13 DEF Here
    <3> HIDE DEF d
    <3> QED  BY <1>1, <2>4, <3>2, <3>3 DEF ReportsAre, WholeIs, ReportIs, Heads, Tree, Tidy, IsReport
  <2> HIDE DEF d
  <2>15. RightReport(r, DOMAIN published)
    BY <2>9, <2>11 DEF RightReport
  <2>16. RightDirs'
    <3>1. RightDir(Now, Here, HeadNow(Now), DOMAIN published)
      BY <2>4 DEF RInv, RightDirs, Here
    <3>2. RightDir(Now, d, HeadNow(Now), DOMAIN published)
      BY <2>12, <2>15, <3>1 DEF RightDir, Stands
    <3> QED  BY <2>1, <2>4, <2>5, <2>14, <3>2, RightDirsWritten DEF RInv
  <2>17. RightFound'
    BY <1>1, <2>2, <2>9 DEF RightFound, RightEntry
  <2>18. OnlyWanted' /\ RightBeside'
    BY <1>3, <2>2, <2>4, <2>12, <2>13 DEF OnlyWanted, RightBeside
  <2> QED  BY <2>2, <2>5, <2>16, <2>17, <2>18 DEF RInv, RightWork
<1> QED  BY <1>4, <1>5

\* Between the last report and the next one there is none.
LEMMA MoveAsideRight == ASSUME IInv, RInv, MoveAside PROVE RInv'
<1> DEFINE d == WithReport(Here, None)
<1>1. /\ UNCHANGED <<world, hubVars>> /\ run # None /\ run.at = "table"
      /\ run' = [run EXCEPT !.at = "report"] /\ staging' = [staging EXCEPT ![Now] = d]
  BY DEF MoveAside, Write, Step, WithReport
<1>2. run = [f \in RunFields |-> run[f]]
  BY <1>1 DEF IInv, RunIs
<1>3. /\ run' = [f \in RunFields |-> run'[f]] /\ run'.at = "report" /\ run'.entries = run.entries
      /\ run'.open = run.open /\ run'.todo = run.todo /\ run'.settings = run.settings
      /\ run'.sources = run.sources
      /\ run'.manifest = run.manifest /\ run'.delivered = run.delivered
  BY <1>1, <1>2 DEF RunFields
<1>4. SameRun
  BY <1>1, <1>3, RunIsSome DEF SameRun
<1>5. SameWorld /\ Now' = Now /\ Wanted' = Wanted /\ Now \in PRs
  BY <1>1, <1>4, RunKept DEF IInv
<1>6. Corpus' /\ Grows /\ RightRun' /\ RightTaken' /\ RightFound'
  BY <1>1, <1>3, <1>4, RightKept
<1>7. /\ staging = [p \in PRs |-> staging[p]] /\ Here = staging[Now]
      /\ DirIs(Here) /\ ReportsAre(Now, Here)
  BY <1>5, HereIs
<1>8. d.files = Here.files /\ d.record = Here.record /\ d.report = None /\ d.partial = Here.partial
  BY <1>7, WithReportIs
<1>9. Here' = d
  BY <1>1, <1>5, <1>7 DEF Here
<1> HIDE DEF d
<1>10. ~ IsReport(d.report)
  BY <1>8 DEF IsReport
<1>11. RightDirs'
  <2>1. RightDir(Now, Here, HeadNow(Now), DOMAIN published)
    BY <1>5 DEF RInv, RightDirs, Here
  <2>2. RightDir(Now, d, HeadNow(Now), DOMAIN published) /\ ReportsAre(Now, d)
    BY <1>7, <1>8, <1>10, <2>1 DEF RightDir, Stands, RightReport, ReportsAre
  <2> QED  BY <1>1, <1>5, <1>6, <2>2, RightDirsWritten DEF RInv
<1>12. OnlyWanted' /\ \A m \in DOMAIN Wanted' : Held(m)'
  BY <1>1, <1>5, <1>8, <1>9 DEF RInv, RightWork, OnlyWanted, IInv, Working, Held
<1> QED  BY <1>3, <1>6, <1>11, <1>12 DEF RInv, RightWork

(* A report passes only where all its entries do. *)
LEMMA PassIsOfAll ==
  ASSUME NEW es, NEW h, NEW s, NEW tidy, ReportJson(es, h, s, tidy).pass
  PROVE  \A m \in DOMAIN es : es[m].passed
<1> DEFINE all == \A m \in DOMAIN es : es[m].passed
<1>1. ReportJson(es, h, s, tidy).pass = (tidy /\ all)
  BY DEF ReportJson
<1>2. all
  <2> HIDE DEF all
  <2> QED  BY <1>1, Zenon
<1> QED  BY <1>2

\* The report stands: it tells of the files that are staged, and delivers what it passed.
LEMMA WriteReportRight == ASSUME IInv, RInv, WriteReport PROVE RInv'
<1> DEFINE r == ReportJson(run.entries, run.open[Now], run.settings, Tidy(Now, run.open[Now]))
           d == WithReport(Here, r)
           new == [m \in {m \in DOMAIN run.entries : run.entries[m].passed} |->
                     [pr |-> Now, payload |-> run.entries[m].seen.payload]]
<1>1. /\ UNCHANGED <<world, hubVars>> /\ UNCHANGED <<world, published>>
      /\ run # None /\ run.at = "report"
      /\ staging' = [staging EXCEPT ![Now] = d]
      /\ run' = [run EXCEPT !.at = "done", !.delivered = Union(new, run.delivered)]
  BY DEF WriteReport, Write, WithReport, hubVars
<1>2. run = [f \in RunFields |-> run[f]]
  BY <1>1 DEF IInv, RunIs
<1>3. /\ RightFound /\ OnlyWanted /\ RightRun
      /\ \A m \in DOMAIN Wanted : Held(m)
  BY <1>1 DEF RInv, RightWork
<1>4. /\ run' = [f \in RunFields |-> run'[f]] /\ run'.at = "done" /\ run'.entries = run.entries
      /\ run'.open = run.open /\ run'.todo = run.todo /\ run'.settings = run.settings
      /\ run'.sources = run.sources /\ run'.manifest = run.manifest
      /\ run'.delivered = Union(new, run.delivered)
  BY <1>1, <1>2 DEF RunFields
<1>5. SameRun
  BY <1>1, <1>4, RunIsSome DEF SameRun
<1>6. /\ SameWorld /\ Now' = Now /\ Wanted' = Wanted
      /\ Now \in PRs /\ HeadNow(Now) = run.open[Now] /\ run.open[Now] \in Heads(Now)
  BY <1>1, <1>5, RunKept DEF IInv
<1>7. Corpus' /\ Grows /\ RightTaken' /\ RightFound'
  BY <1>1, <1>4, <1>5, RightKept
<1>8. RightRun'
  <2>1. ASSUME NEW m \in DOMAIN Union(new, run.delivered)
        PROVE  Union(new, run.delivered)[m].payload = Right[m]
    <3>1. CASE m \in DOMAIN run.delivered
      BY <1>1, <1>3, <3>1 DEF Union, RightRun
    <3>2. CASE m \notin DOMAIN run.delivered
      <4>1. m \in DOMAIN run.entries /\ run.entries[m].passed /\ Union(new, run.delivered)[m] = new[m]
        BY <3>2 DEF Union
      <4>2. new[m].payload = run.entries[m].seen.payload
        BY <4>1
      <4> HIDE DEF new
      <4> QED  BY <1>3, <4>1, <4>2 DEF RightFound, RightEntry
    <3> QED  BY <3>1, <3>2
  <2> HIDE DEF new
  <2> QED  BY <1>1, <1>3, <1>4, <2>1 DEF RightRun
<1> HIDE DEF new
<1>9. /\ staging = [p \in PRs |-> staging[p]] /\ Here = staging[Now]
      /\ DirIs(Here) /\ ReportsAre(Now, Here)
  BY <1>6, HereIs
<1>10. r.head = run.open[Now] /\ r.tables = run.entries
  BY DEF ReportJson
<1>11. r.pass => \A m \in DOMAIN run.entries : run.entries[m].passed
  BY PassIsOfAll
<1>12. Dirs'
  BY WriteReportStep DEF IInv
<1> HIDE DEF r
<1>13. d.files = Here.files /\ d.report = r /\ d.partial = Here.partial
  BY <1>9, WithReportIs
<1>14. Here' = d
  BY <1>1, <1>6, <1>9 DEF Here
<1>15. ReportsAre(Now, d)
  <2>1. PRs' = PRs
    BY <1>1 DEF PRs
  <2>2. ReportsAre(Now, staging[Now])'
    BY <1>6, <1>12, <2>1 DEF Dirs
  <2>3. staging'[Now] = d
    BY <1>6, <1>14 DEF Here
  <2> HIDE DEF d
  <2> QED  BY <1>1, <1>6, <2>2, <2>3 DEF ReportsAre, WholeIs, ReportIs, Heads, Tree, Tidy, IsReport
<1> HIDE DEF d
<1>16. RightReport(r, DOMAIN published)
  BY <1>3, <1>10 DEF RightReport, RightFound
<1>17. Stands(Now, d, HeadNow(Now))
  <2>1. r.head <= HeadNow(Now)
    BY <1>6, <1>10, HeadsAreNat DEF IInv, Setup
  <2>2. \A m \in DOMAIN d.files :
          m \in DOMAIN Tree(Now, HeadNow(Now)) /\ d.files[m] = Tree(Now, HeadNow(Now))[m]
    BY <1>3, <1>6, <1>13 DEF OnlyWanted, Held, Wanted
  <2> QED  BY <1>10, <1>11, <1>13, <2>1, <2>2 DEF Stands
<1>18. RightDirs'
  <2>1. RightDir(Now, Here, HeadNow(Now), DOMAIN published)
    BY <1>6 DEF RInv, RightDirs, Here
  <2>2. RightDir(Now, d, HeadNow(Now), DOMAIN published)
    BY <1>13, <1>16, <1>17, <2>1 DEF RightDir
  <2> QED  BY <1>1, <1>6, <1>7, <1>15, <2>2, RightDirsWritten DEF RInv
<1>19. OnlyWanted'
  BY <1>3, <1>6, <1>13, <1>14 DEF OnlyWanted
<1> QED  BY <1>4, <1>7, <1>8, <1>18, <1>19 DEF RInv, RightWork

\* What the run delivered stays for the PRs that follow.
LEMMA PostRight == ASSUME IInv, RInv, Post PROVE RInv'
<1> DEFINE d == WithPartial(Here, None)
<1>1. /\ UNCHANGED <<published, tables>> /\ run # None /\ run.at = "done"
      /\ run' = [run EXCEPT !.at = "pr", !.todo = run.todo \ {Now}]
      /\ staging' = [staging EXCEPT ![Now] = d]
  BY DEF Post, Write, WithPartial, hubVars
<1>2. run = [f \in RunFields |-> run[f]] /\ Batch /\ run.todo # {}
  BY <1>1 DEF IInv, RunIs
<1>3. run'.at = "pr" /\ run'.manifest = run.manifest /\ run'.delivered = run.delivered
  BY <1>1, <1>2 DEF RunFields
<1>4. SameWorld /\ Now \in PRs
  BY <1>2, PostStep, NowIs DEF IInv, Setup, Batch
<1>5. Corpus' /\ Grows /\ RightRun'
  BY <1>1, <1>3 DEF RInv, Corpus, PublishedIsRight, Grows, RightRun
<1>6. DirIs(Here) /\ ReportsAre(Now, Here)
  BY <1>4, HereIs
<1>7. d.files = Here.files /\ d.report = Here.report /\ d.partial = None
  BY <1>6, WithPartialIs
<1> HIDE DEF d
<1>8. ~ IsReport(d.partial)
  BY <1>7 DEF IsReport
<1>9. RightDirs'
  <2>1. RightDir(Now, Here, HeadNow(Now), DOMAIN published)
    BY <1>4 DEF RInv, RightDirs, Here
  <2>2. RightDir(Now, d, HeadNow(Now), DOMAIN published) /\ ReportsAre(Now, d)
    BY <1>6, <1>7, <1>8, <2>1 DEF RightDir, Stands, RightReport, ReportsAre
  <2> QED  BY <1>1, <1>4, <1>5, <2>2, RightDirsWritten DEF RInv
<1> QED  BY <1>3, <1>5, <1>9 DEF RInv, RightWork

\* What a crash leaves of a directory is right as far as it can be read.
LEMMA CutOffRight ==
  ASSUME IInv, RInv, run # None, run.at \in {"stage", "note", "table", "report"}
  PROVE  RightDir(Now, CutOff, HeadNow(Now), DOMAIN published)
<1> DEFINE right(d) == RightDir(Now, d, HeadNow(Now), DOMAIN published)
<1>1. Now \in PRs
  BY CutOffIs
<1>2. DirIs(Here) /\ right(Here)
  BY <1>1, HereIs DEF RInv, RightDirs, Here
<1>3. NoRecord = [f \in RecordFields |-> NoRecord[f]]
  BY DEF NoRecord, RecordFields
<1>4. CASE run.at = "stage"
  <2> DEFINE d == WithFiles(Here, Kept, NoRecord)
  <2>1. CutOff = d
    BY <1>4 DEF CutOff, WithFiles
  <2>2. d.files = Kept /\ d.report = Here.report /\ d.partial = Here.partial
    BY <1>2, <1>3, WithFilesIs
  <2> HIDE DEF d
  <2>3. /\ DOMAIN Kept \subseteq DOMAIN Here.files
        /\ \A m \in DOMAIN Kept : Kept[m] = Here.files[m]
    BY DEF Kept, Only
  <2>4. right(d)
    BY <1>2, <2>2, <2>3 DEF RightDir, Stands
  <2> QED  BY <2>1, <2>4
<1>5. CASE run.at = "note"
  <2> DEFINE d == WithFiles(Here, Here.files, NoRecord)
  <2>1. CutOff = d
    BY <1>2, <1>5 DEF CutOff, WithFiles, DirIs, DirFields
  <2>2. d.files = Here.files /\ d.report = Here.report /\ d.partial = Here.partial
    BY <1>2, <1>3, WithFilesIs
  <2> HIDE DEF d
  <2>3. right(d)
    BY <1>2, <2>2 DEF RightDir, Stands
  <2> QED  BY <2>1, <2>3
<1>6. CASE run.at = "table"
  <2> DEFINE d == WithPartial(Here, Torn)
  <2>1. CutOff = d
    BY <1>6 DEF CutOff, WithPartial
  <2>2. d.files = Here.files /\ d.report = Here.report /\ d.partial = Torn
    BY <1>2, WithPartialIs
  <2> HIDE DEF d
  <2>3. right(d)
    BY <1>2, <2>2 DEF RightDir, Stands, RightReport, IsReport
  <2> QED  BY <2>1, <2>3
<1>7. CASE run.at = "report"
  <2> DEFINE d == WithReport(Here, Torn)
  <2>1. CutOff = d
    BY <1>7 DEF CutOff, WithReport
  <2>2. d.files = Here.files /\ d.report = Torn /\ d.partial = Here.partial
    BY <1>2, WithReportIs
  <2> HIDE DEF d
  <2>3. right(d)
    BY <1>2, <2>2 DEF RightDir, Stands, RightReport, IsReport
  <2> QED  BY <2>1, <2>3
<1> QED  BY <1>4, <1>5, <1>6, <1>7

\* A process that dies takes what it delivered with it.
LEMMA CrashRight == ASSUME IInv, RInv, Crash PROVE RInv'
<1>1. UNCHANGED <<world, prs, published, tables>> /\ run # None /\ run' = None
  BY DEF Crash, hubVars
<1>2. SameWorld
  BY <1>1, RunEnds DEF IInv
<1>3. Corpus' /\ Grows
  BY <1>1 DEF RInv, Corpus, PublishedIsRight, Grows
<1>4. CASE UNCHANGED staging
  <2>1. RightDirs'
    BY <1>2, <1>3, <1>4, RightDirsKept DEF RInv
  <2> QED  BY <1>1, <1>3, <2>1 DEF RInv, RightRun, RightWork
<1>5. CASE ~ UNCHANGED staging
  <2>1. run.at \in {"stage", "note", "table", "report"} /\ staging' = [staging EXCEPT ![Now] = CutOff]
    BY <1>5 DEF Crash, Write
  <2>2. /\ Now \in PRs /\ ReportsAre(Now, CutOff)
        /\ RightDir(Now, CutOff, HeadNow(Now), DOMAIN published)
    BY <1>1, <2>1, CutOffIs, CutOffRight
  <2>3. RightDirs'
    BY <1>2, <1>3, <2>1, <2>2, RightDirsWritten DEF RInv
  <2> QED  BY <1>1, <1>3, <2>3 DEF RInv, RightRun, RightWork
<1> QED  BY <1>4, <1>5

(* What accept publishes of a PR is right: the report is of its present head and has passed all
   of it (accept.py:460-480). *)
LEMMA AcceptRight ==
  ASSUME IInv, RInv, NEW p \in PRs, Accept(p)
  PROVE  Corpus' /\ Grows
<1> DEFINE r == staging[p].report
           tree == Tree(p, HeadOf(p))
<1>1. /\ IsReport(r) /\ r.pass /\ r.head = HeadOf(p)
      /\ published' = Union(tree, published) /\ tables' = tables
  BY DEF Accept
<1>2. WholeIs(p, r) /\ RightReport(r, DOMAIN published) /\ \A m \in DOMAIN r.tables : r.tables[m].passed
  BY <1>1 DEF IInv, Dirs, ReportsAre, RInv, RightDirs, RightDir, Stands
<1>3. \A m \in DOMAIN tree :
        tree[m].payload = Right[m] /\ (tree[m].sidecar = "ok" \/ m \in DOMAIN published)
  BY <1>1, <1>2 DEF WholeIs, ReportIs, EntryIs, RightReport, RightEntry
<1> HIDE DEF r, tree
<1>4. \A m \in DOMAIN published : m \in DOMAIN published' /\ published'[m] = published[m]
  BY <1>1 DEF Union
<1>5. \A m \in DOMAIN published' \ DOMAIN published : m \in DOMAIN tree /\ published'[m] = tree[m]
  BY <1>1 DEF Union
<1>6. PublishedIsRight'
  BY <1>3, <1>4, <1>5 DEF PublishedIsRight, RInv, Corpus
<1> QED  BY <1>1, <1>4, <1>6 DEF Corpus, RInv, Grows

\* Pushes publish nothing, and the corpus takes over what is published.
LEMMA OthersRight == ASSUME IInv, RInv, Others PROVE RInv'
<1>1. UNCHANGED <<world, staging, run>> /\ SameWorld
  BY OthersStep DEF Others, Pull, Push, Accept
<1>2. Corpus' /\ Grows
  <2>1. CASE Pull
    BY <2>1 DEF Pull, RInv, Corpus, PublishedIsRight, Grows
  <2>2. ASSUME NEW p \in PRs, Push(p) PROVE Corpus' /\ Grows
    BY <2>2 DEF Push, RInv, Corpus, PublishedIsRight, Grows
  <2>3. ASSUME NEW p \in PRs, Accept(p) PROVE Corpus' /\ Grows
    BY <2>3, AcceptRight
  <2> QED  BY <2>1, <2>2, <2>3 DEF Others
<1>3. RightDirs'
  BY <1>1, <1>2, RightDirsKept DEF RInv
<1>4. RightRun'
  BY <1>1, <1>2 DEF RInv, RightRun, Grows
<1>5. RightWork'
  <2>1. Now' = Now /\ Wanted' = Wanted /\ Here' = Here
    BY <1>1 DEF Now, RankNow, Rank, Tree, Wanted, Here
  <2> SUFFICES ASSUME run # None, run.at # "pr" PROVE RightWork'
    BY <1>1 DEF RightWork
  <2>2. RightTaken /\ RightFound
    BY DEF RInv, RightWork
  <2>3. RightTaken'
    BY <1>1, <1>2, <2>2 DEF RightTaken, RightReport, RightEntry, IsReport, Grows
  <2>4. RightFound'
    BY <1>1, <1>2, <2>2 DEF RightFound, RightEntry, Grows
  <2> QED  BY <1>1, <2>1, <2>3, <2>4 DEF RInv, RightWork, OnlyWanted, RightBeside, Held
<1> QED  BY <1>2, <1>3, <1>4, <1>5 DEF RInv

(* "a wrong table has to be wrong consistently with its neighbours AND with independently
   published tables to pass" (consistency.py:4): where what is published at first is right and a
   payload computed from right sub-tables is right, everything accept publishes is right, unless
   a PR has a wrong sub-table beside a table that needs it, or its author pushes back a file. *)
THEOREM PublishesRight ==
  ASSUME ~ AlikeInSize \/ NeverBack, StartsRight, ComputedRight, NoWrongPair
  PROVE  Spec => []PublishedIsRight
<1>1. Init => RInv
  BY InitRight
<1>2. IInv /\ RInv /\ [Next]_vars => RInv'
  <2> SUFFICES ASSUME IInv, RInv, [Next]_vars PROVE RInv'
    OBVIOUS
  <2>1. CASE UNCHANGED vars
    <3>1. UNCHANGED <<world, prs, published, tables, staging, run>> /\ PRs' = PRs
      BY <2>1 DEF vars, hubVars, PRs
    <3>2. Now' = Now /\ Wanted' = Wanted /\ Here' = Here
      BY <3>1 DEF Now, RankNow, Rank, Tree, Wanted, Here
    <3>3. SameWorld
      <4>1. \A p \in PRs : HeadNow(p)' = HeadNow(p) /\ HeadNow(p) \in Nat
        BY <3>1, HeadNowIs, HeadsAreNat DEF IInv, Setup, HeadNow
      <4> QED  BY <3>1, <4>1 DEF SameWorld
    <3>4. Corpus' /\ Grows /\ RightRun'
      BY <3>1 DEF RInv, Corpus, PublishedIsRight, Grows, RightRun
    <3>5. RightDirs'
      BY <3>1, <3>3, <3>4, RightDirsKept DEF RInv
    <3>6. RightWork'
      BY <3>1, <3>2 DEF RInv, RightWork, RightTaken, RightFound, RightReport, RightEntry, IsReport,
                        OnlyWanted, RightBeside, Held
    <3> QED  BY <3>4, <3>5, <3>6 DEF RInv
  <2>2. CASE Start
    BY <2>2, StartRight
  <2>3. CASE Process
    BY <2>3, TakePrRight, StageRight, FetchRight, NoteRight, BuildOverlayRight,
       VerifyTableRight, MoveAsideRight, WriteReportRight, PostRight DEF Process
  <2>4. CASE Crash
    BY <2>4, CrashRight
  <2>5. CASE Others
    BY <2>5, OthersRight
  <2> QED  BY <2>1, <2>2, <2>3, <2>4, <2>5 DEF Next
<1>3. RInv => PublishedIsRight
  BY DEF RInv, Corpus
<1> QED  BY <1>1, <1>2, <1>3, Invariant, PTL DEF Spec
=============================================================================
