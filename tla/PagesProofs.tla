----------------------------- MODULE PagesProofs -----------------------------
(***************************************************************************)
(* Proofs about the pages command, for any tables, worlds, jobs and number *)
(* of faults.  The invariant follows a page from a job's directory, where  *)
(* a row is written only after its page and its themes, through the fold   *)
(* and the branch, from which no page is ever taken away, to main.  And    *)
(* about DEEPEST.json: the scan for a better position, which checks the    *)
(* cheap things first and stops early, finds the best there is.            *)
(***************************************************************************)
EXTENDS Pages, FiniteSetTheorems, TLAPS
WF == INSTANCE WellFoundedInduction

-----------------------------------------------------------------------------
\* The inductive invariant.

Named(s) == {s[k] : k \in DOMAIN s}
RowsAt(rows, m) == {r \in rows : r.material = m}

\* Of one material the generated files list what its page shows.
Shows(t, m) ==
  /\ RowsAt(t.index, m) = IF t.pages[m].built THEN RowsOf(m, t.pages[m]) ELSE {}
  /\ RowsAt(t.themes, m) = IF t.pages[m].built THEN EntriesOf(m, t.pages[m]) ELSE {}

\* A tree's pages are there or not, and what is not maimed is listed.
TreeFields == {"pages", "index", "themes", "site", "maimed"}
HasPages(d) ==
  /\ d.pages = [m \in Tables |-> d.pages[m]]
  /\ \A m \in Tables : d.pages[m].built \/ d.pages[m] = NoPage
Files(t) ==
  /\ t = [f \in TreeFields |-> t[f]] /\ HasPages(t)
  /\ \A m \in t.maimed : m \in Tables /\ t.pages[m].built
  /\ \A m \in Tables \ t.maimed : Shows(t, m)
Sound(t) == Files(t) /\ t.site = {m \in Tables : t.pages[m].built}
Grows(a, b) == \A m \in Tables : a.pages[m].built => b.pages[m].built

\* What was committed, pushed and merged is sound, and no page goes away.
Branch(b) == Sound(b.base) /\ Sound(b.tree) /\ Grows(b.base, b.tree) /\ Grows(b.base, main)
Commits ==
  /\ Sound(main) /\ Sound(own) /\ Branch(head) /\ Branch(pr)
  /\ head = [f \in {"base", "tree"} |-> head[f]] /\ pr = [f \in {"state", "base", "tree"} |-> pr[f]]

\* What is in the working tree matters while a run folds, until it commits.
Working ==
  at \in {"fold", "decide"} /\ ~ saved.committed => Files(wt) /\ Grows(head.base, wt)

\* A job's directory: a row is only there with the page and the themes it is of.
Whole(d) == ~ d.index.torn /\ ~ d.themes.torn
HasRow(d, m) == RowsAt(d.index.rows, m) # {}
Recorded(d, m) ==
  /\ d.pages[m].built /\ RowsAt(d.index.rows, m) = RowsOf(m, d.pages[m])
  /\ RowsAt(d.themes.rows, m) = EntriesOf(m, d.pages[m])
DirFields == {"pages", "index", "themes", "cut"}
Directory(d) ==
  /\ d = [f \in DirFields |-> d[f]] /\ HasPages(d)
  /\ Whole(d) => \A m \in Tables : HasRow(d, m) => Recorded(d, m)
Directories == dirs = [i \in JobIds |-> dirs[i]] /\ \A i \in JobIds : Directory(dirs[i])

\* A job that ended has listed its pages, or its directory tells that it was killed.
Lists(d, share) == \A m \in share : d.pages[m].built => HasRow(d, m)
Ended(d, share) == ~ Whole(d) \/ d.cut \/ Lists(d, share)

\* A process, its directory and its share: what is still to do, and what was done.
JobFields == {"at", "todo", "seen", "failed"}
Going(j, d, share) ==
  /\ j.todo \in Seq(Tables)
  /\ \A m \in j.seen : m \in Tables /\ d.pages[m].built
  /\ \A m \in share : m \in Named(j.todo) \cup j.seen \/ ~ d.pages[m].built
Themed(j, d) ==
  /\ j.todo = <<>> /\ Whole(d)
  /\ \A m \in j.seen : RowsAt(d.themes.rows, m) = EntriesOf(m, d.pages[m])
Progress(j, d, share) ==
  /\ j = [f \in JobFields |-> j[f]]
  /\ j.at \in {"none", "skipped", "build", "index", "ok", "bad"}
  /\ j.at \in {"build", "index"} => Going(j, d, share)
  /\ j.at = "index" => Themed(j, d)
  /\ j.at \in {"ok", "bad"} => Ended(d, share)
  /\ j.at = "ok" => Whole(d) /\ Lists(d, share)
Process(i) ==
  /\ Progress(job[i], dirs[i], Mats(i))
  /\ job[i].at = "skipped" => i \in saved.done
  /\ i \in saved.done => job[i].at \in {"none", "skipped"}
Processes ==
  /\ job = [i \in JobIds |-> job[i]]
  /\ at = "jobs" => \A i \in JobIds : Process(i)
  /\ at # "jobs" => \A i \in JobIds : job[i].at = "none"

\* A run's state file is about the materials it was asked for; a job it says is done is.
SavedFields == {"materials", "done", "started", "committed", "pushed", "pr", "original"}
State ==
  /\ world \in Worlds /\ ask \subseteq Tables /\ saved.materials \subseteq Tables
  /\ saved = [f \in SavedFields |-> saved[f]]
  /\ at # "idle" => saved.materials = ask
  /\ \A i \in saved.done :
       i \in JobIds /\ Whole(dirs[i]) /\ Lists(dirs[i], Share(saved.materials, i))
  /\ at \in {"reset", "fold"} => \A i \in JobsOf(ask) : Ended(dirs[i], Mats(i))

PInv == Commits /\ Working /\ Directories /\ Processes /\ State

-----------------------------------------------------------------------------
\* Lemmas about the operators.

(* What is merged in replaces what was there of the materials it is about. *)
LEMMA MergedRows ==
  ASSUME NEW rows, NEW new, NEW S, NEW m
  PROVE  LET old == IF m \in S THEN {} ELSE RowsAt(rows, m) IN
         /\ RowsAt(MergeIndex(rows, new, S), m) = old \cup RowsAt(new, m)
         /\ RowsAt(MergeThemes(rows, new, S), m) = old \cup RowsAt(new, m)
BY DEF RowsAt, MergeIndex, MergeThemes

(* A page's row and entries are its material's, and there is a row. *)
LEMMA RowsAre ==
  ASSUME NEW m, NEW d
  PROVE  /\ RowsOf(m, d) # {} /\ \A r \in RowsOf(m, d) : r.material = m
         /\ \A e \in EntriesOf(m, d) : e.material = m
BY DEF RowsOf, EntriesOf

(* Of the rows of one page, a material's are all or none. *)
LEMMA RowsOfPage ==
  ASSUME NEW k, NEW d, NEW m
  PROVE  /\ RowsAt(RowsOf(k, d), m) = IF m = k THEN RowsOf(k, d) ELSE {}
         /\ RowsAt(EntriesOf(k, d), m) = IF m = k THEN EntriesOf(k, d) ELSE {}
BY RowsAre DEF RowsAt

(* build_material returns a page or raises. *)
LEMMA PageIs ==
  ASSUME NEW m \in Tables
  PROVE  PageOf[m][Seed(m)].built \/ PageOf[m][Seed(m)] = NoPage
<1>1. Seed(m) \in Ids \cup {None}
  BY DEF Seed, Of
<1>2. PageOf[m][Seed(m)] = BuildMaterial(m, Seed(m))
  BY <1>1 DEF PageOf
<1>3. ASSUME NEW s PROVE BuildMaterial(m, s).built \/ BuildMaterial(m, s) = NoPage
  <2>1. \A u, v, w : [built |-> TRUE, depth |-> u, unique |-> v, duals |-> w].built
    OBVIOUS
  <2>2. Marker.built
    BY DEF Marker
  <2> QED  BY <2>1, <2>2 DEF BuildMaterial, Checked
<1> QED  BY <1>2, <1>3

(* The first of a queue, and the rest of it. *)
LEMMA Queue ==
  ASSUME NEW s \in Seq(Tables), s # <<>>
  PROVE  /\ Head(s) \in Tables /\ Tail(s) \in Seq(Tables)
         /\ Named(s) = {Head(s)} \cup Named(Tail(s))
<1> DEFINE t == Tail(s)
<1>1. /\ Len(s) \in Nat \ {0} /\ DOMAIN s = 1 .. Len(s) /\ t \in Seq(Tables)
      /\ DOMAIN t = 1 .. Len(s) - 1 /\ \A i \in DOMAIN t : t[i] = s[i + 1]
      /\ Head(s) = s[1] /\ s[1] \in Tables
  OBVIOUS
<1> HIDE DEF t
<1>2. ASSUME NEW i \in DOMAIN s, i # 1
      PROVE  \E j \in DOMAIN t : s[i] = t[j]
  <2>1. i - 1 \in DOMAIN t /\ t[i - 1] = s[i]
    BY <1>1, <1>2
  <2> QED  BY <2>1
<1>3. \A j \in DOMAIN t : \E i \in DOMAIN s : s[i] = t[j]
  <2>1. \A j \in DOMAIN t : j + 1 \in DOMAIN s /\ s[j + 1] = t[j]
    BY <1>1
  <2> QED  BY <2>1
<1> QED  BY <1>1, <1>2, <1>3 DEF Named, t

RankOf(S, c) == Cardinality({h \in S : h <= c})

(* Of two numbers of a finite set the greater has the greater rank. *)
LEMMA GreaterRank ==
  ASSUME NEW S \in SUBSET Nat, IsFiniteSet(S), NEW a \in S, NEW b \in S, a < b
  PROVE  RankOf(S, a) < RankOf(S, b)
<1> DEFINE A == {h \in S : h <= a}
           B == {h \in S : h <= b}
<1>1. A \subseteq B /\ B \subseteq S /\ b \in B /\ b \notin A
  <2>1. \A h \in S : h \in Int
    OBVIOUS
  <2>2. b <= b /\ ~ (b <= a)
    BY <2>1
  <2>3. \A h \in S : h <= a => h <= b
    BY <2>1
  <2> QED  BY <2>2, <2>3
<1>2. IsFiniteSet(B) /\ IsFiniteSet(A)
  BY <1>1, FS_Subset
<1>3. Cardinality(A) \in Nat /\ Cardinality(B) \in Nat
  BY <1>2, FS_CardinalityType
<1>4. Cardinality(A) <= Cardinality(B) /\ Cardinality(A) # Cardinality(B)
  BY <1>1, <1>2, FS_Subset
<1> QED  BY <1>3, <1>4 DEF RankOf

(* The ranks of a finite set's numbers are 1, 2, ... up to how many there are. *)
LEMMA EveryRank ==
  ASSUME NEW S \in SUBSET Nat, IsFiniteSet(S)
  PROVE  /\ \A c \in S : RankOf(S, c) \in 1 .. Cardinality(S)
         /\ \A i \in 1 .. Cardinality(S) : \E c \in S : RankOf(S, c) = i
<1> DEFINE n == Cardinality(S)
           f == [c \in S |-> RankOf(S, c)]
<1>1. n \in Nat
  BY FS_CardinalityType
<1>2. ASSUME NEW c \in S
      PROVE  RankOf(S, c) \in 1 .. n
  <2> DEFINE C == {h \in S : h <= c}
  <2>1. C \subseteq S /\ c \in C
    OBVIOUS
  <2>2. IsFiniteSet(C) /\ Cardinality(C) <= n
    BY <2>1, FS_Subset
  <2>3. Cardinality(C) \in Nat /\ Cardinality(C) # 0
    BY <2>1, <2>2, FS_CardinalityType, FS_EmptySet
  <2> QED  BY <1>1, <2>2, <2>3 DEF RankOf
<1>3. ASSUME NEW a \in S, NEW b \in S, f[a] = f[b]
      PROVE  a = b
  <2>1. a \in Int /\ b \in Int /\ RankOf(S, a) = RankOf(S, b) /\ RankOf(S, a) \in Int
    BY <1>2, <1>3
  <2>2. (a < b => RankOf(S, a) < RankOf(S, b)) /\ (b < a => RankOf(S, b) < RankOf(S, a))
    BY GreaterRank
  <2> QED  BY <2>1, <2>2
<1>4. f \in Injection(S, 1 .. n)
  BY <1>2, <1>3 DEF Injection, IsInjective
<1>5. f \in Surjection(S, 1 .. n)
  BY <1>1, <1>4, FS_Interval, FS_Injection
<1>6. \A i \in 1 .. n : \E c \in S : f[c] = i
  BY <1>5 DEF Surjection
<1> QED  BY <1>2, <1>6

(* A job's queue has the job's share, each material once (pages.py:22). *)
LEMMA SplitIs ==
  ASSUME NEW materials, materials \subseteq Tables, NEW i
  PROVE  /\ Split(materials, i) \in Seq(Tables)
         /\ Share(materials, i) \subseteq Named(Split(materials, i))
<1> DEFINE S == Share(materials, i)
<1>0. S \in SUBSET Nat /\ IsFiniteSet(S) /\ S \subseteq Tables
  BY PagesAssumption, FS_Subset DEF Share
<1> DEFINE n == Cardinality(S)
           Ascends(s) == \A j, k \in DOMAIN s : j < k => s[j] < s[k]
           r == [k \in 1 .. n |-> CHOOSE c \in S : RankOf(S, c) = k]
<1> DEFINE s == Split(materials, i)
<1>a. (\E q \in [1 .. n -> S] : Ascends(q)) => s \in [1 .. n -> S] /\ Ascends(s)
  BY DEF Split
<1> HIDE DEF S, s
<1>1. n \in Nat
  BY <1>0, FS_CardinalityType
<1>2. \A k \in 1 .. n : r[k] \in S /\ RankOf(S, r[k]) = k
  BY <1>0, EveryRank
<1> HIDE DEF r
<1>3. r \in [1 .. n -> S]
  BY <1>2 DEF r
<1>4. ASSUME NEW k \in 1 .. n, NEW j \in 1 .. n, k < j
      PROVE  r[k] < r[j]
  <2>1. r[k] \in S /\ r[j] \in S /\ RankOf(S, r[k]) = k /\ RankOf(S, r[j]) = j
    BY <1>2
  <2>2. r[j] < r[k] => j < k
    BY <1>0, <2>1, GreaterRank
  <2>3. r[k] \in Int /\ r[j] \in Int
    <3>1. \A h \in S : h \in Int
      BY <1>0
    <3> QED  BY <2>1, <3>1
  <2>4. r[k] # r[j]
    <3>1. k # j
      BY <1>1, <1>4
    <3> QED  BY <2>1, <3>1
  <2> QED  BY <1>1, <1>4, <2>2, <2>3, <2>4
<1>5. Ascends(r)
  BY <1>3, <1>4
<1>6. s \in [1 .. n -> S] /\ Ascends(s)
  BY <1>3, <1>5, <1>a
<1>7. s \in Injection(1 .. n, S)
  <2>1. ASSUME NEW k \in 1 .. n, NEW j \in 1 .. n, s[k] = s[j]
        PROVE  k = j
    <3>1. k < j => s[k] < s[j]
      BY <1>6
    <3>2. j < k => s[j] < s[k]
      BY <1>6
    <3>3. s[k] \in S /\ k \in Int /\ j \in Int
      BY <1>1, <1>6
    <3>4. s[k] \in Nat
      BY <1>0, <3>3
    <3> QED  BY <2>1, <3>1, <3>2, <3>3, <3>4
  <2> QED  BY <1>6, <2>1 DEF Injection, IsInjective
<1>8. s \in Surjection(1 .. n, S)
  BY <1>0, <1>1, <1>7, FS_Interval, FS_Injection
<1>9. \A c \in S : \E k \in DOMAIN s : s[k] = c
  BY <1>6, <1>8 DEF Surjection
<1> QED  BY <1>0, <1>1, <1>6, <1>9 DEF S, s, Named

-----------------------------------------------------------------------------
\* The first state, and steps that leave the run alone.

\* The pages there are at first are listed.
LEMMA InitPages == ASSUME Init PROVE PInv
<1>1. world \in Worlds /\ world.old = [m \in Tables |-> world.old[m]]
      /\ \A m \in Tables : world.old[m].built \/ world.old[m] = NoPage
  BY PagesAssumption DEF Init
<1> DEFINE t == Listing(world.old)
<1>2. /\ t = [f \in TreeFields |-> t[f]] /\ t.pages = world.old /\ t.maimed = {}
      /\ t.site = {m \in Tables : world.old[m].built}
      /\ t.index = UNION {RowsOf(m, world.old[m]) : m \in {x \in Tables : world.old[x].built}}
      /\ t.themes = UNION {EntriesOf(m, world.old[m]) : m \in {x \in Tables : world.old[x].built}}
  BY DEF Listing, TreeFields
<1> HIDE DEF t
<1>3. Sound(t)
  <2>1. HasPages(t)
    <3>1. t.pages = [m \in Tables |-> t.pages[m]]
      BY <1>1, <1>2
    <3> QED  BY <1>1, <1>2, <3>1 DEF HasPages
  <2>2. ASSUME NEW m \in Tables PROVE Shows(t, m)
    <3> DEFINE S == {x \in Tables : world.old[x].built}
    <3>1. /\ RowsAt(t.index, m) = IF m \in S THEN RowsOf(m, world.old[m]) ELSE {}
          /\ RowsAt(t.themes, m) = IF m \in S THEN EntriesOf(m, world.old[m]) ELSE {}
      <4>1. /\ t.index = UNION {RowsOf(k, world.old[k]) : k \in S}
            /\ t.themes = UNION {EntriesOf(k, world.old[k]) : k \in S}
        BY <1>2
      <4> HIDE DEF S
      <4> QED  BY <4>1, RowsAre DEF RowsAt
    <3> QED  BY <1>2, <3>1 DEF Shows
  <2> QED  BY <1>2, <2>1, <2>2 DEF Sound, Files
<1>4. main = t /\ own = t /\ head = [base |-> t, tree |-> t]
      /\ pr = [state |-> "none", base |-> t, tree |-> t]
  BY DEF Init, t
<1>5. Commits
  BY <1>3, <1>4 DEF Commits, Branch, Grows
<1>6. Working /\ at = "idle" /\ saved = NoState /\ ask = {}
  BY DEF Init, Working
<1>7. Directories
  <2>1. Directory(NoDir)
    <3>1. NoDir = [f \in DirFields |-> NoDir[f]] /\ NoDir.index.rows = {}
          /\ NoDir.pages = [m \in Tables |-> NoPage]
      BY DEF NoDir, DirFields, File
    <3> QED  BY <3>1 DEF Directory, HasPages, HasRow, RowsAt
  <2> QED  BY <2>1 DEF Init, Directories
<1>8. Processes
  BY DEF Init, Processes, NoJob
<1>9. State
  BY <1>1, <1>6 DEF State, NoState, SavedFields
<1> QED  BY <1>5, <1>6, <1>7, <1>8, <1>9 DEF PInv

(* Jobs and the files of their directories are about nothing else than what they are of. *)
LEMMA ProcessKept ==
  ASSUME UNCHANGED <<world, ask, dirs, job, saved>>, NEW i
  PROVE  /\ Process(i)' <=> Process(i)
         /\ Mats(i)' = Mats(i) /\ (i \in JobsOf(ask)' <=> i \in JobsOf(ask))
BY DEF Process, Mats, Share, JobsOf

(* A step of the repository alone: the run and its jobs are where they were. *)
LEMMA GitStep ==
  ASSUME PInv, UNCHANGED <<world, run, procs>>, Commits', Working'
  PROVE  PInv'
<1>1. UNCHANGED <<world, saved, at, turn, ask, rc, dirs, job>>
  BY DEF run, procs
<1>2. Directories' /\ Processes'
  BY <1>1, ProcessKept DEF PInv, Directories, Processes
<1>3. State'
  <2>1. \A i : Share(saved.materials, i)' = Share(saved.materials, i)
    BY <1>1 DEF Share
  <2> QED  BY <1>1, <2>1, ProcessKept DEF PInv, State
<1> QED  BY <1>2, <1>3 DEF PInv

(* A step of the run after its jobs: its state file is still about the same jobs. *)
LEMMA RunStep ==
  ASSUME PInv, UNCHANGED <<world, ask, procs>>, at # "jobs", at' # "jobs", at # "idle",
         at' \in {"reset", "fold"} => at \in {"reset", "fold"},
         saved' = [f \in SavedFields |-> saved'[f]],
         saved'.materials = saved.materials, saved'.done = saved.done,
         Commits', Working'
  PROVE  PInv'
<1>1. UNCHANGED <<world, ask, dirs, job>>
  BY DEF procs
<1>2. Directories' /\ Processes'
  BY <1>1 DEF PInv, Directories, Processes
<1>3. State'
  <2>1. \A i : /\ Share(saved.materials, i)' = Share(saved.materials, i)
               /\ Mats(i)' = Mats(i) /\ (i \in JobsOf(ask)' <=> i \in JobsOf(ask))
    BY <1>1 DEF Share, Mats, JobsOf
  <2> QED  BY <1>1, <2>1 DEF PInv, State
<1> QED  BY <1>2, <1>3 DEF PInv

(* No page goes away along a chain of commits. *)
LEMMA GrowsOn ==
  ASSUME NEW a, NEW b, NEW c, Grows(a, b), Grows(b, c)
  PROVE  Grows(a, c)
BY DEF Grows

\* The maintainer's other tools touch no page.
LEMMA DocsStep ==
  ASSUME PInv, UNCHANGED <<world, git, run, procs>>
  PROVE  PInv'
<1>1. UNCHANGED <<main, own, head, branch, wt, pr, saved, at>>
  BY DEF git, run
<1>2. Commits' /\ Working'
  BY <1>1 DEF PInv, Commits, Branch, Working
<1> QED  BY <1>2, GitStep

-----------------------------------------------------------------------------
\* The jobs.

(* What a process does in its own directory. *)
LEMMA JobStep ==
  ASSUME PInv, at = "jobs", UNCHANGED JobElse, NEW i \in JobIds, i \notin saved.done,
         NEW d, NEW j, dirs' = [dirs EXCEPT ![i] = d], job' = [job EXCEPT ![i] = j],
         Directory(d), Progress(j, d, Mats(i)), j.at # "skipped"
  PROVE  PInv'
<1>1. UNCHANGED <<world, main, own, head, branch, wt, pr, saved, at, turn, ask, rc>>
  BY DEF JobElse, git, run
<1>2. /\ dirs' = [k \in JobIds |-> dirs'[k]] /\ job' = [k \in JobIds |-> job'[k]]
      /\ dirs'[i] = d /\ job'[i] = j
      /\ \A k \in JobIds \ {i} : dirs'[k] = dirs[k] /\ job'[k] = job[k]
  BY DEF PInv, Directories, Processes
<1>3. Commits' /\ Working'
  BY <1>1 DEF PInv, Commits, Branch, Working
<1>4. Directories'
  BY <1>2 DEF PInv, Directories
<1>5. \A k : Mats(k)' = Mats(k) /\ Share(saved.materials, k)' = Share(saved.materials, k)
  BY <1>1 DEF Mats, Share
<1>6. Processes'
  <2>1. ASSUME NEW k \in JobIds PROVE Process(k)'
    <3>1. CASE k = i
      BY <1>1, <1>2, <1>5, <3>1 DEF Process
    <3>2. CASE k # i
      BY <1>1, <1>2, <1>5, <3>2 DEF PInv, Processes, Process
    <3> QED  BY <3>1, <3>2
  <2> QED  BY <1>1, <1>2, <2>1 DEF Processes
<1>7. State'
  <2>1. \A k \in saved.done : k # i /\ dirs'[k] = dirs[k]
    BY <1>2 DEF PInv, State
  <2> QED  BY <1>1, <1>5, <2>1 DEF PInv, State
<1> QED  BY <1>3, <1>4, <1>6, <1>7 DEF PInv

\* A job at work is not one that is done.
LEMMA AtWork ==
  ASSUME PInv, at = "jobs", NEW i \in JobIds, job[i].at \in {"build", "index"}
  PROVE  /\ i \notin saved.done /\ Directory(dirs[i])
         /\ job[i] = [f \in JobFields |-> job[i][f]] /\ Going(job[i], dirs[i], Mats(i))
         /\ job[i].at = "index" => Themed(job[i], dirs[i])
BY DEF PInv, Processes, Process, Progress, Directories

\* A page is built and put in place, or kept (build_problems.py:391).
LEMMA BuildPageStep == ASSUME PInv, NEW i \in JobIds, BuildPage(i) PROVE PInv'
<1> DEFINE j == job[i]
           d == dirs[i]
           m == Head(j.todo)
           doc == IF d.pages[m].built THEN d.pages[m] ELSE PageOf[m][Seed(m)]
           e == [d EXCEPT !.pages[m] = doc]
           k == [j EXCEPT !.todo = Tail(j.todo),
                          !.seen = IF doc.built THEN j.seen \cup {m} ELSE j.seen,
                          !.failed = j.failed \/ ~ doc.built]
<1>1. /\ at = "jobs" /\ j.at = "build" /\ j.todo # <<>> /\ UNCHANGED JobElse
      /\ dirs' = [dirs EXCEPT ![i] = e] /\ job' = [job EXCEPT ![i] = k]
  BY DEF BuildPage, Building, PInv, Directories, Processes
<1>2. /\ i \notin saved.done /\ Directory(d) /\ Going(j, d, Mats(i))
      /\ j = [f \in JobFields |-> j[f]]
  BY <1>1, AtWork
<1>3. m \in Tables /\ Tail(j.todo) \in Seq(Tables) /\ Named(j.todo) = {m} \cup Named(Tail(j.todo))
  BY <1>1, <1>2, Queue DEF Going
<1>4. (doc.built \/ doc = NoPage) /\ (d.pages[m].built => doc = d.pages[m])
  BY <1>2, <1>3, PageIs
<1> HIDE DEF doc, m
<1>5. /\ e = [f \in DirFields |-> e[f]] /\ e.index = d.index /\ e.themes = d.themes /\ e.cut = d.cut
      /\ e.pages = [d.pages EXCEPT ![m] = doc]
  BY <1>2 DEF Directory, DirFields
<1>6. /\ k = [f \in JobFields |-> k[f]] /\ k.at = j.at /\ k.todo = Tail(j.todo)
      /\ k.seen = IF doc.built THEN j.seen \cup {m} ELSE j.seen
  BY <1>2 DEF JobFields
<1> HIDE DEF d, e, j, k
<1>7. /\ d.pages = [x \in Tables |-> d.pages[x]] /\ e.pages = [x \in Tables |-> e.pages[x]]
      /\ e.pages[m] = doc /\ \A x \in Tables \ {m} : e.pages[x] = d.pages[x]
  BY <1>2, <1>3, <1>5 DEF Directory, HasPages
<1>8. Directory(e)
  <2>1. HasPages(e)
    BY <1>2, <1>4, <1>7 DEF HasPages, Directory
  <2>2. ASSUME Whole(e), NEW x \in Tables, HasRow(e, x)
        PROVE  Recorded(e, x)
    <3>1. Recorded(d, x)
      BY <1>2, <1>5, <2>2 DEF Directory, Whole, HasRow
    <3>2. e.pages[x] = d.pages[x]
      BY <1>4, <1>7, <3>1 DEF Recorded
    <3> QED  BY <1>5, <3>1, <3>2 DEF Recorded
  <2> QED  BY <1>5, <2>1, <2>2 DEF Directory
<1>9. Going(k, e, Mats(i))
  <2>1. \A x \in Tables : d.pages[x].built => e.pages[x].built
    BY <1>4, <1>7
  <2>2. \A x \in k.seen : x \in Tables /\ e.pages[x].built
    BY <1>2, <1>3, <1>6, <1>7, <2>1 DEF Going
  <2>3. ASSUME NEW x \in Mats(i) PROVE x \in Named(k.todo) \cup k.seen \/ ~ e.pages[x].built
    <3>1. x \in Named(j.todo) \cup j.seen \/ ~ d.pages[x].built
      BY <1>2, <2>3 DEF Going
    <3>2. x \in Tables
      BY <2>3 DEF Mats, Share, PInv, State
    <3>3. CASE x = m
      BY <1>6, <1>7, <3>3
    <3>4. CASE x # m
      BY <1>3, <1>6, <1>7, <3>1, <3>2, <3>4
    <3> QED  BY <3>3, <3>4
  <2> QED  BY <1>3, <1>6, <2>2, <2>3 DEF Going
<1>10. Progress(k, e, Mats(i)) /\ k.at # "skipped"
  BY <1>1, <1>6, <1>9 DEF Progress
<1> QED  BY <1>1, <1>2, <1>8, <1>10, JobStep

\* A page that fails leaves the directory as it is.
LEMMA FailPageStep == ASSUME PInv, NEW i \in JobIds, FailPage(i) PROVE PInv'
<1> DEFINE j == job[i]
           d == dirs[i]
           m == Head(j.todo)
           k == [j EXCEPT !.todo = Tail(j.todo), !.failed = TRUE]
<1>1. /\ at = "jobs" /\ j.at = "build" /\ j.todo # <<>> /\ UNCHANGED JobElse
      /\ dirs' = [dirs EXCEPT ![i] = d] /\ job' = [job EXCEPT ![i] = k] /\ ~ d.pages[m].built
  BY DEF FailPage, Building, PInv, Directories, Processes
<1>2. /\ i \notin saved.done /\ Directory(d) /\ Going(j, d, Mats(i))
      /\ j = [f \in JobFields |-> j[f]]
  BY <1>1, AtWork
<1>3. m \in Tables /\ Tail(j.todo) \in Seq(Tables) /\ Named(j.todo) = {m} \cup Named(Tail(j.todo))
  BY <1>1, <1>2, Queue DEF Going
<1> HIDE DEF m
<1>4. /\ k = [f \in JobFields |-> k[f]] /\ k.at = j.at /\ k.todo = Tail(j.todo) /\ k.seen = j.seen
  BY <1>2 DEF JobFields
<1> HIDE DEF d, j, k
<1>5. Going(k, d, Mats(i))
  BY <1>1, <1>2, <1>3, <1>4 DEF Going
<1>6. Progress(k, d, Mats(i)) /\ k.at # "skipped"
  BY <1>1, <1>4, <1>5 DEF Progress
<1> QED  BY <1>1, <1>2, <1>6, JobStep

\* themes.json is written, or an aggregate cannot be read (build_problems.py:434).
LEMMA WriteThemesStep == ASSUME PInv, NEW i \in JobIds, WriteThemes(i) PROVE PInv'
<1> DEFINE j == job[i]
           d == dirs[i]
           unreadable == d.index.torn \/ d.themes.torn
           new == UNION {EntriesOf(m, d.pages[m]) : m \in j.seen}
           e == IF unreadable THEN d
                ELSE [d EXCEPT !.themes = File(MergeThemes(d.themes.rows, new, j.seen))]
           k == [j EXCEPT !.at = IF unreadable THEN "bad" ELSE "index"]
<1>1. /\ at = "jobs" /\ j.at = "build" /\ j.todo = <<>> /\ UNCHANGED JobElse
      /\ dirs' = [dirs EXCEPT ![i] = e] /\ job' = [job EXCEPT ![i] = k]
  BY DEF WriteThemes, ThemeEntries, Building, PInv, Directories, Processes
<1>2. /\ i \notin saved.done /\ Directory(d) /\ Going(j, d, Mats(i))
      /\ j = [f \in JobFields |-> j[f]]
  BY <1>1, AtWork
<1>3. CASE unreadable
  <2>1. e = d /\ k = [f \in JobFields |-> k[f]] /\ k.at = "bad" /\ ~ Whole(d)
    BY <1>2, <1>3 DEF JobFields, Whole
  <2> HIDE DEF d, e, j, k
  <2>2. Progress(k, e, Mats(i)) /\ Directory(e)
    BY <1>2, <2>1 DEF Progress, Ended
  <2> QED  BY <1>1, <1>2, <2>1, <2>2, JobStep
<1>4. CASE ~ unreadable
  <2>1. /\ e = [f \in DirFields |-> e[f]] /\ e.index = d.index /\ e.pages = d.pages
        /\ e.themes.rows = MergeThemes(d.themes.rows, new, j.seen) /\ Whole(e) /\ Whole(d)
    BY <1>2, <1>4 DEF Directory, DirFields, File, Whole
  <2>2. /\ k = [f \in JobFields |-> k[f]] /\ k.at = "index" /\ k.todo = j.todo /\ k.seen = j.seen
    BY <1>2, <1>4 DEF JobFields
  <2> HIDE DEF d, e, j, k
  <2>3. ASSUME NEW m
        PROVE  RowsAt(e.themes.rows, m)
                 = IF m \in j.seen THEN EntriesOf(m, d.pages[m]) ELSE RowsAt(d.themes.rows, m)
    <3>1. RowsAt(new, m) = IF m \in j.seen THEN EntriesOf(m, d.pages[m]) ELSE {}
      BY RowsAre DEF RowsAt
    <3> HIDE DEF new
    <3>2. RowsAt(e.themes.rows, m)
            = (IF m \in j.seen THEN {} ELSE RowsAt(d.themes.rows, m)) \cup RowsAt(new, m)
      BY <2>1, MergedRows
    <3> QED  BY <3>1, <3>2
  <2>4. Directory(e)
    <3>1. ASSUME NEW m \in Tables, HasRow(e, m) PROVE Recorded(e, m)
      <4>1. Recorded(d, m)
        BY <1>2, <2>1, <3>1 DEF Directory, HasRow
      <4> QED  BY <2>1, <2>3, <4>1 DEF Recorded
    <3> QED  BY <1>2, <2>1, <3>1 DEF Directory, HasPages
  <2>5. Going(k, e, Mats(i))
    BY <1>2, <2>1, <2>2 DEF Going
  <2>6. Themed(k, e)
    BY <1>1, <2>1, <2>2, <2>3 DEF Themed
  <2>7. Progress(k, e, Mats(i))
    BY <2>2, <2>5, <2>6 DEF Progress
  <2> QED  BY <1>1, <1>2, <2>2, <2>4, <2>7, JobStep
<1> QED  BY <1>3, <1>4

\* index.json is written: every page of the share is listed (build_problems.py:442).
LEMMA WriteIndexStep == ASSUME PInv, NEW i \in JobIds, WriteIndex(i) PROVE PInv'
<1> DEFINE j == job[i]
           d == dirs[i]
           new == UNION {RowsOf(m, d.pages[m]) : m \in j.seen}
           e == [d EXCEPT !.index = File(MergeIndex(d.index.rows, new, j.seen)), !.cut = FALSE]
           k == [j EXCEPT !.at = IF j.failed THEN "bad" ELSE "ok"]
<1>1. /\ at = "jobs" /\ j.at = "index" /\ UNCHANGED JobElse
      /\ dirs' = [dirs EXCEPT ![i] = e] /\ job' = [job EXCEPT ![i] = k]
  BY DEF WriteIndex, Rows, PInv, Directories, Processes
<1>2. /\ i \notin saved.done /\ Directory(d) /\ Going(j, d, Mats(i)) /\ Themed(j, d)
      /\ j = [f \in JobFields |-> j[f]]
  BY <1>1, AtWork
<1>3. /\ e = [f \in DirFields |-> e[f]] /\ e.themes = d.themes /\ e.pages = d.pages
      /\ e.index.rows = MergeIndex(d.index.rows, new, j.seen) /\ Whole(e) /\ Whole(d)
  BY <1>2 DEF Directory, DirFields, File, Whole, Themed
<1>4. k = [f \in JobFields |-> k[f]] /\ k.at \in {"ok", "bad"}
  BY <1>2 DEF JobFields
<1> HIDE DEF d, e, j, k
<1>5. ASSUME NEW m
      PROVE  RowsAt(e.index.rows, m)
               = IF m \in j.seen THEN RowsOf(m, d.pages[m]) ELSE RowsAt(d.index.rows, m)
  <2>1. RowsAt(new, m) = IF m \in j.seen THEN RowsOf(m, d.pages[m]) ELSE {}
    BY RowsAre DEF RowsAt
  <2> HIDE DEF new
  <2>2. RowsAt(e.index.rows, m)
          = (IF m \in j.seen THEN {} ELSE RowsAt(d.index.rows, m)) \cup RowsAt(new, m)
    BY <1>3, MergedRows
  <2> QED  BY <2>1, <2>2
<1>6. Directory(e)
  <2>1. ASSUME NEW m \in Tables, HasRow(e, m) PROVE Recorded(e, m)
    <3>1. CASE m \in j.seen
      BY <1>2, <1>3, <1>5, <3>1 DEF Recorded, Going, Themed
    <3>2. CASE m \notin j.seen
      <4>1. Recorded(d, m)
        BY <1>2, <1>3, <1>5, <2>1, <3>2 DEF Directory, HasRow
      <4> QED  BY <1>3, <1>5, <3>2, <4>1 DEF Recorded
    <3> QED  BY <3>1, <3>2
  <2> QED  BY <1>2, <1>3, <2>1 DEF Directory, HasPages
<1>7. Lists(e, Mats(i))
  <2>1. ASSUME NEW m \in Mats(i), e.pages[m].built PROVE HasRow(e, m)
    <3>1. m \in j.seen
      <4>1. Named(j.todo) = {}
        BY <1>2 DEF Themed, Named
      <4> QED  BY <1>2, <1>3, <2>1, <4>1 DEF Going
    <3> QED  BY <1>5, <3>1, RowsAre DEF HasRow
  <2> QED  BY <2>1 DEF Lists
<1>8. Progress(k, e, Mats(i)) /\ k.at # "skipped"
  BY <1>3, <1>4, <1>7 DEF Progress, Ended
<1> QED  BY <1>1, <1>2, <1>6, <1>8, JobStep

(* What a process that dies leaves is a directory, torn or as it was. *)
LEMMA StoppedIs ==
  ASSUME PInv, NEW i \in JobIds, NEW d \in Stopped(i)
  PROVE  /\ Directory(d) /\ Directory([d EXCEPT !.cut = TRUE])
         /\ d.pages = dirs[i].pages
         /\ d = dirs[i] \/ (~ Whole(d) /\ job[i].at \in {"build", "index"})
<1> DEFINE e == [d EXCEPT !.cut = TRUE]
<1>1. Directory(dirs[i])
  BY DEF PInv, Directories
<1>2. d \in {dirs[i], [dirs[i] EXCEPT !.themes = Torn], [dirs[i] EXCEPT !.index = Torn]}
      /\ (d = dirs[i] \/ job[i].at \in {"build", "index"})
  BY DEF Stopped
<1>3. /\ d = [f \in DirFields |-> d[f]] /\ d.pages = dirs[i].pages
      /\ d = dirs[i] \/ d.index.torn \/ d.themes.torn
  BY <1>1, <1>2 DEF Directory, DirFields, Torn
<1>4. Directory(d)
  BY <1>1, <1>3 DEF Directory, Whole, HasPages
<1>5. /\ e = [f \in DirFields |-> e[f]] /\ e.pages = d.pages /\ e.index = d.index
      /\ e.themes = d.themes
  BY <1>3 DEF DirFields
<1>6. Directory(e)
  BY <1>4, <1>5 DEF Directory, Whole, HasPages, HasRow, Recorded
<1> QED  BY <1>2, <1>3, <1>4, <1>6 DEF Whole

\* A job that is killed alone (pages.py:133).
LEMMA KillJobStep == ASSUME PInv, NEW i \in JobIds, KillJob(i) PROVE PInv'
<1> DEFINE j == job[i]
           k == [j EXCEPT !.at = "bad"]
<1>1. PICK d \in Stopped(i) : dirs' = [dirs EXCEPT ![i] = [d EXCEPT !.cut = TRUE]]
  BY DEF KillJob
<1> DEFINE e == [d EXCEPT !.cut = TRUE]
<1>2. /\ at = "jobs" /\ j.at \in {"build", "index"} /\ UNCHANGED JobElse
      /\ dirs' = [dirs EXCEPT ![i] = e] /\ job' = [job EXCEPT ![i] = k]
  BY <1>1 DEF KillJob, PInv, Directories, Processes
<1>3. i \notin saved.done /\ j = [f \in JobFields |-> j[f]]
  BY <1>2, AtWork
<1>4. Directory(d) /\ Directory(e)
  BY StoppedIs
<1>5. e.cut
  BY <1>4 DEF Directory, DirFields
<1>6. k = [f \in JobFields |-> k[f]] /\ k.at = "bad"
  BY <1>3 DEF JobFields
<1> HIDE DEF e, j, k
<1>7. Progress(k, e, Mats(i)) /\ k.at # "skipped"
  BY <1>5, <1>6 DEF Progress, Ended
<1> QED  BY <1>2, <1>3, <1>4, <1>7, JobStep

-----------------------------------------------------------------------------
\* A run, from the materials it is asked for to its commit.

(* A job of a run is one of the world's. *)
LEMMA JobIs == ASSUME PInv, NEW i \in JobsOf(ask) PROVE i \in JobIds
BY DEF PInv, State, JobsOf, JobIds

\* A run starts where the state file says that an earlier one of these materials stopped.
LEMMA StartStep == ASSUME PInv, Start PROVE PInv'
<1> DEFINE state == StateFor(Asked)
<1>1. /\ UNCHANGED <<world, main, own, head, branch, wt, pr, dirs, turn>> /\ ask' = Asked
      /\ at = "idle" /\ at' = (IF state.pr THEN "back" ELSE "jobs")
      /\ saved' = (IF state.original # "none" THEN state ELSE [state EXCEPT !.original = branch])
      /\ job' = IF state.pr THEN job ELSE Launch(Asked, state.done)
  BY DEF Start, docs, git
<1>2. Asked \subseteq Tables /\ world \in Worlds
  BY PagesAssumption DEF PInv, State, Asked
<1>3. /\ state = [f \in SavedFields |-> state[f]] /\ state.materials = Asked
      /\ state.done = {} \/ (state.done = saved.done /\ saved.materials = Asked)
  BY DEF PInv, State, StateFor, NoState, SavedFields
<1> HIDE DEF state
<1>4. /\ saved' = [f \in SavedFields |-> saved'[f]] /\ saved'.materials = Asked
      /\ saved'.done = state.done
  BY <1>1, <1>3 DEF SavedFields
<1>5. \A i : Mats(i)' = Share(Asked, i) /\ Share(saved.materials, i)' = Share(Asked, i)
  BY <1>1, <1>4 DEF Mats, Share
<1>6. Commits' /\ Working' /\ Directories'
  BY <1>1 DEF PInv, Commits, Branch, Working, Directories
<1>7. State'
  <2>1. ASSUME NEW i \in state.done
        PROVE  i \in JobIds /\ Whole(dirs[i]) /\ Lists(dirs[i], Share(Asked, i))
    BY <1>3 DEF PInv, State
  <2> QED  BY <1>1, <1>2, <1>4, <1>5, <2>1 DEF State
<1>8. Processes'
  <2>1. CASE state.pr
    BY <1>1, <2>1 DEF PInv, Processes
  <2>2. CASE ~ state.pr
    <3>1. job' = Launch(Asked, state.done) /\ at' = "jobs"
      BY <1>1, <2>2
    <3>2. ASSUME NEW i \in JobIds PROVE Process(i)'
      <4> DEFINE share == Share(Asked, i)
                 j == IF i \notin JobsOf(Asked) THEN NoJob
                      ELSE IF i \in state.done THEN [NoJob EXCEPT !.at = "skipped"]
                      ELSE [NoJob EXCEPT !.at = "build", !.todo = Split(Asked, i)]
      <4>1. job'[i] = j
        BY <3>1 DEF Launch
      <4>2. /\ j = [f \in JobFields |-> j[f]] /\ j.seen = {} /\ j.at \in {"none", "skipped", "build"}
            /\ j.at = "skipped" => i \in state.done
            /\ i \in state.done => j.at \in {"none", "skipped"}
            /\ j.at = "build" => j.todo = Split(Asked, i)
        BY DEF NoJob, JobFields
      <4> HIDE DEF j, share
      <4>3. Progress(j, dirs[i], share)
        <5>1. ASSUME j.at = "build" PROVE Going(j, dirs[i], share)
          <6>1. j.todo \in Seq(Tables) /\ share \subseteq Named(j.todo)
            BY <1>2, <4>2, <5>1, SplitIs DEF share
          <6> QED  BY <4>2, <6>1 DEF Going
        <5> QED  BY <4>2, <5>1 DEF Progress
      <4> QED  BY <1>1, <1>4, <1>5, <4>1, <4>2, <4>3 DEF Process, share
    <3>3. job' = [i \in JobIds |-> job'[i]]
      BY <3>1 DEF Launch
    <3> QED  BY <3>1, <3>2, <3>3 DEF Processes
  <2> QED  BY <2>1, <2>2
<1> QED  BY <1>6, <1>7, <1>8 DEF PInv

\* Every process has ended; of those that are done every page is listed (pages.py:136).
LEMMA CollectStep == ASSUME PInv, Collect PROVE PInv'
<1> DEFINE more == {i \in JobsOf(ask) : job[i].at = "ok" /\ Lost(i) = {}}
<1>1. /\ UNCHANGED <<world, main, own, head, branch, wt, pr, dirs, ask>> /\ at = "jobs"
      /\ \A i \in JobsOf(ask) : job[i].at \in {"skipped", "ok", "bad"}
      /\ saved' = [saved EXCEPT !.done = saved.done \cup more, !.started = TRUE]
      /\ at' = (IF saved.committed THEN "decide" ELSE "reset")
      /\ job' = [i \in JobIds |-> NoJob]
  BY DEF Collect, docs, git
<1> HIDE DEF more
<1>2. /\ saved' = [f \in SavedFields |-> saved'[f]] /\ saved'.materials = saved.materials
      /\ saved'.done = saved.done \cup more /\ saved'.committed = saved.committed
  BY <1>1 DEF PInv, State, SavedFields
<1>3. \A i : /\ Mats(i)' = Mats(i) /\ Share(saved.materials, i)' = Mats(i)
             /\ Share(saved.materials, i) = Mats(i) /\ (i \in JobsOf(ask)' <=> i \in JobsOf(ask))
  BY <1>1, <1>2 DEF PInv, State, Mats, Share, JobsOf
<1>4. Commits' /\ Working' /\ Directories'
  BY <1>1, <1>2 DEF PInv, Commits, Branch, Working, Directories
<1>5. Processes'
  BY <1>1 DEF Processes, NoJob
<1>6. \A i \in JobsOf(ask) : i \in JobIds /\ Process(i)
  BY <1>1, JobIs DEF PInv, Processes
<1>7. \A i \in saved.done : i \in JobIds /\ Whole(dirs[i]) /\ Lists(dirs[i], Mats(i))
  BY <1>3 DEF PInv, State
<1>8. State'
  <2>1. ASSUME NEW i \in more
        PROVE  i \in JobIds /\ Whole(dirs[i]) /\ Lists(dirs[i], Mats(i))
    BY <1>6 DEF more, Process, Progress
  <2>2. ASSUME NEW i \in JobsOf(ask)
        PROVE  Ended(dirs[i], Mats(i))
    <3>1. CASE job[i].at = "skipped"
      BY <1>6, <1>7, <3>1 DEF Process, Ended
    <3>2. CASE job[i].at # "skipped"
      BY <1>1, <1>6, <3>2 DEF Process, Progress
    <3> QED  BY <3>1, <3>2
  <2> QED  BY <1>1, <1>2, <1>3, <1>7, <2>1, <2>2 DEF PInv, State
<1> QED  BY <1>4, <1>5, <1>8 DEF PInv

\* The branch is main's again (pages.py:151).
LEMMA ResetStep == ASSUME PInv, Reset PROVE PInv'
<1>1. /\ UNCHANGED <<world, main, own, pr, saved, turn, ask, procs>> /\ at = "reset" /\ at' = "fold"
      /\ head' = [base |-> main, tree |-> main] /\ wt' = main
  BY DEF Reset
<1>2. /\ Sound(main) /\ Sound(own) /\ Branch(pr) /\ pr = [f \in {"state", "base", "tree"} |-> pr[f]]
  BY DEF PInv, Commits
<1>3. Commits'
  BY <1>1, <1>2 DEF Commits, Branch, Grows
<1>4. Working'
  BY <1>1, <1>2 DEF Working, Sound, Grows
<1>5. saved = [f \in SavedFields |-> saved[f]]
  BY DEF PInv, State
<1> QED  BY <1>1, <1>3, <1>4, <1>5, RunStep

\* A job's pages are folded in with its rows of them (pages.py:44).
LEMMA FoldStep == ASSUME PInv, Fold PROVE PInv'
<1> DEFINE d == dirs[turn]
           have == Mats(turn) \ Lost(turn)
           listed == {r.material : r \in d.index.rows}
           missed == IF d.cut THEN have \ listed ELSE {}
           pages == [m \in Tables |-> IF m \in have THEN d.pages[m] ELSE wt.pages[m]]
           maimed == (wt.maimed \ have) \cup missed
           w == [Folded(turn, have) EXCEPT !.maimed = (Folded(turn, have).maimed \ have) \cup missed]
<1>1. /\ UNCHANGED <<world, main, own, head, branch, pr, saved, ask, procs>>
      /\ at = "fold" /\ turn \in JobsOf(ask) /\ wt' = w
      /\ at' \in {"idle", "fold", "decide"}
      /\ (have # {} /\ (d.index.torn \/ d.themes.torn)) => at' = "idle"
  BY DEF Fold
<1>2. turn \in JobIds /\ Directory(d) /\ Ended(d, Mats(turn)) /\ Mats(turn) \subseteq Tables
  BY <1>1, JobIs DEF PInv, Directories, State, Mats, Share
<1>3. Commits' /\ saved = [f \in SavedFields |-> saved[f]]
  BY <1>1 DEF PInv, Commits, Branch, State
<1>4. Working'
  <2> SUFFICES ASSUME ~ saved.committed, at' \in {"fold", "decide"}
               PROVE  Files(w) /\ Grows(head.base, w)
    BY <1>1 DEF Working
  <2>1. Files(wt) /\ Grows(head.base, wt)
    BY <1>1 DEF PInv, Working
  <2>2. have = {} \/ Whole(d)
    BY <1>1 DEF Whole
  <2>3. \A m \in have : m \in Mats(turn) /\ m \in Tables /\ d.pages[m].built
    BY <1>2 DEF Lost
  <2> DEFINE Own(rows) == {r \in rows : r.material \in have}
             f == Folded(turn, have)
  <2>4. /\ f = [x \in TreeFields |-> f[x]] /\ f.pages = pages /\ f.site = wt.site
        /\ f.maimed = wt.maimed
        /\ Whole(d) => /\ f.index = MergeIndex(wt.index, Own(d.index.rows), have)
                       /\ f.themes = MergeThemes(wt.themes, Own(d.themes.rows), have)
        /\ ~ Whole(d) => f.index = wt.index /\ f.themes = wt.themes
    BY <2>1 DEF Files, TreeFields, Folded, Whole
  <2> HIDE DEF f
  <2>5. /\ w = [x \in TreeFields |-> w[x]] /\ w.pages = pages /\ w.index = f.index
        /\ w.themes = f.themes /\ w.maimed = maimed
    BY <2>4 DEF TreeFields, f
  <2>6. pages = [m \in Tables |-> pages[m]]
        /\ \A m \in Tables : pages[m] = IF m \in have THEN d.pages[m] ELSE wt.pages[m]
    OBVIOUS
  <2>7. \A m \in have : m \notin missed => HasRow(d, m) \/ ~ Whole(d)
    <3>1. ASSUME NEW m \in listed PROVE HasRow(d, m)
      BY <3>1 DEF HasRow, RowsAt
    <3> QED  BY <1>2, <2>3, <3>1 DEF Ended, Lists
  <2>8. missed \subseteq have
    OBVIOUS
  <2> HIDE DEF d, have, missed, pages, w
  <2>9. HasPages(w)
    BY <1>2, <2>1, <2>5, <2>6 DEF HasPages, Files, Directory
  <2>10. \A m \in w.maimed : m \in Tables /\ w.pages[m].built
    BY <2>1, <2>3, <2>5, <2>6, <2>8 DEF Files
  <2>11. ASSUME NEW m \in Tables \ w.maimed PROVE Shows(w, m)
    <3>1. CASE Whole(d)
      <4>1. /\ RowsAt(w.index, m)
                 = (IF m \in have THEN {} ELSE RowsAt(wt.index, m)) \cup RowsAt(Own(d.index.rows), m)
            /\ RowsAt(w.themes, m)
                 = (IF m \in have THEN {} ELSE RowsAt(wt.themes, m)) \cup RowsAt(Own(d.themes.rows), m)
        <5> HIDE DEF Own
        <5> QED  BY <2>4, <2>5, <3>1, MergedRows
      <4>2. \A rows : RowsAt(Own(rows), m) = IF m \in have THEN RowsAt(rows, m) ELSE {}
        BY DEF RowsAt
      <4> HIDE DEF Own
      <4>3. CASE m \in have
        <5>1. HasRow(d, m)
          BY <2>5, <2>7, <2>11, <3>1, <4>3
        <5>2. Recorded(d, m)
          BY <1>2, <3>1, <5>1 DEF Directory
        <5>3. w.pages[m] = d.pages[m] /\ d.pages[m].built
          BY <2>3, <2>5, <2>6, <4>3
        <5>4. RowsAt(w.index, m) = RowsAt(d.index.rows, m) /\ RowsAt(w.themes, m) = RowsAt(d.themes.rows, m)
          BY <4>1, <4>2, <4>3
        <5> QED  BY <5>2, <5>3, <5>4 DEF Recorded, Shows
      <4>4. CASE m \notin have
        <5>1. w.pages[m] = wt.pages[m] /\ m \notin wt.maimed
          BY <2>5, <2>6, <2>11, <4>4
        <5>2. RowsAt(w.index, m) = RowsAt(wt.index, m) /\ RowsAt(w.themes, m) = RowsAt(wt.themes, m)
          BY <4>1, <4>2, <4>4
        <5> QED  BY <2>1, <5>1, <5>2 DEF Files, Shows
      <4> QED  BY <4>3, <4>4
    <3>2. CASE ~ Whole(d)
      <4>1. m \notin have
        BY <2>2, <3>2
      <4>2. w.pages[m] = wt.pages[m] /\ m \notin wt.maimed
        BY <2>5, <2>6, <2>11, <4>1
      <4> QED  BY <2>1, <2>4, <2>5, <3>2, <4>2 DEF Files, Shows
    <3> QED  BY <3>1, <3>2
  <2>12. Grows(head.base, w)
    BY <2>1, <2>3, <2>5, <2>6 DEF Grows
  <2> QED  BY <2>5, <2>9, <2>10, <2>11, <2>12 DEF Files
<1> QED  BY <1>1, <1>3, <1>4, RunStep

\* Neither giving up nor a step back to the maintainer's own branch changes a commit.
LEMMA SwitchStep == ASSUME PInv, GiveUp \/ Back PROVE PInv'
<1>1. /\ UNCHANGED <<world, main, own, head, pr, saved, ask, procs>> /\ at \in {"decide", "back"}
      /\ at' \in {"idle", "merge"}
  BY DEF GiveUp, Back, Keep
<1>2. Commits' /\ Working' /\ saved = [f \in SavedFields |-> saved[f]]
  BY <1>1 DEF PInv, Commits, Branch, Working, State
<1> QED  BY <1>1, <1>2, RunStep

\* What is committed has the page column of its pages (pages.py:168).
LEMMA CommitStep == ASSUME PInv, Commit PROVE PInv'
<1>1. /\ UNCHANGED <<world, main, own, pr, saved, ask, procs>> /\ at = "decide"
      /\ at' \notin {"jobs", "reset", "fold", "decide"}
  BY DEF Commit, Keep, git
<1>2. Working' /\ saved = [f \in SavedFields |-> saved[f]]
  BY <1>1 DEF PInv, Working, State
<1>3. Commits'
  <2>1. CASE saved.committed /\ UNCHANGED head
    BY <1>1, <2>1 DEF PInv, Commits, Branch
  <2>2. CASE ~ saved.committed /\ head' = [head EXCEPT !.tree = wt']
             /\ wt' = [wt EXCEPT !.site = {m \in Tables : wt.pages[m].built}]
    <3> DEFINE t == [wt EXCEPT !.site = {m \in Tables : wt.pages[m].built}]
    <3>1. Files(wt) /\ Grows(head.base, wt)
      BY <1>1, <2>2 DEF PInv, Working
    <3>2. /\ t = [f \in TreeFields |-> t[f]] /\ t.pages = wt.pages /\ t.index = wt.index
          /\ t.themes = wt.themes /\ t.maimed = wt.maimed
          /\ t.site = {m \in Tables : wt.pages[m].built}
      BY <3>1 DEF Files, TreeFields
    <3>3. head' = [head EXCEPT !.tree = t]
      BY <2>2
    <3> HIDE DEF t
    <3>4. Sound(t) /\ Grows(head.base, t)
      BY <3>1, <3>2 DEF Sound, Files, Shows, HasPages, Grows
    <3>5. head'.base = head.base /\ head'.tree = t /\ head' = [f \in {"base", "tree"} |-> head'[f]]
      BY <3>3 DEF PInv, Commits
    <3> QED  BY <1>1, <3>4, <3>5 DEF PInv, Commits, Branch
  <2>3. (saved.committed /\ UNCHANGED head)
        \/ (/\ ~ saved.committed /\ head' = [head EXCEPT !.tree = wt']
            /\ wt' = [wt EXCEPT !.site = {m \in Tables : wt.pages[m].built}])
    BY DEF Commit, git
  <2> QED  BY <2>1, <2>2, <2>3
<1> QED  BY <1>1, <1>2, <1>3, RunStep

\* The state file is told what was done.
LEMMA NotedStep == ASSUME PInv, Committed \/ Pushed \/ Opened PROVE PInv'
<1>1. /\ UNCHANGED <<world, main, own, head, branch, wt, pr, ask, procs>>
      /\ at \in {"committed", "pushed", "opened"} /\ at' \in {"push", "open", "back"}
      /\ saved' \in {[saved EXCEPT !.committed = TRUE], [saved EXCEPT !.pushed = TRUE],
                     [saved EXCEPT !.pr = TRUE]}
  BY DEF Committed, Pushed, Opened, Keep, git
<1>2. saved = [f \in SavedFields |-> saved[f]]
  BY DEF PInv, State
<1>3. /\ saved' = [f \in SavedFields |-> saved'[f]] /\ saved'.materials = saved.materials
      /\ saved'.done = saved.done
  BY <1>1, <1>2 DEF SavedFields
<1>4. Commits' /\ Working'
  BY <1>1 DEF PInv, Commits, Branch, Working
<1> QED  BY <1>1, <1>3, <1>4, RunStep

\* What is pushed is the branch as committed, and the PR is of it.
LEMMA PushStep == ASSUME PInv, Push \/ Open PROVE PInv'
<1>1. /\ UNCHANGED <<world, main, own, head, branch, wt, saved, ask, procs>>
      /\ at \in {"push", "open"} /\ at' \in {"pushed", "opened"}
      /\ pr' \in {[pr EXCEPT !.base = head.base, !.tree = head.tree], [pr EXCEPT !.state = "open"]}
  BY DEF Push, Open, Keep
<1>2. pr = [f \in {"state", "base", "tree"} |-> pr[f]]
  BY DEF PInv, Commits
<1>3. /\ pr' = [f \in {"state", "base", "tree"} |-> pr'[f]]
      /\ (pr'.base = head.base /\ pr'.tree = head.tree) \/ (pr'.base = pr.base /\ pr'.tree = pr.tree)
  BY <1>1, <1>2
<1>4. Commits'
  BY <1>1, <1>3 DEF PInv, Commits, Branch
<1>5. Working' /\ saved = [f \in SavedFields |-> saved[f]]
  BY <1>1 DEF PInv, Working, State
<1> QED  BY <1>1, <1>4, <1>5, RunStep

-----------------------------------------------------------------------------
\* main, the PR's merge and what others do.

\* What git makes of a PR and of what was pushed since is sound, and no page of main goes.
LEMMA MergedIsSound ==
  ASSUME PInv
  PROVE  Sound(Merged) /\ Grows(main, Merged)
<1> DEFINE Of4(t, m) == <<t.pages[m], RowsAt(t.index, m), RowsAt(t.themes, m)>>
           changed == {m \in Tables : Of4(pr.tree, m) # Of4(pr.base, m)}
           Theirs(rows) == {r \in rows : r.material \in changed}
           pages == [m \in Tables |-> IF m \in changed THEN pr.tree.pages[m] ELSE main.pages[m]]
           t == Merged
<1>1. /\ Sound(main) /\ Sound(pr.base) /\ Sound(pr.tree)
      /\ Grows(pr.base, pr.tree) /\ Grows(pr.base, main)
  BY DEF PInv, Commits, Branch
<1>2. /\ t.pages = pages
      /\ t.index = MergeIndex(main.index, Theirs(pr.tree.index), changed)
      /\ t.themes = MergeThemes(main.themes, Theirs(pr.tree.themes), changed)
      /\ t.site = (main.site \ (pr.base.site \ pr.tree.site)) \cup (pr.tree.site \ pr.base.site)
      /\ t.maimed = (main.maimed \ changed) \cup (pr.tree.maimed \cap changed)
      /\ t = [f \in TreeFields |-> t[f]]
  BY DEF Merged, RowsAt, TreeFields
<1>3. \A m \in Tables : pages[m] = IF m \in changed THEN pr.tree.pages[m] ELSE main.pages[m]
  OBVIOUS
<1>4. \A m \in Tables \ changed :
        /\ pr.tree.pages[m] = pr.base.pages[m]
        /\ RowsAt(pr.tree.index, m) = RowsAt(pr.base.index, m)
        /\ RowsAt(pr.tree.themes, m) = RowsAt(pr.base.themes, m)
  OBVIOUS
<1>5. \A m \in changed :
        /\ m \in Tables
        /\ \/ pr.tree.pages[m] # pr.base.pages[m]
           \/ RowsAt(pr.tree.index, m) # RowsAt(pr.base.index, m)
           \/ RowsAt(pr.tree.themes, m) # RowsAt(pr.base.themes, m)
  OBVIOUS
<1>6. pages = [m \in Tables |-> pages[m]]
  OBVIOUS
<1>7. \A rows, m : RowsAt(Theirs(rows), m) = IF m \in changed THEN RowsAt(rows, m) ELSE {}
  <2> HIDE DEF changed
  <2> QED  BY DEF RowsAt
<1> HIDE DEF changed, pages, t, Theirs
<1>8. ASSUME NEW m \in changed PROVE pr.tree.pages[m].built
  <2> SUFFICES ASSUME ~ pr.tree.pages[m].built PROVE FALSE
    OBVIOUS
  <2>1. m \in Tables /\ ~ pr.base.pages[m].built
    BY <1>1, <1>5 DEF Grows
  <2>2. pr.tree.pages[m] = NoPage /\ pr.base.pages[m] = NoPage
    BY <1>1, <2>1 DEF Sound, Files, HasPages
  <2>3. Shows(pr.tree, m) /\ Shows(pr.base, m)
    BY <1>1, <2>1 DEF Sound, Files
  <2> QED  BY <1>5, <2>1, <2>2, <2>3 DEF Shows
<1>9. HasPages(t)
  <2>1. t.pages = [m \in Tables |-> t.pages[m]]
    BY <1>2, <1>6
  <2>2. /\ \A m \in Tables : main.pages[m].built \/ main.pages[m] = NoPage
        /\ \A m \in Tables : pr.tree.pages[m].built \/ pr.tree.pages[m] = NoPage
    BY <1>1 DEF Sound, Files, HasPages
  <2>3. \A m \in Tables : t.pages[m].built \/ t.pages[m] = NoPage
    BY <1>2, <1>3, <2>2
  <2> QED  BY <2>1, <2>3 DEF HasPages
<1>10. Grows(main, t)
  BY <1>2, <1>3, <1>8 DEF Grows
<1>11. \A m \in t.maimed : m \in Tables /\ t.pages[m].built
  BY <1>1, <1>2, <1>3, <1>5, <1>8 DEF Sound, Files
<1>12. ASSUME NEW m \in Tables \ t.maimed PROVE Shows(t, m)
  <2>1. /\ RowsAt(t.index, m)
             = (IF m \in changed THEN {} ELSE RowsAt(main.index, m)) \cup RowsAt(Theirs(pr.tree.index), m)
        /\ RowsAt(t.themes, m)
             = (IF m \in changed THEN {} ELSE RowsAt(main.themes, m))
                 \cup RowsAt(Theirs(pr.tree.themes), m)
    BY <1>2, MergedRows
  <2>2. CASE m \in changed
    <3>1. Shows(pr.tree, m) /\ t.pages[m] = pr.tree.pages[m]
      BY <1>1, <1>2, <1>3, <1>12, <2>2 DEF Sound, Files
    <3>2. RowsAt(t.index, m) = RowsAt(pr.tree.index, m) /\ RowsAt(t.themes, m) = RowsAt(pr.tree.themes, m)
      BY <1>7, <2>1, <2>2
    <3> QED  BY <3>1, <3>2 DEF Shows
  <2>3. CASE m \notin changed
    <3>1. Shows(main, m) /\ t.pages[m] = main.pages[m]
      BY <1>1, <1>2, <1>3, <1>12, <2>3 DEF Sound, Files
    <3>2. RowsAt(t.index, m) = RowsAt(main.index, m) /\ RowsAt(t.themes, m) = RowsAt(main.themes, m)
      BY <1>7, <2>1, <2>3
    <3> QED  BY <3>1, <3>2 DEF Shows
  <2> QED  BY <2>2, <2>3
<1>13. t.site = {m \in Tables : t.pages[m].built}
  <2>1. /\ main.site = {m \in Tables : main.pages[m].built}
        /\ pr.tree.site = {m \in Tables : pr.tree.pages[m].built}
        /\ pr.base.site = {m \in Tables : pr.base.pages[m].built}
    BY <1>1 DEF Sound
  <2>2. ASSUME NEW m \in Tables PROVE m \in t.site <=> t.pages[m].built
    <3>1. CASE m \in changed
      <4>1. t.pages[m].built
        BY <1>2, <1>3, <1>8, <3>1
      <4>2. m \in pr.tree.site
        BY <1>8, <2>1, <3>1
      <4>3. m \in pr.base.site => m \in main.site
        BY <1>1, <2>1 DEF Grows
      <4> QED  BY <1>2, <4>1, <4>2, <4>3
    <3>2. CASE m \notin changed
      <4>1. m \in pr.tree.site <=> m \in pr.base.site
        BY <1>4, <2>1, <3>2
      <4>2. m \in main.site <=> t.pages[m].built
        BY <1>2, <1>3, <2>1, <3>2
      <4> QED  BY <1>2, <4>1, <4>2
    <3> QED  BY <3>1, <3>2
  <2>3. t.site \subseteq Tables
    BY <1>2, <2>1
  <2> QED  BY <2>2, <2>3
<1> QED  BY <1>2, <1>9, <1>10, <1>11, <1>12, <1>13 DEF Sound, Files, t

(* The PR's merge keeps what is committed sound. *)
LEMMA LandsKeeps == ASSUME PInv, Lands, UNCHANGED <<own, head>> PROVE Commits'
<1>1. Sound(Merged) /\ Grows(main, Merged)
  BY MergedIsSound
<1>2. /\ main' = Merged /\ pr'.base = pr.base /\ pr'.tree = pr.tree
      /\ pr' = [f \in {"state", "base", "tree"} |-> pr'[f]]
  BY DEF Lands, PInv, Commits
<1>3. Sound(main') /\ Grows(main, main')
  BY <1>1, <1>2
<1>4. Grows(head.base, main') /\ Grows(pr.base, main')
  BY <1>3, GrowsOn DEF PInv, Commits, Branch
<1> QED  BY <1>2, <1>3, <1>4 DEF PInv, Commits, Branch

\* The PR is merged, now or before, or conflicts (accept.py:200).
LEMMA MergeStep == ASSUME PInv, Merge PROVE PInv'
<1>1. /\ UNCHANGED <<world, own, head, branch, wt, saved, ask, procs>> /\ at = "merge"
      /\ at' \in {"delete", "idle"} /\ (Lands \/ UNCHANGED <<main, pr>>)
  BY DEF Merge, Keep, git
<1>2. Commits'
  <2>1. CASE Lands
    BY <1>1, <2>1, LandsKeeps
  <2>2. CASE UNCHANGED <<main, pr>>
    BY <1>1, <2>2 DEF PInv, Commits, Branch
  <2> QED  BY <1>1, <2>1, <2>2
<1>3. Working' /\ saved = [f \in SavedFields |-> saved[f]]
  BY <1>1 DEF PInv, Working, State
<1> QED  BY <1>1, <1>2, <1>3, RunStep

\* The maintainer resolves a conflict by hand.
LEMMA ResolveStep == ASSUME PInv, Resolve PROVE PInv'
<1>1. UNCHANGED <<world, run, procs, own, head, branch, wt>> /\ Lands
  BY DEF Resolve, Hand, procs
<1>2. Commits'
  BY <1>1, LandsKeeps
<1>3. Working'
  BY <1>1 DEF run, PInv, Working
<1> QED  BY <1>1, <1>2, <1>3, GitStep

\* accept ships a page of its own with its row, its themes and its flag (accept.py:53).
LEMMA AcceptShipsStep == ASSUME PInv, AcceptShips PROVE PInv'
<1>1. /\ UNCHANGED <<world, run, procs, own, head, wt, pr>>
  BY DEF AcceptShips
<1>2. PICK k \in Tables :
        LET doc == PageOf[k][Seed(k)] IN
          /\ ~ main.pages[k].built /\ doc.built
          /\ main' = [pages |-> [main.pages EXCEPT ![k] = doc],
                      index |-> MergeIndex(main.index, RowsOf(k, doc), {k}),
                      themes |-> MergeThemes(main.themes, EntriesOf(k, doc), {k}),
                      site |-> main.site \cup {k},
                      maimed |-> main.maimed \ {k}]
  BY PagesAssumption DEF AcceptShips
<1> DEFINE doc == PageOf[k][Seed(k)]
           t == main'
<1>3. /\ Sound(main) /\ doc.built
      /\ t = [f \in TreeFields |-> t[f]] /\ t.pages = [main.pages EXCEPT ![k] = doc]
      /\ t.index = MergeIndex(main.index, RowsOf(k, doc), {k})
      /\ t.themes = MergeThemes(main.themes, EntriesOf(k, doc), {k})
      /\ t.site = main.site \cup {k} /\ t.maimed = main.maimed \ {k}
  BY <1>2 DEF TreeFields, PInv, Commits
<1> HIDE DEF doc, t
<1>4. /\ t.pages = [m \in Tables |-> t.pages[m]] /\ t.pages[k] = doc
      /\ \A m \in Tables \ {k} : t.pages[m] = main.pages[m]
  BY <1>3 DEF Sound, Files, HasPages
<1>5. HasPages(t)
  BY <1>3, <1>4 DEF Sound, Files, HasPages
<1>6. ASSUME NEW m \in Tables \ t.maimed PROVE Shows(t, m)
  <2>1. /\ RowsAt(t.index, m)
             = (IF m \in {k} THEN {} ELSE RowsAt(main.index, m)) \cup RowsAt(RowsOf(k, doc), m)
        /\ RowsAt(t.themes, m)
             = (IF m \in {k} THEN {} ELSE RowsAt(main.themes, m)) \cup RowsAt(EntriesOf(k, doc), m)
    BY <1>3, MergedRows
  <2>2. CASE m = k
    <3>1. t.pages[m] = doc /\ doc.built
      BY <1>3, <1>4, <2>2
    <3>2. RowsAt(RowsOf(k, doc), m) = RowsOf(m, doc) /\ RowsAt(EntriesOf(k, doc), m) = EntriesOf(m, doc)
      BY <2>2, RowsOfPage
    <3>3. RowsAt(t.index, m) = RowsOf(m, doc) /\ RowsAt(t.themes, m) = EntriesOf(m, doc)
      BY <2>1, <2>2, <3>2
    <3> QED  BY <3>1, <3>3 DEF Shows
  <2>3. CASE m # k
    <3>1. Shows(main, m) /\ t.pages[m] = main.pages[m]
      BY <1>3, <1>4, <1>6, <2>3 DEF Sound, Files
    <3>2. RowsAt(t.index, m) = RowsAt(main.index, m) /\ RowsAt(t.themes, m) = RowsAt(main.themes, m)
      BY <2>1, <2>3, RowsOfPage
    <3> QED  BY <3>1, <3>2 DEF Shows
  <2> QED  BY <2>2, <2>3
<1>7. \A m \in t.maimed : m \in Tables /\ t.pages[m].built
  BY <1>3, <1>4 DEF Sound, Files
<1>8. t.site = {m \in Tables : t.pages[m].built}
  BY <1>3, <1>4 DEF Sound
<1>9. Sound(t) /\ Grows(main, t)
  <2>1. Sound(t)
    BY <1>3, <1>5, <1>6, <1>7, <1>8 DEF Sound, Files
  <2>2. Grows(main, t)
    BY <1>3, <1>4 DEF Grows
  <2> QED  BY <2>1, <2>2
<1>10. Commits'
  <2>1. Grows(head.base, t) /\ Grows(pr.base, t)
    BY <1>9, GrowsOn DEF PInv, Commits, Branch
  <2> QED  BY <1>1, <1>9, <2>1 DEF PInv, Commits, Branch, t
<1>11. Working'
  BY <1>1 DEF run, PInv, Working
<1> QED  BY <1>1, <1>10, <1>11, GitStep

\* The maintainer's branch is main's when it is pulled, and a checkout put in order its own.
LEMMA HandStep == ASSUME PInv, Pull \/ Leave \/ TidyUp PROVE PInv'
<1>1. /\ UNCHANGED <<world, run, procs, main, head, pr>> /\ own' \in {own, main} /\ at' = "idle"
  BY DEF Pull, Leave, NothingMissing, TidyUp, GoHome, Hand, procs, run
<1>2. Commits' /\ Working'
  BY <1>1 DEF PInv, Commits, Branch, Working
<1> QED  BY <1>1, <1>2, GitStep

\* The branch and the state file are deleted (pages.py:181).
LEMMA DeleteStep == ASSUME PInv, Delete PROVE PInv'
<1>1. /\ UNCHANGED <<world, main, own, head, branch, wt, pr, ask, dirs, job>>
      /\ at = "delete" /\ at' = "idle" /\ (saved' = NoState \/ saved' = saved)
  BY DEF Delete, git, procs
<1>2. Commits' /\ Working' /\ Directories' /\ Processes'
  BY <1>1 DEF PInv, Commits, Branch, Working, Directories, Processes
<1>3. State'
  <2>1. \A i : Share(saved.materials, i)' = Share(saved'.materials, i)
    BY <1>1 DEF Share
  <2>2. NoState = [f \in SavedFields |-> NoState[f]] /\ NoState.done = {} /\ NoState.materials = {}
    BY DEF NoState, SavedFields
  <2> QED  BY <1>1, <2>1, <2>2 DEF PInv, State
<1> QED  BY <1>2, <1>3 DEF PInv

\* The run and every process die: a job that is done was not at work.
LEMMA CrashStep == ASSUME PInv, Crash PROVE PInv'
<1>1. /\ UNCHANGED <<world, main, own, head, branch, wt, pr, saved, ask>>
      /\ at' = "idle" /\ job' = [i \in JobIds |-> NoJob]
      /\ dirs' = [i \in JobIds |-> dirs'[i]] /\ \A i \in JobIds : dirs'[i] \in Stopped(i)
  BY DEF Crash, git
<1>2. Commits' /\ Working'
  BY <1>1 DEF PInv, Commits, Branch, Working
<1>3. Directories'
  BY <1>1, StoppedIs DEF Directories
<1>4. Processes'
  BY <1>1 DEF Processes, NoJob
<1>5. State'
  <2>1. ASSUME NEW i \in saved.done PROVE dirs'[i] = dirs[i]
    <3>1. i \in JobIds /\ job[i].at \in {"none", "skipped"}
      BY DEF PInv, State, Processes, Process
    <3> QED  BY <1>1, <3>1, StoppedIs
  <2>2. \A i : Share(saved.materials, i)' = Share(saved.materials, i)
    BY <1>1 DEF Share
  <2> QED  BY <1>1, <2>1, <2>2 DEF PInv, State
<1> QED  BY <1>2, <1>3, <1>4, <1>5 DEF PInv

\* A torn file is removed, and no job that is done has one.
LEMMA RemoveTornStep == ASSUME PInv, RemoveTorn PROVE PInv'
<1>1. UNCHANGED <<world, main, own, head, branch, wt, pr, saved, at, turn, ask, job>> /\ at = "idle"
  BY DEF RemoveTorn, Hand, git, run
<1>2. PICK i \in JobIds :
        /\ ~ Whole(dirs[i])
        /\ dirs' = [dirs EXCEPT ![i].index = File({}), ![i].themes = File({})]
  BY DEF RemoveTorn, Whole
<1> DEFINE e == [dirs[i] EXCEPT !.index = File({}), !.themes = File({})]
<1>3. /\ dirs' = [k \in JobIds |-> dirs'[k]] /\ dirs'[i] = e
      /\ \A k \in JobIds \ {i} : dirs'[k] = dirs[k]
  BY <1>2 DEF PInv, Directories
<1>4. Directory(e)
  <2>1. /\ e = [f \in DirFields |-> e[f]] /\ e.pages = dirs[i].pages /\ e.index.rows = {}
    BY DEF PInv, Directories, Directory, DirFields, File
  <2>2. HasPages(dirs[i])
    BY DEF PInv, Directories, Directory
  <2> HIDE DEF e
  <2>3. \A m : ~ HasRow(e, m)
    BY <2>1 DEF HasRow, RowsAt
  <2> QED  BY <2>1, <2>2, <2>3 DEF Directory, HasPages
<1>5. Commits' /\ Working' /\ Processes'
  BY <1>1 DEF PInv, Commits, Branch, Working, Processes
<1>6. Directories'
  BY <1>3, <1>4 DEF PInv, Directories
<1>7. State'
  <2>1. \A k \in saved.done : k # i /\ dirs'[k] = dirs[k]
    BY <1>2, <1>3 DEF PInv, State
  <2>2. \A k : Share(saved.materials, k)' = Share(saved.materials, k)
    BY <1>1 DEF Share
  <2> QED  BY <1>1, <2>1, <2>2 DEF PInv, State
<1> QED  BY <1>5, <1>6, <1>7 DEF PInv

-----------------------------------------------------------------------------
\* The theorems.

\* In every state: what main, the maintainer's branch, the data branch and the PR have lists what
\* it shows; a job's rows are of pages in its directory, and one that is done has them all.
THEOREM PagesInvariant == Spec => []PInv
<1>1. PInv /\ [Next]_vars => PInv'
  <2> SUFFICES ASSUME PInv, [Next]_vars PROVE PInv'
    OBVIOUS
  <2>1. CASE Regenerate \/ MorePublished \/ AnnotateDocs
    <3>1. UNCHANGED <<world, git, run, procs>>
      BY <2>1 DEF Regenerate, MorePublished, AnnotateDocs, Docs
    <3> QED  BY <3>1, DocsStep
  <2>2. CASE Program
    <3>1. CASE \E i \in JobIds : BuildPage(i) \/ WriteThemes(i) \/ WriteIndex(i)
      BY <3>1, BuildPageStep, WriteThemesStep, WriteIndexStep
    <3> QED  BY <2>2, <3>1, StartStep, CollectStep, ResetStep, FoldStep, SwitchStep, CommitStep,
                NotedStep, PushStep, MergeStep, DeleteStep DEF Program
  <2>3. CASE Maintainer
    BY <2>3, HandStep, RemoveTornStep, ResolveStep DEF Maintainer
  <2>4. CASE Crash \/ AcceptShips \/ \E i \in JobIds : FailPage(i) \/ KillJob(i)
    BY <2>4, CrashStep, AcceptShipsStep, FailPageStep, KillJobStep
  <2>5. CASE UNCHANGED vars
    <3>1. UNCHANGED <<world, git, run, procs>>
      BY <2>5 DEF vars
    <3> QED  BY <3>1, DocsStep
  <2> QED  BY <2>1, <2>2, <2>3, <2>4, <2>5 DEF Next
<1> QED  BY <1>1, InitPages, PTL DEF Spec

\* On main every page has its materials.json flag, and every page but those of main.maimed exactly
\* its own index row and theme entries, for all tables, worlds and numbers of faults.  The pages of
\* main.maimed are those of a job killed alone between page and index, which are shipped without
\* their rows (pages.py:135): of them the theorem says nothing more.
THEOREM MainIsListed == Spec => []Listed
<1>1. PInv => Listed
  <2> SUFFICES ASSUME PInv PROVE Listed
    OBVIOUS
  <2> DEFINE sound == Tables \ main.maimed
             shown == {m \in sound : main.pages[m].built}
  <2>1. /\ \A m \in sound : Shows(main, m)
        /\ main.site = {m \in Tables : main.pages[m].built}
    BY DEF PInv, Commits, Sound, Files
  <2> HIDE DEF sound
  <2>2. {r \in main.index : r.material \in sound} = UNION {RowsOf(m, main.pages[m]) : m \in shown}
    BY <2>1, RowsAre DEF Shows, RowsAt
  <2>3. {e \in main.themes : e.material \in sound} = UNION {EntriesOf(m, main.pages[m]) : m \in shown}
    BY <2>1, RowsAre DEF Shows, RowsAt
  <2> QED  BY <2>1, <2>2, <2>3 DEF Listed, sound
<1> QED  BY <1>1, PagesInvariant, PTL

-----------------------------------------------------------------------------
\* DEEPEST.json: the best position for every table.

(* Ranks are 0 to 4, the worst an illegal diagram's, and what the FEN alone tells is no more. *)
LEMMA RankIs ==
  ASSUME NEW c \in Ids
  PROVE  Rank(c) \in 0 .. 4 /\ Floor(c) \in 0 .. 4 /\ Floor(c) <= Rank(c)
<1>1. Cells[c].legal \in BOOLEAN /\ Cells[c].capture \in BOOLEAN /\ Cells[c].check \in BOOLEAN
  BY CellsAssumption
<1>2. CASE ~ Cells[c].legal
  BY <1>1, <1>2 DEF Rank, Floor
<1>3. CASE Cells[c].legal /\ Cells[c].capture
  BY <1>1, <1>3 DEF Rank, Floor
<1>4. CASE Cells[c].legal /\ ~ Cells[c].capture
  BY <1>1, <1>4 DEF Rank, Floor
<1> QED  BY <1>1, <1>2, <1>3, <1>4

(* A scan lists what matches, each position of it. *)
LEMMA MineIs ==
  ASSUME NEW m, NEW depth, NEW n, NEW strict
  PROVE  LET s == Mine(m, depth, n, strict)
             S == Matching(m, depth, n, strict)
         IN  /\ Len(s) \in Nat /\ DOMAIN s = 1 .. Len(s) /\ Len(s) = Cardinality(S)
             /\ \A i \in DOMAIN s : s[i] \in S
             /\ ToSet(s) = S /\ S \subseteq Ids /\ (S # {} => Len(s) # 0)
<1> DEFINE S == Matching(m, depth, n, strict)
           s == Mine(m, depth, n, strict)
           k == Cardinality(S)
<1>1. S \subseteq Ids /\ Ids = 1 .. Len(Cells) /\ Len(Cells) \in Nat
  BY CellsAssumption DEF Matching, Of
<1>2. IsFiniteSet(S) /\ S \in SUBSET Nat
  <2>1. IsFiniteSet(1 .. Len(Cells)) /\ 1 .. Len(Cells) \subseteq Nat
    BY <1>1, FS_Interval
  <2> HIDE DEF S
  <2>2. S \subseteq 1 .. Len(Cells)
    BY <1>1
  <2> QED  BY <2>1, <2>2, FS_Subset
<1>3. s = [i \in 1 .. k |-> CHOOSE c \in S : RankOf(S, c) = i]
  BY DEF Mine, Ranked, RankOf
<1> HIDE DEF S, s
<1>4. k \in Nat /\ (S # {} => k # 0)
  BY <1>2, FS_CardinalityType, FS_EmptySet
<1>5. s = [i \in 1 .. k |-> s[i]]
  BY <1>3
<1>6. Len(s) = k /\ DOMAIN s = 1 .. k
  BY <1>4, <1>5
<1>7. ASSUME NEW i \in 1 .. k
      PROVE  s[i] \in S /\ RankOf(S, s[i]) = i
  <2>1. \E c \in S : RankOf(S, c) = i
    BY <1>2, EveryRank
  <2>2. s[i] = CHOOSE c \in S : RankOf(S, c) = i
    BY <1>3
  <2> QED  BY <2>1, <2>2
<1>8. ASSUME NEW c \in S
      PROVE  \E i \in 1 .. k : s[i] = c
  <2>1. RankOf(S, c) \in 1 .. k
    BY <1>2, EveryRank
  <2> DEFINE i == RankOf(S, c)
  <2>2. s[i] \in S /\ RankOf(S, s[i]) = RankOf(S, c)
    BY <1>7, <2>1
  <2>3. s[i] \in Nat /\ c \in Nat
    BY <1>2, <2>2
  <2>4. ~ (s[i] < c) /\ ~ (c < s[i])
    <3>1. s[i] < c => RankOf(S, s[i]) < RankOf(S, c)
      BY <1>2, <2>2, GreaterRank
    <3>2. c < s[i] => RankOf(S, c) < RankOf(S, s[i])
      BY <1>2, <2>2, GreaterRank
    <3>3. RankOf(S, c) \in Int
      BY <1>4, <2>1
    <3> QED  BY <2>2, <3>1, <3>2, <3>3
  <2> QED  BY <2>1, <2>3, <2>4
<1>9. ToSet(s) = S
  BY <1>6, <1>7, <1>8 DEF ToSet
<1> QED  BY <1>1, <1>4, <1>6, <1>7, <1>9 DEF S, s

(* A set of numbers has a least one. *)
LEMMA LeastOf ==
  ASSUME NEW T \in SUBSET Nat, T # {}
  PROVE  \E m \in T : \A n \in T : ~ (n < m)
<1>1. WF!IsWellFoundedOn(WF!OpToRel(<, Nat), Nat)
  BY WF!NatLessThanWellFounded
<1>2. PICK m \in T : \A n \in T : ~ (<<n, m>> \in WF!OpToRel(<, Nat))
  BY <1>1, WF!WFMin
<1>3. \A n \in T : ~ (n < m)
  BY <1>2 DEF WF!OpToRel
<1> QED  BY <1>3

\* A position that may stand in for fen: another board, and unpublished.
Candidate(c, fen, given) == ~ SameKey(c, fen) /\ Lookup(given, c) = {}
Threshold(than) == Min({than, 4})

\* What the scan has found in the first i positions.
BestOf(best, scan, i, fen, given, than) ==
  /\ best = [f \in {"fen", "rank"} |-> best[f]]
  /\ best.rank \in 0 .. 4
  /\ \/ best.fen = None /\ best.rank = Threshold(than)
     \/ /\ best.fen \in Ids /\ \E j \in 1 .. i : scan[j] = best.fen
        /\ Candidate(best.fen, fen, given)
        /\ Rank(best.fen) = best.rank /\ best.rank < Threshold(than)
  /\ \A j \in 1 .. i : Candidate(scan[j], fen, given) => Rank(scan[j]) >= best.rank

(* One more position of the scan. *)
LEMMA TakeIs ==
  ASSUME NEW scan, NEW N \in Nat, DOMAIN scan = 1 .. N, \A j \in 1 .. N : scan[j] \in Ids,
         NEW fen \in Ids, NEW given, NEW than \in 0 .. 5, NEW i \in 1 .. N, NEW best,
         BestOf(best, scan, i - 1, fen, given, than)
  PROVE  BestOf(Take(best, scan[i], fen, given), scan, i, fen, given, than)
<1> DEFINE c == scan[i]
           new == Take(best, c, fen, given)
           Skips == best.rank = 0 \/ ~ Candidate(c, fen, given) \/ Floor(c) >= best.rank \/ Rank(c) >= best.rank
<1>1. c \in Ids /\ Rank(c) \in 0 .. 4 /\ Floor(c) \in 0 .. 4 /\ Floor(c) <= Rank(c)
  BY RankIs
<1>2. new = IF Skips THEN best ELSE [fen |-> c, rank |-> Rank(c)]
  BY DEF Take, Candidate
<1>3. i \in Int /\ \A j \in 1 .. i : j = i \/ j \in 1 .. i - 1
  OBVIOUS
<1>4. \A j \in 1 .. i - 1 : j \in 1 .. i /\ j \in 1 .. N
  OBVIOUS
<1>5. \A j \in 1 .. N : Rank(scan[j]) \in 0 .. 4
  BY RankIs
<1>6. best.rank \in 0 .. 4
  BY DEF BestOf
<1>7. ASSUME Skips
      PROVE  BestOf(new, scan, i, fen, given, than)
  <2>1. Candidate(c, fen, given) => Rank(c) >= best.rank
    BY <1>1, <1>6, <1>7
  <2>2. \A j \in 1 .. i : Candidate(scan[j], fen, given) => Rank(scan[j]) >= best.rank
    BY <1>3, <2>1 DEF BestOf
  <2>3. new = best
    BY <1>2, <1>7
  <2> HIDE DEF new
  <2> QED  BY <1>4, <2>2, <2>3 DEF BestOf
<1>8. ASSUME ~ Skips
      PROVE  BestOf(new, scan, i, fen, given, than)
  <2> DEFINE b == [fen |-> c, rank |-> Rank(c)]
  <2>1. new = b /\ b = [f \in {"fen", "rank"} |-> b[f]] /\ b.fen = c /\ b.rank = Rank(c)
    BY <1>2, <1>8
  <2> HIDE DEF b, new
  <2>2. Candidate(c, fen, given) /\ Rank(c) < best.rank
    BY <1>1, <1>6, <1>8
  <2>3. Threshold(than) \in 0 .. 4 /\ best.rank <= Threshold(than)
    <3>1. Threshold(than) \in {than, 4} /\ Threshold(than) <= 4
      <4>1. \E x \in {than, 4} : \A y \in {than, 4} : x <= y
        OBVIOUS
      <4> QED  BY <4>1 DEF Threshold, Min
    <3> QED  BY <1>6, <3>1 DEF BestOf
  <2>4. \A j \in 1 .. i : Candidate(scan[j], fen, given) => Rank(scan[j]) >= Rank(c)
    <3>1. \A j \in 1 .. i - 1 : Candidate(scan[j], fen, given) => Rank(scan[j]) >= best.rank
      BY DEF BestOf
    <3>2. ASSUME NEW j \in 1 .. i - 1, Candidate(scan[j], fen, given)
          PROVE  Rank(scan[j]) >= Rank(c)
      <4>1. Rank(scan[j]) >= best.rank /\ Rank(scan[j]) \in 0 .. 4
        BY <1>4, <1>5, <3>1, <3>2
      <4> QED  BY <1>1, <1>6, <2>2, <4>1
    <3>3. Rank(c) >= Rank(c)
      BY <1>1
    <3> QED  BY <1>3, <3>2, <3>3
  <2>5. Rank(c) < Threshold(than)
    BY <1>1, <1>6, <2>2, <2>3
  <2>6. \E j \in 1 .. i : scan[j] = c
    OBVIOUS
  <2> QED  BY <1>1, <2>1, <2>2, <2>4, <2>5, <2>6 DEF BestOf
<1> QED  BY <1>7, <1>8

(* The best of a scan: None if no candidate ranks below the threshold, and else a candidate
   that none ranks below (best_candidate). *)
LEMMA BestCandidateIs ==
  ASSUME NEW fen \in Ids, NEW given, NEW than \in 0 .. 5
  PROVE  LET b == BestCandidate(fen, given, than)
             S == Matching(Cells[fen].material, Cells[fen].dtm, 1, FALSE)
         IN  \/ b = None /\ \A c \in S : Candidate(c, fen, given) => Rank(c) >= Threshold(than)
             \/ /\ b \in S /\ b # None /\ Candidate(b, fen, given) /\ Rank(b) < Threshold(than)
                /\ \A c \in S : Candidate(c, fen, given) => Rank(c) >= Rank(b)
<1> DEFINE scan == Scan(fen)
           S == Matching(Cells[fen].material, Cells[fen].dtm, 1, FALSE)
           N == Len(scan)
           start == [fen |-> None, rank |-> Threshold(than)]
           Step(f, i) == IF i = 0 THEN start ELSE Take(f[i - 1], scan[i], fen, given)
           IsBest(f, n) == f = [i \in 0 .. n |-> Step(f, i)]
           f == CHOOSE g : IsBest(g, N)
           Goal(b) ==
             \/ b = None /\ \A c \in S : Candidate(c, fen, given) => Rank(c) >= Threshold(than)
             \/ /\ b \in S /\ b # None /\ Candidate(b, fen, given) /\ Rank(b) < Threshold(than)
                /\ \A c \in S : Candidate(c, fen, given) => Rank(c) >= Rank(b)
<1>0. BestCandidate(fen, given, than) = f[N].fen
  BY DEF BestCandidate, Threshold
<1>1. /\ N \in Nat /\ DOMAIN scan = 1 .. N /\ ToSet(scan) = S /\ S \subseteq Ids
      /\ \A j \in 1 .. N : scan[j] \in Ids /\ scan[j] \in S
  BY MineIs DEF Scan
<1> HIDE DEF scan, S
<1>2. \A c \in S : \E j \in 1 .. N : scan[j] = c
  BY <1>1 DEF ToSet
<1>3. ASSUME NEW n \in Nat, \E g : IsBest(g, n)
      PROVE  \E g : IsBest(g, n + 1)
  <2>1. PICK g : IsBest(g, n)
    BY <1>3
  <2> DEFINE h == [i \in 0 .. n + 1 |-> IF i = n + 1 THEN Step(g, i) ELSE g[i]]
  <2>2. \A i \in 0 .. n : h[i] = g[i]
    OBVIOUS
  <2>3. h = [i \in 0 .. n + 1 |-> h[i]] /\ h[n + 1] = Step(g, n + 1)
    OBVIOUS
  <2>4. \A i \in 0 .. n : g[i] = Step(g, i)
    <3> HIDE DEF Step
    <3> QED  BY <2>1
  <2> HIDE DEF h
  <2>5. \A i \in 0 .. n + 1 : i # 0 => i - 1 \in 0 .. n
    OBVIOUS
  <2>6. ASSUME NEW i \in 0 .. n + 1
        PROVE  h[i] = Step(h, i)
    <3>1. Step(h, i) = Step(g, i)
      BY <2>2, <2>5
    <3>2. h[i] = Step(g, i)
      <4> HIDE DEF Step
      <4>1. i = n + 1 \/ i \in 0 .. n
        OBVIOUS
      <4> QED  BY <2>2, <2>3, <2>4, <4>1
    <3> HIDE DEF Step
    <3> QED  BY <3>1, <3>2
  <2>7. IsBest(h, n + 1)
    <3> HIDE DEF Step
    <3> QED  BY <2>3, <2>6
  <2> QED  BY <2>7
<1>4. \E g : IsBest(g, 0)
  <2>1. IsBest([i \in 0 .. 0 |-> start], 0)
    <3>1. \A i \in 0 .. 0 : i = 0
      OBVIOUS
    <3> HIDE DEF start
    <3> QED  BY <3>1
  <2> QED  BY <2>1
<1> DEFINE Bad == {n \in Nat : ~ \E g : IsBest(g, n)}
<1>5. Bad = {}
  <2> HIDE DEF IsBest
  <2>1. SUFFICES ASSUME Bad # {} PROVE FALSE
    OBVIOUS
  <2>2. PICK n \in Bad : \A k \in Bad : ~ (k < n)
    BY <2>1, LeastOf
  <2>3. n # 0 /\ n \in Nat
    BY <1>4, <2>2
  <2>4. n - 1 \in Nat /\ n - 1 < n /\ (n - 1) + 1 = n
    BY <2>3
  <2>5. \E g : IsBest(g, n - 1)
    BY <2>2, <2>4
  <2>6. \E g : IsBest(g, (n - 1) + 1)
    BY <1>3, <2>4, <2>5
  <2> QED  BY <2>2, <2>4, <2>6
<1>6. IsBest(f, N)
  <2> HIDE DEF IsBest
  <2>1. \E g : IsBest(g, N)
    BY <1>1, <1>5
  <2> QED  BY <2>1
<1>7. \A i \in 0 .. N : f[i] = Step(f, i)
  <2> HIDE DEF Step, f
  <2> QED  BY <1>6
<1> HIDE DEF f, IsBest
<1> DEFINE Wrong == {i \in Nat : i <= N /\ ~ BestOf(f[i], scan, i, fen, given, than)}
<1>8. Wrong = {}
  <2>1. SUFFICES ASSUME Wrong # {} PROVE FALSE
    OBVIOUS
  <2>2. PICK i \in Wrong : \A k \in Wrong : ~ (k < i)
    BY <2>1, LeastOf
  <2>3. i \in Nat /\ i <= N /\ i \in 0 .. N
    BY <1>1, <2>2
  <2>4. CASE i = 0
    <3>1. f[0] = start
      BY <1>7, <2>3, <2>4
    <3>2. Threshold(than) \in 0 .. 4
      <4>1. \E x \in {than, 4} : \A y \in {than, 4} : x <= y
        OBVIOUS
      <4> QED  BY <4>1 DEF Threshold, Min
    <3>3. start.fen = None /\ start.rank = Threshold(than) /\ start = [x \in {"fen", "rank"} |-> start[x]]
      OBVIOUS
    <3> HIDE DEF start
    <3>4. BestOf(start, scan, 0, fen, given, than)
      BY <3>2, <3>3 DEF BestOf
    <3> QED  BY <2>2, <2>4, <3>1, <3>4
  <2>5. CASE i # 0
    <3>1. i - 1 \in Nat /\ i - 1 <= N /\ i - 1 < i /\ i \in 1 .. N
      BY <1>1, <2>3, <2>5
    <3>2. BestOf(f[i - 1], scan, i - 1, fen, given, than)
      BY <2>2, <3>1
    <3>3. f[i] = Take(f[i - 1], scan[i], fen, given)
      BY <1>7, <2>3, <2>5
    <3>4. BestOf(Take(f[i - 1], scan[i], fen, given), scan, i, fen, given, than)
      BY <1>1, <3>1, <3>2, TakeIs
    <3> QED  BY <2>2, <3>3, <3>4
  <2> QED  BY <2>4, <2>5
<1>9. BestOf(f[N], scan, N, fen, given, than)
  <2>1. N \in Nat /\ N <= N
    BY <1>1
  <2> QED  BY <1>8, <2>1
<1>10. Goal(f[N].fen)
  <2> DEFINE b == f[N].fen
  <2>1. \A c \in S : Candidate(c, fen, given) => Rank(c) >= f[N].rank
    BY <1>2, <1>9 DEF BestOf
  <2>2. CASE b = None /\ f[N].rank = Threshold(than)
    BY <2>1, <2>2
  <2>3. CASE /\ b \in Ids /\ \E j \in 1 .. N : scan[j] = b
             /\ Candidate(b, fen, given) /\ Rank(b) = f[N].rank /\ f[N].rank < Threshold(than)
    <3>1. b # None
      BY <2>3, CellsAssumption DEF None
    <3>2. b \in S
      BY <1>1, <2>3
    <3> QED  BY <2>1, <2>3, <3>1, <3>2
  <2> QED  BY <1>9, <2>2, <2>3 DEF BestOf
<1> HIDE DEF Goal
<1>11. Goal(BestCandidate(fen, given, than))
  BY <1>0, <1>10
<1> QED  BY <1>11 DEF Goal, S

(* A finite set of numbers has a greatest one. *)
LEMMA GreatestOf ==
  ASSUME NEW T \in SUBSET Nat, IsFiniteSet(T), T # {}
  PROVE  \E m \in T : \A n \in T : m >= n
<1> DEFINE k == Cardinality(T)
<1>1. k \in Nat /\ k # 0
  BY FS_CardinalityType, FS_EmptySet
<1>2. PICK m \in T : RankOf(T, m) = k
  <2>1. k \in 1 .. k
    BY <1>1
  <2> QED  BY <2>1, EveryRank
<1>3. ASSUME NEW n \in T
      PROVE  m >= n
  <2>1. m < n => RankOf(T, m) < RankOf(T, n)
    BY GreaterRank
  <2>2. RankOf(T, n) \in 1 .. k
    BY EveryRank
  <2>3. m \in Int /\ n \in Int
    OBVIOUS
  <2> HIDE DEF k
  <2> QED  BY <1>1, <1>2, <2>1, <2>2, <2>3
<1> QED  BY <1>3

\* An entry is of one of its material's positions.
EntryFields == {"fen", "published", "alternative", "from"}
EntryIs(m, e) == e = [f \in EntryFields |-> e[f]] /\ e.fen \in Of(m)

\* What Offers says of one entry.
Shown(e) == IF e.published = {} THEN e.fen ELSE e.alternative
OffersBest(m, e, given) ==
  /\ (e.published # {}) = (Lookup(given, e.fen) # {})
  /\ Shown(e) # None => Lookup(given, Shown(e)) = {}
  /\ \A c \in ToSet(Mine(m, Cells[e.fen].dtm, 1, FALSE)) :
       ~ SameKey(c, e.fen) /\ Lookup(given, c) = {} =>
         Rank(c) >= IF Shown(e) = None THEN 4 ELSE Rank(Shown(e))

(* Annotating an entry makes it offer the best there is, and a second time changes nothing. *)
LEMMA AnnotatedIs ==
  ASSUME NEW m, NEW e, EntryIs(m, e), NEW given
  PROVE  LET a == AnnotateEntry(e, given)
         IN  EntryIs(m, a) /\ OffersBest(m, a, given) /\ AnnotateEntry(a, given) = a
<1> DEFINE a == AnnotateEntry(e, given)
           S == Matching(m, Cells[e.fen].dtm, 1, FALSE)
           better == BestCandidate(e.fen, given, Rank(e.fen))
           alt == BestCandidate(e.fen, given, 5)
           Goal(x) == EntryIs(m, x) /\ OffersBest(m, x, given) /\ AnnotateEntry(x, given) = x
<1>1. /\ e = [f \in EntryFields |-> e[f]] /\ e.fen \in Of(m)
      /\ e.fen \in Ids /\ Cells[e.fen].material = m
  BY DEF EntryIs, Of
<1>2. /\ Rank(e.fen) \in 0 .. 4 /\ Rank(e.fen) \in 0 .. 5 /\ 5 \in 0 .. 5 /\ e.fen # None
  BY <1>1, RankIs, CellsAssumption DEF None
<1>3. ToSet(Mine(m, Cells[e.fen].dtm, 1, FALSE)) = S /\ S \subseteq Ids
  BY MineIs
<1>4. \A c \in S : c \in Of(m) /\ Cells[c].material = m /\ Cells[c].dtm = Cells[e.fen].dtm
  BY DEF Matching, Of
<1>5. \A c \in S : Rank(c) \in 0 .. 4
  BY <1>3, RankIs
<1>6. Threshold(5) = 4 /\ \A r \in 0 .. 4 : Threshold(r) = r
  <2>1. \A x \in 0 .. 5 : \E y \in {x, 4} : \A z \in {x, 4} : y <= z
    OBVIOUS
  <2>2. \A x \in 0 .. 5 : Threshold(x) \in {x, 4} /\ Threshold(x) <= x /\ Threshold(x) <= 4
    BY <2>1 DEF Threshold, Min
  <2> QED  BY <2>2
<1>7. a = IF Lookup(given, e.fen) # {}
          THEN [e EXCEPT !.published = Lookup(given, e.fen), !.alternative = alt]
          ELSE IF Rank(e.fen) > 0 /\ better # None
          THEN [fen |-> better, published |-> {}, alternative |-> None,
                from |-> IF e.from = None THEN e.fen ELSE e.from]
          ELSE [e EXCEPT !.published = {}, !.alternative = None]
  BY DEF AnnotateEntry
<1>8. \/ alt = None /\ \A c \in S : Candidate(c, e.fen, given) => Rank(c) >= 4
      \/ /\ alt \in S /\ alt # None /\ Candidate(alt, e.fen, given)
         /\ \A c \in S : Candidate(c, e.fen, given) => Rank(c) >= Rank(alt)
  BY <1>1, <1>2, <1>6, BestCandidateIs
<1>9. \/ better = None /\ \A c \in S : Candidate(c, e.fen, given) => Rank(c) >= Rank(e.fen)
      \/ /\ better \in S /\ better # None /\ Candidate(better, e.fen, given) /\ Rank(better) < Rank(e.fen)
         /\ \A c \in S : Candidate(c, e.fen, given) => Rank(c) >= Rank(better)
  BY <1>1, <1>2, <1>6, BestCandidateIs
<1> HIDE DEF S, better, alt
<1>10. CASE Lookup(given, e.fen) # {}
  <2> DEFINE x == [e EXCEPT !.published = Lookup(given, e.fen), !.alternative = alt]
  <2>1. /\ x = [f \in EntryFields |-> x[f]] /\ x.fen = e.fen
        /\ x.published = Lookup(given, e.fen) /\ x.alternative = alt
    BY <1>1 DEF EntryFields
  <2>2. [x EXCEPT !.published = Lookup(given, e.fen), !.alternative = alt] = x
    BY <1>1, <2>1 DEF EntryFields
  <2> HIDE DEF x
  <2>3. AnnotateEntry(x, given) = x
    BY <1>10, <2>1, <2>2 DEF AnnotateEntry, alt
  <2>4. OffersBest(m, x, given)
    BY <1>3, <1>8, <1>10, <2>1 DEF OffersBest, Shown, Candidate
  <2>5. Goal(x)
    BY <1>1, <2>1, <2>3, <2>4 DEF EntryIs
  <2> QED  BY <1>7, <1>10, <2>5 DEF x
<1>11. CASE Lookup(given, e.fen) = {} /\ Rank(e.fen) > 0 /\ better # None
  <2> DEFINE old == IF e.from = None THEN e.fen ELSE e.from
             x == [fen |-> better, published |-> {}, alternative |-> None, from |-> old]
  <2> HIDE DEF old
  <2>1. /\ x = [f \in EntryFields |-> x[f]] /\ x.fen = better
        /\ x.published = {} /\ x.alternative = None
    BY DEF EntryFields
  <2>2. [x EXCEPT !.published = {}, !.alternative = None] = x
    BY <2>1 DEF EntryFields
  <2> HIDE DEF x
  <2>3. /\ better \in S /\ better \in Ids /\ Candidate(better, e.fen, given) /\ Rank(better) < Rank(e.fen)
        /\ \A c \in S : Candidate(c, e.fen, given) => Rank(c) >= Rank(better)
    BY <1>3, <1>9, <1>11
  <2>4. Cells[better].material = m /\ Cells[better].dtm = Cells[e.fen].dtm /\ better \in Of(m)
        /\ Rank(better) \in 0 .. 4
    BY <1>4, <1>5, <2>3
  <2>5. \A c \in S : ~ SameKey(c, better) /\ Lookup(given, c) = {} => Rank(c) >= Rank(better)
    <3> SUFFICES ASSUME NEW c \in S, Lookup(given, c) = {} PROVE Rank(c) >= Rank(better)
      OBVIOUS
    <3>1. CASE SameKey(c, e.fen)
      <4>1. Rank(c) = Rank(e.fen)
        BY <1>1, <1>3, <1>4, <3>1, CellsAssumption
      <4> QED  BY <1>2, <2>3, <2>4, <4>1
    <3>2. CASE ~ SameKey(c, e.fen)
      BY <2>3, <3>2 DEF Candidate
    <3> QED  BY <3>1, <3>2
  <2>6. Lookup(given, better) = {}
    BY <2>3 DEF Candidate
  <2> DEFINE again == BestCandidate(better, given, Rank(better))
  <2>7. again = None
    <3>1. Rank(better) \in 0 .. 5 /\ Threshold(Rank(better)) = Rank(better)
      BY <1>6, <2>4
    <3>2. S = Matching(Cells[better].material, Cells[better].dtm, 1, FALSE)
      BY <2>4 DEF S
    <3>3. \/ again = None
          \/ again \in S /\ Candidate(again, better, given) /\ Rank(again) < Rank(better)
      BY <2>3, <3>1, <3>2, BestCandidateIs
    <3> HIDE DEF again
    <3>4. ASSUME again \in S, Candidate(again, better, given), Rank(again) < Rank(better)
          PROVE  FALSE
      <4>1. Rank(again) >= Rank(better) /\ Rank(again) \in 0 .. 4
        BY <1>5, <2>5, <3>4 DEF Candidate
      <4> QED  BY <2>4, <3>4, <4>1
    <3> QED  BY <3>3, <3>4
  <2>8. AnnotateEntry(x, given) = x
    BY <2>1, <2>2, <2>6, <2>7 DEF AnnotateEntry
  <2>9. OffersBest(m, x, given)
    <3>1. Shown(x) = better /\ better # None
      BY <1>11, <2>1 DEF Shown
    <3>2. ToSet(Mine(m, Cells[x.fen].dtm, 1, FALSE)) = S
      BY <1>3, <2>1, <2>4
    <3> QED  BY <2>1, <2>5, <2>6, <3>1, <3>2 DEF OffersBest
  <2>10. Goal(x)
    BY <2>1, <2>4, <2>8, <2>9 DEF EntryIs
  <2> QED  BY <1>7, <1>11, <2>10 DEF x, old
<1>12. CASE Lookup(given, e.fen) = {} /\ ~ (Rank(e.fen) > 0 /\ better # None)
  <2> DEFINE x == [e EXCEPT !.published = {}, !.alternative = None]
  <2>1. /\ x = [f \in EntryFields |-> x[f]] /\ x.fen = e.fen
        /\ x.published = {} /\ x.alternative = None
    BY <1>1 DEF EntryFields
  <2>2. [x EXCEPT !.published = {}, !.alternative = None] = x
    BY <1>1, <2>1 DEF EntryFields
  <2> HIDE DEF x
  <2>3. AnnotateEntry(x, given) = x
    BY <1>12, <2>1, <2>2 DEF AnnotateEntry, better
  <2>4. \A c \in S : ~ SameKey(c, e.fen) /\ Lookup(given, c) = {} => Rank(c) >= Rank(e.fen)
    <3>1. CASE Rank(e.fen) = 0
      BY <1>5, <3>1
    <3>2. CASE better = None
      BY <1>9, <3>2 DEF Candidate
    <3> QED  BY <1>2, <1>12, <3>1, <3>2
  <2>5. OffersBest(m, x, given)
    <3>1. Shown(x) = e.fen
      BY <2>1 DEF Shown
    <3> QED  BY <1>2, <1>3, <1>12, <2>1, <2>4, <3>1 DEF OffersBest
  <2>6. Goal(x)
    BY <1>1, <2>1, <2>3, <2>5 DEF EntryIs
  <2> QED  BY <1>7, <1>12, <2>6 DEF x
<1> QED  BY <1>10, <1>11, <1>12

(* Every table's sample is one of its own positions (deepest_showcase). *)
LEMMA ShowcaseIs == \A m \in DOMAIN Showcase : EntryIs(m, Showcase[m])
<1> SUFFICES ASSUME NEW m \in DOMAIN Showcase PROVE EntryIs(m, Showcase[m])
  OBVIOUS
<1> DEFINE d == DeepestDepth(m, 1)
           S == Matching(m, d, 1, FALSE)
           c == Mine(m, d, 1, FALSE)[1]
           D == DepthsWith(m, 1)
<1>1. m \in Sampled /\ Showcase[m] = Entry(c) /\ d # None
  BY DEF Showcase, Sampled
<1>2. D \subseteq Nat /\ IsFiniteSet(D)
  <2> DEFINE X == {x \in Of(m) : Cells[x].count = 1}
             g == [x \in X |-> Cells[x].dtm]
  <2>1. X \subseteq Ids /\ Ids = 1 .. Len(Cells) /\ Len(Cells) \in Nat
    BY CellsAssumption DEF Of
  <2>2. IsFiniteSet(Ids)
    BY <2>1, FS_Interval
  <2>3. IsFiniteSet(X)
    BY <2>1, <2>2, FS_Subset
  <2>4. D = {Cells[x].dtm : x \in X}
    BY DEF DepthsWith
  <2> HIDE DEF X
  <2>5. g \in Surjection(X, D)
    BY <2>4 DEF Surjection
  <2>6. IsFiniteSet(D)
    BY <2>3, <2>5, FS_Surjection
  <2> QED  BY <2>1, <2>4, <2>6, CellsAssumption
<1>3. D # {} /\ d = Max(D)
  BY <1>1 DEF DeepestDepth, Deepest
<1>4. d \in D
  <2>1. \E x \in D : \A y \in D : x >= y
    BY <1>2, <1>3, GreatestOf
  <2> QED  BY <1>3, <2>1 DEF Max
<1>5. S # {}
  BY <1>4 DEF DepthsWith, Matching
<1>6. c \in S
  <2> DEFINE s == Mine(m, d, 1, FALSE)
  <2>1. Len(s) \in Nat /\ DOMAIN s = 1 .. Len(s) /\ (\A i \in DOMAIN s : s[i] \in S) /\ Len(s) # 0
    BY <1>5, MineIs
  <2> HIDE DEF s, S
  <2>2. 1 \in DOMAIN s
    BY <2>1
  <2>3. s[1] \in S
    BY <2>1, <2>2
  <2> QED  BY <2>3 DEF s
<1>7. c \in Of(m)
  BY <1>6 DEF Matching
<1> HIDE DEF c
<1>8. Entry(c) = [f \in EntryFields |-> Entry(c)[f]] /\ Entry(c).fen = c
  BY DEF Entry, EntryFields
<1> QED  BY <1>1, <1>7, <1>8 DEF EntryIs

\* DEEPEST.json has entries of the tables' own positions, which are the best there are once they
\* are annotated.
EntriesAre ==
  /\ entries = [m \in DOMAIN entries |-> entries[m]]
  /\ \A m \in DOMAIN entries : EntryIs(m, entries[m])
  /\ annotated => \A m \in DOMAIN entries : /\ OffersBest(m, entries[m], known)
                                           /\ AnnotateEntry(entries[m], known) = entries[m]

(* Only the tools that work on them change DEEPEST.json and the published problems' file. *)
LEMMA DocsChange ==
  ASSUME [Next]_vars
  PROVE  Regenerate \/ MorePublished \/ AnnotateDocs \/ UNCHANGED docs
<1>1. CASE Program
  <2>1. ASSUME NEW i \in JobIds, BuildPage(i) \/ WriteThemes(i) \/ WriteIndex(i)
        PROVE  UNCHANGED docs
    BY <2>1 DEF BuildPage, WriteThemes, WriteIndex, JobElse
  <2>2. CASE Start \/ Collect \/ Reset \/ Fold \/ GiveUp
    BY <2>2 DEF Start, Collect, Reset, Fold, GiveUp
  <2>3. CASE Commit \/ Committed \/ Push \/ Pushed \/ Open \/ Opened \/ Back
    BY <2>3 DEF Commit, Committed, Push, Pushed, Open, Opened, Back, Keep
  <2>4. CASE Merge \/ Delete
    BY <2>4 DEF Merge, Delete, Keep
  <2> QED  BY <1>1, <2>1, <2>2, <2>3, <2>4 DEF Program
<1>2. CASE Maintainer
  BY <1>2 DEF Maintainer, Pull, Leave, TidyUp, GoHome, RemoveTorn, Resolve, Hand
<1>3. CASE Crash \/ AcceptShips
  BY <1>3 DEF Crash, AcceptShips
<1>4. ASSUME NEW i \in JobIds, FailPage(i) \/ KillJob(i)
      PROVE  UNCHANGED docs
  BY <1>4 DEF FailPage, KillJob, JobElse
<1>5. CASE UNCHANGED vars
  BY <1>5 DEF vars
<1> QED  BY <1>1, <1>2, <1>3, <1>4, <1>5 DEF Next

\* Once annotated, DEEPEST.json offers for every table the best-ranked unpublished position of its
\* depth, and annotating it again changes nothing, for all tables and published problems.
THEOREM OffersAreBest == Spec => []Offers
<1>1. Init => EntriesAre
  <2> SUFFICES ASSUME Init PROVE EntriesAre
    OBVIOUS
  <2>1. annotated = FALSE /\ (entries = NoEntries \/ entries = Showcase)
    BY DEF Init
  <2>2. DOMAIN NoEntries = {} /\ NoEntries = [m \in DOMAIN NoEntries |-> NoEntries[m]]
    BY DEF NoEntries
  <2>3. Showcase = [m \in DOMAIN Showcase |-> Showcase[m]]
    BY DEF Showcase
  <2> QED  BY <2>1, <2>2, <2>3, ShowcaseIs DEF EntriesAre
<1>2. EntriesAre /\ [Next]_vars => EntriesAre'
  <2> SUFFICES ASSUME EntriesAre, [Next]_vars PROVE EntriesAre'
    OBVIOUS
  <2>1. CASE Regenerate
    <3>1. Showcase = [m \in DOMAIN Showcase |-> Showcase[m]]
      BY DEF Showcase
    <3>2. entries' = Showcase /\ annotated' = FALSE
      BY <2>1 DEF Regenerate
    <3> QED  BY <3>1, <3>2, ShowcaseIs DEF EntriesAre
  <2>2. CASE MorePublished
    BY <2>2 DEF MorePublished, EntriesAre
  <2>3. CASE AnnotateDocs
    <3>1. /\ entries' = [m \in DOMAIN entries |-> AnnotateEntry(entries[m], known)]
          /\ known' = known
      BY <2>3 DEF AnnotateDocs, Annotate
    <3>2. DOMAIN entries' = DOMAIN entries /\ entries' = [m \in DOMAIN entries' |-> entries'[m]]
      BY <3>1
    <3>3. ASSUME NEW m \in DOMAIN entries
          PROVE  /\ EntryIs(m, entries'[m]) /\ OffersBest(m, entries'[m], known)
                 /\ AnnotateEntry(entries'[m], known) = entries'[m]
      <4>1. EntryIs(m, entries[m])
        BY DEF EntriesAre
      <4>2. entries'[m] = AnnotateEntry(entries[m], known)
        BY <3>1
      <4> QED  BY <4>1, <4>2, AnnotatedIs
    <3> QED  BY <3>1, <3>2, <3>3 DEF EntriesAre
  <2>4. CASE UNCHANGED docs
    BY <2>4 DEF docs, EntriesAre
  <2> QED  BY <2>1, <2>2, <2>3, <2>4, DocsChange
<1>3. EntriesAre => Offers
  <2> SUFFICES ASSUME EntriesAre, annotated PROVE Offers
    BY DEF Offers
  <2>1. Annotate(entries, known) = entries
    BY DEF EntriesAre, Annotate
  <2>2. \A m \in DOMAIN entries : OffersBest(m, entries[m], known)
    BY DEF EntriesAre
  <2> QED  BY <2>1, <2>2 DEF Offers, OffersBest, Shown
<1> QED  BY <1>1, <1>2, <1>3, PTL DEF Spec
=============================================================================
