-------------------------------- MODULE Pages --------------------------------
(***************************************************************************)
(* helpmate-tables pages: the material pages main lacks (or the named      *)
(* ones) are built by parallel build_problems processes, each in its own   *)
(* directory, then folded into a branch made from origin/main and shipped  *)
(* as a docs PR.  A state file lets the same command carry on after an     *)
(* interruption; a job may also die alone, a material fail, and accept     *)
(* ship a page of its own meanwhile.  Before that, DEEPEST.json, from      *)
(* which a page takes its first position, is generated and annotated.      *)
(* Source: contrib/pages.py, tools/build_problems.py (main), contrib/      *)
(* {cli,site_data,accept}.py.                                              *)
(***************************************************************************)
EXTENDS Problems

CONSTANTS
  Tables,      \* materials with a table and sidecar in --tables, done in materials.json
  Worlds,      \* [old, missing, named, jobs, allow, docs, faults]: main's pages, --missing or the materials
               \* named, --jobs, --allow-failures, whether DEEPEST.json is worked on before,
               \* and the bound on crashes, jobs killed, materials that fail and PRs of others
  Publishable, \* sets of positions the file of published problems may come to have
  Others       \* materials whose page accept may ship

ASSUME PagesAssumption ==
  /\ Tables \subseteq Nat /\ IsFiniteSet(Tables) /\ Others \subseteq Tables
  /\ \A w \in Worlds :
       /\ w.faults \in Nat /\ w.jobs \in Nat \ {0} /\ w.named \subseteq Tables
       /\ w.old = [m \in Tables |-> w.old[m]]
       /\ \A m \in Tables : w.old[m].built \/ w.old[m] = NoPage

VARIABLES
  world,
  entries, known,  \* DEEPEST.json; the published problems' file
  annotated,       \* history: entries are what annotate made of them with this file
  main, own,       \* origin/main's files; those of the maintainer's own branch
  head,            \* the data branch: [base, tree]
  branch, wt,      \* what is checked out: "own" or "data"; the working tree
  saved,           \* the state file
  pr,              \* "none", "open" or "merged", and the branch as pushed
  dirs, job,       \* the job directories' files; the job processes
  at, turn,        \* the step the run is at ("idle": no run); the next job to fold
  ask,             \* the materials of this run
  rc,              \* "new", "again" or "done": whether a run has returned 0
  faults           \* bounded counter

docs == <<entries, known, annotated>>
git == <<main, own, head, branch, wt, pr>>
run == <<saved, at, turn, ask, rc>>
procs == <<dirs, job>>
vars == <<world, docs, git, run, procs, faults>>

-----------------------------------------------------------------------------
\* The generated files of a commit or the working tree; maimed is history: the pages folded
\* from a job that was killed alone and had not listed them.
Listing(pages) ==
  [pages |-> pages,
   index |-> UNION {RowsOf(m, pages[m]) : m \in {x \in Tables : pages[x].built}},
   themes |-> UNION {EntriesOf(m, pages[m]) : m \in {x \in Tables : pages[x].built}},
   site |-> {m \in Tables : pages[m].built},
   maimed |-> {}]

NoState == [materials |-> {}, done |-> {}, started |-> FALSE, committed |-> FALSE,
            pushed |-> FALSE, pr |-> FALSE, original |-> "none"]

JobIds == UNION {0..w.jobs - 1 : w \in Worlds}
File(rows) == [torn |-> FALSE, rows |-> rows]
Torn == [torn |-> TRUE, rows |-> {}]
\* cut is history: killed alone, it has not listed its pages since.
NoDir == [pages |-> [m \in Tables |-> NoPage], index |-> File({}), themes |-> File({}),
          cut |-> FALSE]
NoJob == [at |-> "none", todo |-> <<>>, seen |-> {}, failed |-> FALSE]

NoEntries == [m \in {} |-> Entry(None)]

Init ==
  /\ world \in Worlds
  /\ entries = (IF world.docs THEN NoEntries ELSE Showcase) /\ known = {} /\ annotated = FALSE
  /\ main = Listing(world.old) /\ own = main /\ wt = main
  /\ head = [base |-> main, tree |-> main] /\ branch = "own"
  /\ saved = NoState
  /\ pr = [state |-> "none", base |-> main, tree |-> main]
  /\ dirs = [i \in JobIds |-> NoDir] /\ job = [i \in JobIds |-> NoJob]
  /\ at = "idle" /\ turn = 0 /\ ask = {} /\ rc = "new"
  /\ faults = 0

Fault == faults < world.faults /\ faults' = faults + 1

-----------------------------------------------------------------------------
\* The maintainer's other tools, before the pages are built.
Docs == world.docs /\ at = "idle" /\ rc = "new" /\ saved = NoState /\ UNCHANGED <<world, git, run, procs, faults>>

Regenerate ==
  Docs /\ entries' = Showcase /\ annotated' = FALSE /\ UNCHANGED known

MorePublished ==
  /\ Docs
  /\ known' \in Publishable /\ known \subseteq known' /\ known' # known
  /\ annotated' = FALSE
  /\ UNCHANGED entries

AnnotateDocs ==
  /\ Docs
  /\ entries' = Annotate(entries, known)
  /\ annotated' = TRUE
  /\ UNCHANGED known

-----------------------------------------------------------------------------
\* A clean checkout; the materials the command asks for.
Clean == wt = IF branch = "own" THEN own ELSE head.tree
Asked == IF world.missing THEN {m \in Tables : ~ wt.pages[m].built} ELSE world.named

StateFor(materials) ==
  IF saved.materials = materials THEN saved
  ELSE [NoState EXCEPT !.materials = materials]

\* Nobody's edits but its own may be in the tree the reset and the commit sweep up.
Guard(state) == state.committed \/ state.started \/ Clean

\* Every jobs-th of the materials in order is one job's.
Share(materials, i) ==
  {m \in materials : Cardinality({x \in materials : x < m}) % world.jobs = i}
Split(materials, i) ==
  LET share == Share(materials, i) IN
  CHOOSE s \in [1..Cardinality(share) -> share] : \A j, k \in DOMAIN s : j < k => s[j] < s[k]

JobsOf(materials) == {i \in 0..world.jobs - 1 : Share(materials, i) # {}}
Mats(i) == Share(ask, i)

Launch(materials, done) ==
  [i \in JobIds |->
     IF i \notin JobsOf(materials) THEN NoJob
     ELSE IF i \in done THEN [NoJob EXCEPT !.at = "skipped"]
     ELSE [NoJob EXCEPT !.at = "build", !.todo = Split(materials, i)]]

Start ==
  /\ at = "idle" /\ Asked # {} /\ (world.missing \/ rc # "done")
  /\ LET state == StateFor(Asked) IN
       /\ state.pr \/ Guard(state)
       /\ saved' = IF state.original # "none" THEN state ELSE [state EXCEPT !.original = branch]
       /\ at' = IF state.pr THEN "back" ELSE "jobs"
       /\ job' = IF state.pr THEN job ELSE Launch(Asked, state.done)
  /\ ask' = Asked /\ rc' = "again"
  /\ UNCHANGED <<world, docs, git, dirs, turn, faults>>

-----------------------------------------------------------------------------
\* One build_problems process, --resume in its own directory.
PageOf == [m \in Tables |-> [seed \in Ids \cup {None} |-> BuildMaterial(m, seed)]]
\* A position that is none of the material's would be no candidate.
Seed(m) == IF m \in DOMAIN entries /\ entries[m].fen \in Of(m) THEN entries[m].fen ELSE None

Building(i) == at = "jobs" /\ job[i].at = "build"
JobElse == <<world, docs, git, run>>

BuildPageForgetsKept(i) ==
  /\ Building(i) /\ job[i].todo # <<>>
  /\ LET m == Head(job[i].todo)
         kept == dirs[i].pages[m].built
         doc == IF kept THEN dirs[i].pages[m] ELSE PageOf[m][Seed(m)]
     IN /\ dirs' = [dirs EXCEPT ![i].pages[m] = doc]
        /\ job' = [job EXCEPT ![i].todo = Tail(@),
                              ![i].seen = IF doc.built /\ ~ kept THEN @ \cup {m} ELSE @,
                              ![i].failed = @ \/ ~ doc.built]
  /\ UNCHANGED <<JobElse, faults>>

\* The page on disk is kept, or built and put in place at once.
BuildPage(i) ==
  /\ Building(i) /\ job[i].todo # <<>>
  /\ LET m == Head(job[i].todo)
         doc == IF dirs[i].pages[m].built THEN dirs[i].pages[m] ELSE PageOf[m][Seed(m)]
     IN /\ dirs' = [dirs EXCEPT ![i].pages[m] = doc]
        /\ job' = [job EXCEPT ![i].todo = Tail(@),
                              ![i].seen = IF doc.built THEN @ \cup {m} ELSE @,
                              ![i].failed = @ \/ ~ doc.built]
  /\ UNCHANGED <<JobElse, faults>>

FailPage(i) ==
  /\ Building(i) /\ job[i].todo # <<>> /\ ~ dirs[i].pages[Head(job[i].todo)].built
  /\ Fault
  /\ job' = [job EXCEPT ![i].todo = Tail(@), ![i].failed = TRUE]
  /\ UNCHANGED <<JobElse, dirs>>

Rows(i) == UNION {RowsOf(m, dirs[i].pages[m]) : m \in job[i].seen}
ThemeEntries(i) == UNION {EntriesOf(m, dirs[i].pages[m]) : m \in job[i].seen}

\* Both aggregates are read before either is written, themes.json first.
WriteThemes(i) ==
  /\ Building(i) /\ job[i].todo = <<>>
  /\ LET unreadable == dirs[i].index.torn \/ dirs[i].themes.torn IN
       /\ job' = [job EXCEPT ![i].at = IF unreadable THEN "bad" ELSE "index"]
       /\ dirs' = IF unreadable THEN dirs
                  ELSE [dirs EXCEPT ![i].themes =
                          File(MergeThemes(@.rows, ThemeEntries(i), job[i].seen))]
  /\ UNCHANGED <<JobElse, faults>>

WriteIndex(i) ==
  /\ at = "jobs" /\ job[i].at = "index"
  /\ dirs' = [dirs EXCEPT ![i].index = File(MergeIndex(@.rows, Rows(i), job[i].seen)),
                          ![i].cut = FALSE]
  /\ job' = [job EXCEPT ![i].at = IF job[i].failed THEN "bad" ELSE "ok"]
  /\ UNCHANGED <<JobElse, faults>>

\* The directory of a process that dies: pages are whole, the file it was writing may not be.
Stopped(i) ==
  {dirs[i]} \cup
  (IF job[i].at = "build" /\ job[i].todo = <<>> THEN {[dirs[i] EXCEPT !.themes = Torn]}
   ELSE IF job[i].at = "index" THEN {[dirs[i] EXCEPT !.index = Torn]} ELSE {})

KillJob(i) ==
  /\ at = "jobs" /\ job[i].at \in {"build", "index"}
  /\ Fault
  /\ \E d \in Stopped(i) : dirs' = [dirs EXCEPT ![i] = [d EXCEPT !.cut = TRUE]]
  /\ job' = [job EXCEPT ![i].at = "bad"]
  /\ UNCHANGED JobElse

-----------------------------------------------------------------------------
Lost(i) == {m \in Mats(i) : ~ dirs[i].pages[m].built}
Failed == UNION {Lost(i) : i \in JobsOf(ask) \ saved.done}
Built == {m \in ask : \E i \in JobsOf(ask) : m \in Mats(i) /\ dirs[i].pages[m].built}

CollectAnyEnd ==
  /\ at = "jobs" /\ \A i \in JobsOf(ask) : job[i].at \in {"skipped", "ok", "bad"}
  /\ saved' = [saved EXCEPT !.done = @ \cup {i \in JobsOf(ask) : job[i].at # "skipped"},
                            !.started = TRUE]
  /\ at' = IF saved.committed THEN "decide" ELSE "reset"
  /\ job' = [i \in JobIds |-> NoJob]
  /\ turn' = 0
  /\ UNCHANGED <<world, docs, git, dirs, ask, rc, faults>>

\* Every process has ended; those with every page and exit code 0 are never run again.
Collect ==
  /\ at = "jobs" /\ \A i \in JobsOf(ask) : job[i].at \in {"skipped", "ok", "bad"}
  /\ saved' = [saved EXCEPT !.done = @ \cup {i \in JobsOf(ask) : job[i].at = "ok" /\ Lost(i) = {}},
                            !.started = TRUE]
  /\ at' = IF saved.committed THEN "decide" ELSE "reset"
  /\ job' = [i \in JobIds |-> NoJob]
  /\ turn' = 0
  /\ UNCHANGED <<world, docs, git, dirs, ask, rc, faults>>

\* The branch afresh from origin/main, what was left in the generated files thrown away.
Reset ==
  /\ at = "reset"
  /\ head' = [base |-> main, tree |-> main] /\ branch' = "data" /\ wt' = main
  /\ at' = "fold"
  /\ UNCHANGED <<world, docs, main, own, pr, saved, turn, ask, rc, procs, faults>>

\* A job's pages, then its rows and themes; a torn file stops the run here.
Folded(i, have) ==
  LET d == dirs[i]
      pages == [m \in Tables |-> IF m \in have THEN d.pages[m] ELSE wt.pages[m]]
      Own(rows) == {r \in rows : r.material \in have}
  IN IF d.index.torn \/ d.themes.torn THEN [wt EXCEPT !.pages = pages]
     ELSE [wt EXCEPT !.pages = pages,
                     !.index = MergeIndex(@, Own(d.index.rows), have),
                     !.themes = MergeThemes(@, Own(d.themes.rows), have)]

Fold ==
  /\ at = "fold" /\ turn \in JobsOf(ask)
  /\ LET have == Mats(turn) \ Lost(turn)
         listed == {r.material : r \in dirs[turn].index.rows}
         missed == IF dirs[turn].cut THEN have \ listed ELSE {}
     IN /\ wt' = [Folded(turn, have) EXCEPT !.maimed = (@ \ have) \cup missed]
        /\ at' = IF have # {} /\ (dirs[turn].index.torn \/ dirs[turn].themes.torn)
                 THEN "idle" ELSE IF turn + 1 \in JobsOf(ask) THEN "fold" ELSE "decide"
  /\ turn' = turn + 1
  /\ UNCHANGED <<world, docs, main, own, head, branch, pr, saved, ask, rc, procs, faults>>

\* git switch: an edit that the other branch's files do not allow stays, and stops it.
SwitchTo(b) ==
  LET target == IF b = "own" THEN own ELSE head.tree
      here == IF branch = "own" THEN own ELSE head.tree
  IN IF wt = here THEN branch' = b /\ wt' = target
     ELSE IF here = target THEN branch' = b /\ UNCHANGED wt
     ELSE UNCHANGED <<branch, wt>>

Short == Failed # {} /\ ~ world.allow
Nothing == (IF saved.committed THEN ask \ Failed ELSE Built) = {}

GiveUp ==
  /\ at = "decide" /\ (Short \/ Nothing)
  /\ SwitchTo(saved.original)
  /\ at' = "idle"
  /\ UNCHANGED <<world, docs, main, own, head, pr, saved, turn, ask, rc, procs, faults>>

Keep(s, next) == saved' = s /\ at' = next /\ UNCHANGED <<world, docs, turn, ask, rc, procs, faults>>

\* materials.json's page column is recomputed from the pages there are.
Commit ==
  /\ at = "decide" /\ ~ Short /\ ~ Nothing
  /\ \/ /\ saved.committed
        /\ Keep(saved, IF saved.pushed THEN "open" ELSE "push")
        /\ UNCHANGED git
     \/ /\ ~ saved.committed
        /\ wt' = [wt EXCEPT !.site = {m \in Tables : wt.pages[m].built}]
        /\ head' = [head EXCEPT !.tree = wt']
        /\ Keep(saved, IF wt' = head.tree THEN "idle" ELSE "committed")
        /\ UNCHANGED <<main, own, branch, pr>>

Committed == at = "committed" /\ Keep([saved EXCEPT !.committed = TRUE], "push") /\ UNCHANGED git

Push ==
  /\ at = "push"
  /\ pr' = [pr EXCEPT !.base = head.base, !.tree = head.tree]
  /\ Keep(saved, "pushed")
  /\ UNCHANGED <<main, own, head, branch, wt>>

Pushed == at = "pushed" /\ Keep([saved EXCEPT !.pushed = TRUE], "open") /\ UNCHANGED git

\* The branch's open PR, or a new one.
Open ==
  /\ at = "open"
  /\ pr' = [pr EXCEPT !.state = "open"]
  /\ Keep(saved, "opened")
  /\ UNCHANGED <<main, own, head, branch, wt>>

Opened == at = "opened" /\ Keep([saved EXCEPT !.pr = TRUE], "back") /\ UNCHANGED git

Back ==
  /\ at = "back"
  /\ SwitchTo(saved.original)
  /\ Keep(saved, IF branch' = saved.original THEN "merge" ELSE "idle")   \* git.back raises
  /\ UNCHANGED <<main, own, head, pr>>

\* What git makes of the PR's changes and those on main since its base.
Merged ==
  LET Of4(t, m) == <<t.pages[m], {r \in t.index : r.material = m}, {e \in t.themes : e.material = m}>>
      changed == {m \in Tables : Of4(pr.tree, m) # Of4(pr.base, m)}
      Theirs(rows) == {r \in rows : r.material \in changed}
  IN [pages |-> [m \in Tables |-> IF m \in changed THEN pr.tree.pages[m] ELSE main.pages[m]],
      index |-> MergeIndex(main.index, Theirs(pr.tree.index), changed),
      themes |-> MergeThemes(main.themes, Theirs(pr.tree.themes), changed),
      site |-> (main.site \ (pr.base.site \ pr.tree.site)) \cup (pr.tree.site \ pr.base.site),
      maimed |-> (main.maimed \ changed) \cup (pr.tree.maimed \cap changed)]

Lands == main' = Merged /\ pr' = [pr EXCEPT !.state = "merged"]

\* Merged now or before; a PR that conflicts ends the run, whose next one meets it again.
Merge ==
  /\ at = "merge"
  /\ \/ pr.state = "merged" /\ Keep(saved, "delete") /\ UNCHANGED git
     \/ pr.state = "open" /\ Lands /\ Keep(saved, "delete") /\ UNCHANGED <<own, head, branch, wt>>
     \/ pr.state = "open" /\ main # pr.base /\ Keep(saved, "idle") /\ UNCHANGED git

\* The branch that is checked out cannot be deleted.
Delete ==
  /\ at = "delete"
  /\ \/ branch = "own" /\ saved' = NoState /\ rc' = "done"
     \/ branch = "data" /\ UNCHANGED <<saved, rc>>
  /\ at' = "idle"
  /\ UNCHANGED <<world, docs, git, turn, ask, procs, faults>>

-----------------------------------------------------------------------------
\* The run and every process of it die.
Crash ==
  /\ at # "idle"
  /\ Fault
  /\ \E ds \in [JobIds -> UNION {Stopped(i) : i \in JobIds}] :
       (\A i \in JobIds : ds[i] \in Stopped(i)) /\ dirs' = ds
  /\ job' = [i \in JobIds |-> NoJob]
  /\ at' = "idle"
  /\ UNCHANGED <<world, docs, git, saved, turn, ask, rc>>

\* accept ships the page of a material it has just published, built in its own checkout.
AcceptShips ==
  /\ Fault
  /\ \E m \in Others :
       /\ ~ main.pages[m].built
       /\ LET doc == PageOf[m][Seed(m)] IN
            /\ doc.built
            /\ main' = [pages |-> [main.pages EXCEPT ![m] = doc],
                        index |-> MergeIndex(main.index, RowsOf(m, doc), {m}),
                        themes |-> MergeThemes(main.themes, EntriesOf(m, doc), {m}),
                        site |-> main.site \cup {m},
                        maimed |-> main.maimed \ {m}]
  /\ UNCHANGED <<world, docs, own, head, branch, wt, pr, run, procs>>

\* What the maintainer does by hand: pulls main, leaves the data branch, puts a checkout in order
\* that a run refuses, removes a torn file, resolves a conflict.
Hand == UNCHANGED <<world, docs, run, job, faults>>

Pull ==
  /\ Hand /\ at = "idle" /\ branch = "own" /\ Clean /\ own # main
  /\ own' = main /\ wt' = main
  /\ UNCHANGED <<main, head, branch, pr, dirs>>

\* On the data branch an ended run's own pages are there: --missing then names no material, and
\* the command prints "no material pages to build" and returns 0.
NothingMissing == at = "idle" /\ branch = "data" /\ Asked = {}

GoHome == wt' = own /\ branch' = "own" /\ UNCHANGED <<main, own, head, pr, dirs>>
Leave == Hand /\ NothingMissing /\ GoHome
TidyUp ==   \* at the error that the checkout has uncommitted changes
  /\ Hand /\ at = "idle" /\ Asked # {}
  /\ LET s == StateFor(Asked) IN ~ s.pr /\ ~ Guard(s)
  /\ GoHome

RemoveTorn ==
  /\ Hand /\ at = "idle"
  /\ \E i \in JobIds :
       /\ dirs[i].index.torn \/ dirs[i].themes.torn
       /\ dirs' = [dirs EXCEPT ![i].index = File({}), ![i].themes = File({})]
  /\ UNCHANGED git

Resolve ==
  /\ Hand /\ pr.state = "open" /\ main # pr.base
  /\ Lands
  /\ UNCHANGED <<own, head, branch, wt, dirs>>

-----------------------------------------------------------------------------
Program ==
  \/ Start \/ Collect \/ Reset \/ Fold \/ GiveUp \/ Commit \/ Committed \/ Push \/ Pushed
  \/ Open \/ Opened \/ Back \/ Merge \/ Delete
  \/ \E i \in JobIds : BuildPage(i) \/ WriteThemes(i) \/ WriteIndex(i)
Maintainer == Pull \/ Leave \/ TidyUp \/ RemoveTorn \/ Resolve

Next ==
  \/ Regenerate \/ MorePublished \/ AnnotateDocs
  \/ Program \/ Maintainer
  \/ Crash \/ AcceptShips \/ \E i \in JobIds : FailPage(i) \/ KillJob(i)

\* The command is run again until it succeeds; the hands come round to what it ends with an error
\* at.  Nothing tells the maintainer to Leave, which is not fair.
Fairness == WF_vars(Program) /\ SF_vars(TidyUp) /\ SF_vars(RemoveTorn) /\ SF_vars(Resolve)
Spec == Init /\ [][Next]_vars /\ Fairness

-----------------------------------------------------------------------------
\* BUILD.md: a scoped run "merges into the two aggregate files rather than replacing them".  Jobs
\* list their pages at their end, the fold copies pages first, and others' PRs land between: yet
\* on main every page has exactly its own index row, theme entries and materials.json flag, and no
\* page is listed that is not there (except pages of a job killed between page and index).
Listed ==
  LET sound == Tables \ main.maimed
      shown == {m \in sound : main.pages[m].built}
  IN /\ {r \in main.index : r.material \in sound} = UNION {RowsOf(m, main.pages[m]) : m \in shown}
     /\ {e \in main.themes : e.material \in sound} = UNION {EntriesOf(m, main.pages[m]) : m \in shown}
     /\ main.site = {m \in Tables : main.pages[m].built}

\* What the tool says of itself: a weak unpublished position is "replaced by the best-ranked
\* unpublished unique position of the same material and depth", a published one gets the best
\* unpublished alternative; "only rewritten when something changed", so a second run changes
\* nothing.  The scan decides by cheap checks and stops early; this is over the whole scan.
\* (rc: neither file changes once pages are built.)
Offers ==
  annotated /\ rc = "new" =>
    /\ Annotate(entries, known) = entries
    /\ \A m \in DOMAIN entries :
         LET e == entries[m]
             shown == IF e.published = {} THEN e.fen ELSE e.alternative
         IN /\ (e.published # {}) = (Lookup(known, e.fen) # {})
            /\ shown # None => Lookup(known, shown) = {}
            /\ \A c \in ToSet(Mine(m, Cells[e.fen].dtm, 1, FALSE)) :
                 ~ SameKey(c, e.fen) /\ Lookup(known, c) = {} =>
                   Rank(c) >= IF shown = None THEN 4 ELSE Rank(shown)

Wanted ==
  {m \in (IF world.missing THEN {x \in Tables : ~ world.old[x].built} ELSE world.named) :
     PageOf[m][None].built}

\* CONTRIBUTING-TABLES.md: "mines the missing site pages in parallel jobs, resumable, and ships a
\* docs PR".  However it is interrupted, run again the command comes to have every page that can
\* be built on main, and they stay: unless an end between fold and git.back has left the checkout
\* on the data branch, where --missing sees its own pages, has nothing to do and returns 0 for
\* good (cli.py:213, pages.py:13-17, 73-75).
Shipped == \A m \in Wanted : main.pages[m].built /\ main.pages[m] # world.old[m]
Ships == <>[]Shipped \/ <>[](NothingMissing /\ world.missing)
=============================================================================
