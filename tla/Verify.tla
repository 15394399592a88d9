------------------------------- MODULE Verify -------------------------------
(***************************************************************************)
(* `helpmate-tables verify --pr N...`: stage the files of open pull        *)
(* requests, check their tables over the published corpus and over other   *)
(* verified PRs, keep a report of each.  Authors push and close, `accept`  *)
(* publishes what a report lets pass, and a run may die at any step; the   *)
(* next run takes up what the staging directory holds.                     *)
(* A payload is a model value.  What the checks V2 to V7 conclude of one   *)
(* is modelled in VerifyTable; here it passes where its sub-tables hold    *)
(* what it was built on.                                                   *)
(* Source: src/packages/api/helpmate_server/contrib/{verify,report,hf}.py  *)
(***************************************************************************)
EXTENDS Naturals, Sequences, FiniteSets

CONSTANTS
  Materials,     \* material |-> [pawns, pieces, subs]
  Built,         \* payload |-> (sub-table |-> the payload it was computed from)
  Right,         \* material |-> the payload that is right
  Worlds,        \* what is published at first, per PR its trees, a push each, and how
                 \* verify may be called: what it samples, --full
  AlikeInSize,   \* whether two contents of one file may have the same size
  MaxRuns, MaxCrashes

\* Of finitely many PRs each has one tree or more, each of finitely many materials.
ASSUME VerifyAssumption ==
  /\ AlikeInSize \in BOOLEAN
  /\ IsFiniteSet(DOMAIN Materials)
  /\ \A m \in DOMAIN Materials : Materials[m].pawns \in Nat /\ Materials[m].pieces \in Nat
  /\ \A w \in Worlds :
       /\ DOMAIN w.trees \subseteq Nat /\ IsFiniteSet(DOMAIN w.trees)
       /\ \A p \in DOMAIN w.trees :
            /\ DOMAIN w.trees[p] = 1 .. Len(w.trees[p]) /\ Len(w.trees[p]) \in Nat \ {0}
            /\ \A h \in DOMAIN w.trees[p] : DOMAIN w.trees[p][h].files \subseteq DOMAIN Materials

None == <<>>
Torn == <<"torn">>   \* a file that was cut off while it was written
NoSource == "none"

VARIABLES
  world,       \* constant: one of Worlds
  prs,         \* PR |-> [status, at: how often it was pushed]
  published,   \* material |-> content, as the manifest lists it
  tables,      \* the same of the local corpus
  staging,     \* PR |-> its directory
  run,         \* the process, or None
  bounds

hubVars == <<prs, published, tables>>
vars    == <<world, prs, published, tables, staging, run, bounds>>

PRs     == DOMAIN world.trees
HeadOf(p) == prs[p].at
Tree(p, h) == world.trees[p][h].files
Tidy(p, h) == world.trees[p][h].tidy
Open    == {p \in PRs : prs[p].status = "open"}
Only(f, S) == [x \in S |-> f[x]]
With(f, x, y) == [z \in DOMAIN f \cup {x} |-> IF z = x THEN y ELSE f[z]]
Union(f, g) == [x \in DOMAIN f \cup DOMAIN g |-> IF x \in DOMAIN g THEN g[x] ELSE f[x]]

\* A staging directory: the files, .files.json, report.json, report.partial.json.
NoRecord == [head |-> 0, files |-> <<>>]
Empty    == [files |-> <<>>, record |-> NoRecord, report |-> None, partial |-> None]

TypeOK ==
  /\ prs \in [PRs -> [status : {"open", "merged"}, at : 1 .. 2]]
  /\ DOMAIN published \subseteq DOMAIN Materials /\ DOMAIN tables \subseteq DOMAIN published
  /\ DOMAIN staging = PRs
  /\ run = None \/ run.at \in {"pr", "stage", "fetch", "note", "overlay", "table", "aside", "report", "done"}

Init ==
  /\ world \in Worlds
  /\ prs = [p \in PRs |-> [status |-> "open", at |-> 1]]
  /\ published = world.published
  /\ tables = world.published
  /\ staging = [p \in PRs |-> Empty]
  /\ run = None
  /\ bounds = [runs |-> 0, crashes |-> 0]

-----------------------------------------------------------------------------
(* What a report says *)

Entry(content, content0, source, deepest, settings, head, passed) ==
  [passed |-> passed, sha |-> content, seen |-> content0, source |-> source,
   deepest |-> deepest, settings |-> settings, head |-> head]

IsReport(r) == r \notin {None, Torn}

\* report_json; the PR check V1 counts in the result of the whole.
ReportJson(entries, head, settings, tidy) ==
  [head |-> head, settings |-> settings, tables |-> entries,
   pass |-> tidy /\ \A m \in DOMAIN entries : entries[m].passed]

(* reusable: the entry's result may be taken over.  An entry from a partial
   report is as good as one from a whole one. *)
ReusableAnySettings(r, m, content, settings, source, again) ==
  /\ IsReport(r)
  /\ m \in DOMAIN r.tables
  /\ r.tables[m].passed
  /\ r.tables[m].sha = content
  /\ r.tables[m].source = source
  /\ again => r.tables[m].deepest
Reusable(r, m, content, settings, source, again) ==
  /\ IsReport(r) /\ r.settings = settings
  /\ m \in DOMAIN r.tables
  /\ r.tables[m].passed
  /\ r.tables[m].sha = content
  /\ r.tables[m].source = source
  /\ again => r.tables[m].deepest

-----------------------------------------------------------------------------
(* The process *)

MaxOf(S) == IF S = {} THEN 0 ELSE CHOOSE n \in S : \A k \in S : k <= n
Rank(p, h) ==
  LET mats == DOMAIN Tree(p, h)
  IN  <<MaxOf({Materials[m].pawns : m \in mats}), MaxOf({Materials[m].pieces : m \in mats}), p>>
Before(a, b) ==
  \/ a[1] < b[1]
  \/ a[1] = b[1] /\ a[2] < b[2]
  \/ a[1] = b[1] /\ a[2] = b[2] /\ a[3] < b[3]
MinOf(S) == CHOOSE i \in S : \A j \in S : i <= j

\* _batch_order: sub-tables before the tables that need them.
RankNow(p) == Rank(p, run.open[p])
Now     == CHOOSE p \in run.todo : \A q \in run.todo \ {p} : Before(RankNow(p), RankNow(q))
Here    == staging[Now]
Wanted  == Tree(Now, run.open[Now])
Step(at) == run' = [run EXCEPT !.at = at]
Write(d) == staging' = [staging EXCEPT ![Now] = d]

\* The arguments are open PRs; their heads, the open PRs and the manifest are read once.
Start ==
  /\ run = None /\ bounds.runs < MaxRuns
  /\ \E batch \in (SUBSET Open) \ {{}}, settings \in world.settings, full \in world.full :
       LET head == [p \in Open |-> HeadOf(p)]
       IN  run' = [at |-> "pr", todo |-> batch, open |-> head,
                   manifest |-> DOMAIN published, settings |-> settings, full |-> full,
                   sources |-> <<>>, left |-> {}, overlay |-> <<>>, entries |-> <<>>,
                   delivered |-> <<>>]
  /\ bounds' = [bounds EXCEPT !.runs = @ + 1]
  /\ UNCHANGED <<world, hubVars, staging>>

\* The reports an interrupted or an earlier run left.
TakePr ==
  /\ run # None /\ run.at = "pr"
  /\ IF run.todo = {} THEN run' = None
     ELSE run' = [run EXCEPT !.at = "stage", !.entries = <<>>,
                             !.sources = IF run.full THEN <<>> ELSE <<Here.report, Here.partial>>]
  /\ UNCHANGED <<world, hubVars, staging, bounds>>

\* Files the head does not have go; the head is saved before anything is downloaded.
Kept    == Only(Here.files, DOMAIN Here.files \cap DOMAIN Wanted)
KeptRecord == [head |-> run.open[Now],
               files |-> Only(Here.record.files, DOMAIN Here.record.files \ (DOMAIN Here.files \ DOMAIN Wanted))]
Stage ==
  /\ run # None /\ run.at = "stage"
  /\ Write([Here EXCEPT !.files = Kept, !.record = KeptRecord])
  /\ run' = [run EXCEPT !.at = "fetch", !.left = DOMAIN Wanted]
  /\ UNCHANGED <<world, hubVars, bounds>>

\* Of the file itself only the size is looked at.
SameSize(a, b) == AlikeInSize \/ a = b
Staged(d, m, content) ==
  /\ m \in DOMAIN d.files /\ SameSize(d.files[m], content)
  /\ m \in DOMAIN d.record.files /\ d.record.files[m] = content

\* Names are taken in a fixed order; which does not matter.
First(S) == CHOOSE m \in S : TRUE

\* The download replaces the file; .files.json follows it.
Fetch ==
  /\ run # None /\ run.at = "fetch"
  /\ IF run.left = {} THEN Step("overlay") /\ UNCHANGED staging
     ELSE LET m == First(run.left)
          IN  IF Staged(Here, m, Wanted[m])
                THEN run' = [run EXCEPT !.left = @ \ {m}] /\ UNCHANGED staging
                ELSE /\ Write([Here EXCEPT !.files = With(@, m, Wanted[m])])
                     /\ Step("note")
  /\ UNCHANGED <<world, hubVars, bounds>>

Note ==
  /\ run # None /\ run.at = "note"
  /\ LET m == First(run.left)
     IN  /\ Write([Here EXCEPT !.record.files = With(@, m, Wanted[m])])
         /\ run' = [run EXCEPT !.at = "fetch", !.left = @ \ {m}]
  /\ UNCHANGED <<world, hubVars, bounds>>

(* _verified_files: other PRs, open when the run began, whose report passed them at
   the head that is staged. *)
SuppliesAnyHead(p) ==
  /\ p \in DOMAIN run.open \ {Now}
  /\ IsReport(staging[p].report) /\ staging[p].report.pass
  /\ staging[p].record.head = run.open[p]
Supplies(p) ==
  /\ p \in DOMAIN run.open \ {Now}
  /\ IsReport(staging[p].report) /\ staging[p].report.pass
  /\ staging[p].report.head = run.open[p] /\ staging[p].record.head = run.open[p]

\* _build_overlay: of two sources of a name the later one is linked, in the order of the PRs.
Supplied ==
  LET mats == UNION {DOMAIN staging[q].files : q \in {q \in PRs : Supplies(q)}}
  IN  [m \in mats |-> staging[MaxOf({q \in PRs : Supplies(q) /\ m \in DOMAIN staging[q].files})].files[m]]
Overlay == Union(Union(Supplied, tables), Here.files)

BuildOverlay ==
  /\ run # None /\ run.at = "overlay"
  /\ run' = [run EXCEPT !.at = "table", !.overlay = Overlay]
  /\ UNCHANGED <<world, hubVars, staging, bounds>>

\* What a table of the PR is compared with: the published payload, an earlier
\* delivery of the run, or nothing.
Earlier(m)  == m \in DOMAIN run.delivered /\ run.delivered[m].pr < Now
Again(m)    == m \notin run.manifest /\ Earlier(m)
Source(m)   == IF m \in run.manifest THEN tables[m].payload
               ELSE IF Earlier(m) THEN run.delivered[m].payload ELSE NoSource

\* verify_table, as far as it depends on anything but the payload.
MissingSub(m, content) ==
  /\ Source(m) = NoSource /\ content.sidecar = "ok"
  /\ ~ Materials[m].subs \subseteq DOMAIN run.overlay
Consistent(m, content) ==
  \A s \in Materials[m].subs : run.overlay[s].payload = Built[content.payload][s]
Passes(m, content) ==
  IF Source(m) = NoSource THEN content.sidecar = "ok" /\ content.payload \in DOMAIN Built /\ Consistent(m, content)
  ELSE content.payload = Source(m) /\ (Again(m) => content.sidecar = "ok")

TakenOver(m) ==
  {i \in DOMAIN run.sources :
     Reusable(run.sources[i], m, Here.record.files[m], run.settings, Source(m), Again(m))}

NewEntry(m) ==
  IF TakenOver(m) # {} THEN run.sources[MinOf(TakenOver(m))].tables[m]
  ELSE LET content == run.overlay[m]
       IN  Entry(Here.record.files[m], content, Source(m), Source(m) = NoSource \/ Again(m),
                 run.settings, run.open[Now], Passes(m, content))

Partial(entries) == ReportJson(entries, run.open[Now], run.settings, TRUE)

NextTable == First(DOMAIN Wanted \ DOMAIN run.entries)
Aborts(m) ==
  \/ m \in run.manifest /\ m \notin DOMAIN tables
  \/ TakenOver(m) = {} /\ MissingSub(m, run.overlay[m])

VerifyTable ==
  /\ run # None /\ run.at = "table" /\ DOMAIN run.entries # DOMAIN Wanted
  /\ IF Aborts(NextTable) THEN run' = None /\ UNCHANGED staging
     ELSE LET entries == With(run.entries, NextTable, NewEntry(NextTable))
          IN  /\ run' = [run EXCEPT !.entries = entries]
              /\ Write([Here EXCEPT !.partial = Partial(entries)])
  /\ UNCHANGED <<world, hubVars, bounds>>

\* The last report is moved away first.
MoveAside ==
  /\ run # None /\ run.at = "table" /\ DOMAIN run.entries = DOMAIN Wanted
  /\ Write([Here EXCEPT !.report = None])
  /\ Step("report")
  /\ UNCHANGED <<world, hubVars, bounds>>

WriteReport ==
  /\ run # None /\ run.at = "report"
  /\ Write([Here EXCEPT !.report = ReportJson(run.entries, run.open[Now], run.settings, Tidy(Now, run.open[Now]))])
  /\ run' = [run EXCEPT !.at = "done",
                        !.delivered = Union([m \in {m \in DOMAIN run.entries : run.entries[m].passed} |->
                                               [pr |-> Now, payload |-> run.entries[m].seen.payload]], @)]
  /\ UNCHANGED <<world, hubVars, bounds>>

\* The partial report goes; the report is posted.
Post ==
  /\ run # None /\ run.at = "done"
  /\ Write([Here EXCEPT !.partial = None])
  /\ run' = [run EXCEPT !.at = "pr", !.todo = @ \ {Now}]
  /\ UNCHANGED <<world, hubVars, bounds>>

\* The process dies; a file it was writing may be cut off.
CutOff ==
  CASE run.at = "stage" -> [Here EXCEPT !.files = Kept, !.record = NoRecord]
    [] run.at = "note" -> [Here EXCEPT !.record = NoRecord]
    [] run.at = "table" -> [Here EXCEPT !.partial = Torn]
    [] run.at = "report" -> [Here EXCEPT !.report = Torn]
    [] OTHER -> Here
Crash ==
  /\ run # None /\ bounds.crashes < MaxCrashes
  /\ run' = None
  /\ IF run.at \in {"stage", "note", "table", "report"}
       THEN staging' = staging \/ Write(CutOff)
       ELSE UNCHANGED staging
  /\ bounds' = [bounds EXCEPT !.crashes = @ + 1]
  /\ UNCHANGED <<world, hubVars>>

-----------------------------------------------------------------------------
(* Others *)

Push(p) ==
  /\ p \in Open /\ HeadOf(p) < Len(world.trees[p])
  /\ prs' = [prs EXCEPT ![p].at = @ + 1]
  /\ UNCHANGED <<world, published, tables, staging, run, bounds>>

\* accept: a report that passes the present head, and no conflict with what is published.
Accept(p) ==
  /\ p \in Open
  /\ IsReport(staging[p].report) /\ staging[p].report.pass /\ staging[p].report.head = HeadOf(p)
  /\ LET tree == Tree(p, HeadOf(p))
     IN  /\ \A m \in DOMAIN tree \cap DOMAIN published : tree[m].payload = published[m].payload
         /\ published' = Union(tree, published)
  /\ prs' = [prs EXCEPT ![p].status = "merged"]
  /\ UNCHANGED <<world, tables, staging, run, bounds>>

\* The maintainer's corpus catches up: accept's last step, or a pull.
Pull ==
  /\ tables # published
  /\ tables' = published
  /\ UNCHANGED <<world, prs, published, staging, run, bounds>>

Process == TakePr \/ Stage \/ Fetch \/ Note \/ BuildOverlay \/ VerifyTable \/ MoveAside \/ WriteReport \/ Post
Others  == Pull \/ \E p \in PRs : Push(p) \/ Accept(p)
Next    == Start \/ Process \/ Crash \/ Others
Spec    == Init /\ [][Next]_vars
-----------------------------------------------------------------------------
(* No author pushes a content of a file again that another push of theirs had replaced.
   Without it a file of the same size may be taken for the one the record names
   (verify.py:340), when a process ended between the two. *)
NeverBack ==
  \A w \in Worlds : \A p \in DOMAIN w.trees : \A h, k, l \in DOMAIN w.trees[p] :
    \A m \in DOMAIN w.trees[p][h].files \cap DOMAIN w.trees[p][k].files
                                        \cap DOMAIN w.trees[p][l].files :
      h <= k /\ k <= l /\ w.trees[p][h].files[m] = w.trees[p][l].files[m] =>
        w.trees[p][k].files[m] = w.trees[p][l].files[m]

(* What is published at first is right, and a payload that was computed from right
   sub-tables is right: no more is known of a table by the consistency checks. *)
StartsRight ==
  \A w \in Worlds : \A m \in DOMAIN w.published :
    w.published[m].payload = Right[m] /\ w.published[m].sidecar = "ok"
ComputedRight ==
  \A w \in Worlds : \A p \in DOMAIN w.trees : \A h \in DOMAIN w.trees[p] :
    \A m \in DOMAIN w.trees[p][h].files :
      LET payload == w.trees[p][h].files[m].payload
      IN  payload \in DOMAIN Built /\ (\A s \in Materials[m].subs : Built[payload][s] = Right[s]) =>
            payload = Right[m]

(* No push has a wrong sub-table beside a table that needs it: a PR's own files supply its
   sub-tables first (verify.py:251-258), and a result is taken over whatever they were then. *)
NoWrongPair ==
  \A w \in Worlds : \A p \in DOMAIN w.trees : \A h \in DOMAIN w.trees[p] :
    \A m, s \in DOMAIN w.trees[p][h].files :
      s \in Materials[m].subs => w.trees[p][h].files[s].payload = Right[s]

(* A report that passes is true to its head: it has every table of that head,
   and each result was reached on that very content and under the settings the
   report names, whichever run of which head it was reached in and however that
   run ended ("a killed run resumes from report.partial.json",
   docs/CONTRIBUTING-TABLES.md:320). *)
ReportTrue ==
  \A p \in PRs :
    LET r == staging[p].report
    IN  IsReport(r) /\ r.pass =>
          /\ DOMAIN r.tables = DOMAIN Tree(p, r.head) /\ Tidy(p, r.head)
          /\ \A m \in DOMAIN r.tables :
               /\ r.tables[m].seen = Tree(p, r.head)[m]
               /\ r.tables[m].settings = r.settings

(* "a wrong table has to be wrong consistently with its neighbours AND with
   independently published tables to pass" (consistency.py:4): what verify and
   accept let through is right, also where the sub-tables of a table came from
   other pull requests, in whatever order they were pushed, verified and
   accepted; and the sidecar published with it is the one that was probed. *)
PublishedIsRight ==
  \A m \in DOMAIN published : published[m].payload = Right[m] /\ published[m].sidecar = "ok"
=============================================================================
