------------------------------- MODULE Accept -------------------------------
(***************************************************************************)
(* helpmate-tables accept: lands verified dataset PRs on the Hub and their *)
(* credits in the repository, in steps it records in one state file per    *)
(* set of PRs.  One process runs at a time; it may end at any moment,      *)
(* also between an effect and its record, and is then started again, or a  *)
(* run of other PRs is.  Contributors push and claim, the maintainer       *)
(* verifies, and main of the repository moves meanwhile.                   *)
(* Source: contrib/{accept,hf,registry,docs_sync}.py.                      *)
(***************************************************************************)
EXTENDS Decide
SeqExt == INSTANCE SequencesExt

CONSTANTS
  Worlds,      \* [heads, pr, old, claims, published, people]: where a behaviour starts, and
               \* [runs, maxCrashes, maxChanges]: the runs, ended processes and changes in it;
               \* [overlap]: another run may start, and a PR be verified again, while a run
               \* of it is unfinished; [busy]: others commit to origin/main as well
  Runs,        \* the commands: sets of PR numbers
  Releases,    \* sets of materials --release may name
  Hands,       \* what people do by hand: "merge" a PR, "resolve" or "close" a docs PR
  Window       \* a push may land between accept's head check and the merge

ASSUME AcceptAssumption ==
  /\ Window \in BOOLEAN
  /\ \A w \in Worlds : /\ w.overlap \in BOOLEAN /\ w.busy \in BOOLEAN
                       /\ w.runs \subseteq Runs /\ w.maxCrashes \in Nat /\ w.maxChanges \in Nat
  /\ {} \in Releases
  /\ \A r \in Runs : r # {} /\ r \subseteq Nat \ {NoPr}
  /\ \A w \in Worlds :
       /\ \A m \in DOMAIN w.published : w.published[m] # None
       /\ \A n \in UNION Runs :
            /\ DOMAIN w.heads[n] = 1 .. Len(w.heads[n]) /\ Len(w.heads[n]) \in Nat \ {0}
            /\ \A v \in DOMAIN w.heads[n] :
                 \A m \in DOMAIN w.heads[n][v].files : w.heads[n][v].files[m] # None

VARIABLES
  world,      \* what the behaviour started from (see Worlds)
  \* the Hub
  status,     \* PR -> "open", "merged" or "closed"
  head,       \* PR -> its current delivery, an index of world.heads[n]
  main,       \* published material -> content, as the files of main are
  manifest,   \* the same, as manifest.json says
  card,       \* the registry the dataset card was generated from
  \* GitHub
  claims,     \* the open claims, parsed
  registry,   \* data/contributions.json on origin/main
  rev,        \* how often origin/main has moved
  docs,       \* run -> its docs PR, status and the branch as pushed
  \* the maintainer's disk
  report,     \* PR -> its last verification: delivery, result, with payload hashes or not
  staged,     \* PR -> the files staged for it: material -> content
  tables,     \* material -> content in the corpus directory
  local,      \* branch of the checkout -> its registry and, of a data branch, the base's
  branch,     \* the branch checked out
  dirty,      \* generated files lie uncommitted in the checkout
  files,      \* run -> its state file
  proc,       \* the process: its run, --release and next step
  \* history
  verified,   \* PR -> deliveries that ever passed
  told,       \* run -> comments it has posted on claims until it is over, per PR
  byHand,     \* PRs somebody merged on the Hub's page
  plan,       \* what accept --plan last said, while nothing happened since
  crashes, changes

hub == <<status, head, main, manifest, card>>
github == <<claims, registry, rev, docs>>
checkout == <<local, branch, dirty>>
disk == <<report, staged, tables>>
history == <<verified, told, byHand, plan>>
vars == <<world, hub, github, disk, checkout, files, proc, history, crashes, changes>>

Prs == UNION Runs
NoRun == {}
Main == {NoPr}   \* the maintainer's own branch; a data branch is named by its run
Idle == [run |-> NoRun, release |-> {}, at |-> "idle", pr |-> NoPr]

Delivery(n, v) == world.heads[n][v]
Materials(n, v) == DOMAIN Delivery(n, v).files

Empty == [x \in {} |-> {}]
Report(v, ok, hashed) == [head |-> v, ok |-> ok, hashed |-> hashed]
NoFile == [done |-> {"none"}]
Fresh ==
  [done |-> {}, merged |-> {}, copied |-> Empty, hand |-> {}, who |-> Empty, pulls |-> Empty,
   decided |-> Empty, heads |-> Empty, own |-> Empty, sub |-> {}, docsPr |-> FALSE,
   started |-> FALSE, original |-> NoRun, retried |-> FALSE, empty |-> FALSE, commented |-> {}]
NoPlan == [run |-> NoRun, registry |-> EmptyRegistry, actions |-> Empty]
AtRev(reg, base, r) == [registry |-> reg, base |-> base, rev |-> r]
NoDocs == [status |-> "none", pushed |-> AtRev(EmptyRegistry, EmptyRegistry, 0)]

Init ==
  /\ world \in Worlds
  /\ status = [n \in Prs |-> "open"] /\ head = [n \in Prs |-> 1]
  /\ main = world.published /\ manifest = world.published /\ tables = world.published
  /\ registry = [EmptyRegistry EXCEPT !.people = world.people] /\ card = registry
  /\ claims = world.claims
  /\ rev = 0 /\ docs = [r \in Runs |-> NoDocs]
  /\ report = [n \in Prs |-> IF n \in world.old THEN Report(1, TRUE, FALSE) ELSE Report(0, FALSE, FALSE)]
  /\ staged = [n \in Prs |-> IF n \in world.old THEN Delivery(n, 1).files ELSE Empty]
  /\ local = [b \in {Main} |-> AtRev(registry, registry, 0)] /\ branch = Main /\ dirty = FALSE
  /\ files = [r \in Runs |-> NoFile] /\ proc = Idle
  /\ verified = [n \in Prs |-> IF n \in world.old THEN {1} ELSE {}] /\ told = [r \in Runs |-> [n \in r |-> 0]]
  /\ byHand = {} /\ plan = NoPlan
  /\ crashes = 0 /\ changes = 0

-----------------------------------------------------------------------------
(* The process.  A step that writes elsewhere and then records it may end in
   between: Save is the record, or the end of the process without it. *)

run == proc.run
st == files[run]

Ends == proc' = Idle
Crash == crashes < world.maxCrashes /\ crashes' = crashes + 1 /\ Ends
Goes(at) == proc' = [proc EXCEPT !.at = at, !.pr = NoPr]

Record(s) == files' = [files EXCEPT ![run] = s]
SaveThen(s, next) ==
  \/ Record(s) /\ next /\ UNCHANGED crashes
  \/ Crash /\ UNCHANGED files
Save(s, at) == SaveThen(s, Goes(at))
Over ==
  /\ files' = [files EXCEPT ![run] = NoFile] /\ Ends
  /\ told' = [told EXCEPT ![run] = [n \in run |-> 0]] /\ plan' = NoPlan
Done(s, step) == [s EXCEPT !.done = @ \cup {step}]

\* PRs of a run whose effect on the Hub is not recorded yet.
ToDo(r, s) == r \ (s.merged \cup DOMAIN s.copied)

UnderWay(r) == files[r] # NoFile /\ DOMAIN files[r].decided # {}

Start(r, release) ==
  /\ proc = Idle /\ r \in world.runs
  /\ world.overlap \/ \A q \in Runs \ {r} : ~ UnderWay(q)
  /\ LET s == IF files[r] = NoFile THEN Fresh ELSE files[r] IN
     proc' = [run |-> r, release |-> release, pr |-> NoPr,
              at |-> IF "merge" \in s.done THEN "credits" ELSE "prepare"]
  /\ plan' = IF plan.run = r /\ release = {} THEN plan ELSE NoPlan
  /\ UNCHANGED <<world, hub, github, disk, checkout, files, verified, told, byHand, crashes, changes>>

-----------------------------------------------------------------------------
(* What accept finds out and decides before its first write (_prepare), for
   run r with state s: read-only, and so the same for accept --plan. *)

AcceptableStale(n) == report[n].head # 0 /\ report[n].ok /\ status[n] \in {"open", "merged"}
Acceptable(n) ==
  /\ report[n].head # 0 /\ report[n].ok
  /\ report[n].head = head[n]
  /\ status[n] \in {"open", "merged"}   \* merged: by hand, or before the record was made

PrOf(n) == [world.pr[n] EXCEPT !.materials = Materials(n, head[n])]
People(reg) == SeqExt!SetToSeq(reg.people)

\* Whom each PR is by, in order: an earlier PR of the run may take a key.
WhoIs(r, s) ==
  LET Who[n \in r] ==
        LET before == {k \in r : k < n}
            seen   == [key \in {Who[k].key : k \in before} |->
                         Who[MinOf({k \in before : Who[k].key = key})].github]
        IN IF n \notin ToDo(r, s) THEN s.who[n]
           ELSE Identified(PrOf(n), claims, People(local[branch].registry), None, seen)
  IN Who

Incomplete == ~ DOMAIN manifest \subseteq DOMAIN tables   \* a published sidecar is not here
Refuses(r, s) ==
  \/ dirty \/ Incomplete
  \/ \E n \in ToDo(r, s) : ~ Acceptable(n) \/ WhoIs(r, s)[n].refused

Pulls(r, s) == [n \in r |-> IF n \in ToDo(r, s) THEN head[n] ELSE s.pulls[n]]
Mats(pulls) == [n \in DOMAIN pulls |-> Materials(n, pulls[n])]
Payloads(mats) ==
  [n \in DOMAIN mats |-> [m \in mats[n] |->
     IF report[n].hashed /\ m \in Materials(n, report[n].head)
       THEN Delivery(n, report[n].head).files[m] ELSE None]]

\* Decisions stay those of the first attempt while this is as it was.
HeadsOf(r, s) ==
  [pulls |-> Pulls(r, s),
   listed |-> [m \in Delivered(Mats(Pulls(r, s))) |-> IF m \in DOMAIN manifest THEN manifest[m] ELSE None]]

Known(r, s) ==
  [s EXCEPT !.pulls = Pulls(r, s), !.who = WhoIs(r, s),
            !.hand = @ \cup {n \in ToDo(r, s) : status[n] = "merged"}]

Decided(r, s, release) ==
  LET known == Known(r, s)
      mats  == Mats(known.pulls)
      again == DOMAIN s.decided = {} \/ release # {} \/ s.heads # HeadsOf(r, s)
  IN IF ~ again THEN known
     ELSE [known EXCEPT
             !.decided = DecideAll(mats, Payloads(mats), DOMAIN manifest, tables, claims,
                                   [n \in r |-> known.who[n].github], release),
             !.own = [n \in r |-> OwnDeliveries({registry, local[branch].registry}, n, mats[n])],
             !.heads = HeadsOf(r, s)]

Conflicts(s) == {m \in DOMAIN s.decided : s.decided[m].kind = "conflict"}
ActionOf(s, n) == Action(n, Materials(n, s.pulls[n]), s.decided, s.own[n])
PubOf(s, n) == Pub(n, Materials(n, s.pulls[n]), s.decided)

\* What only shows once everything is decided.
MissingStaged(n, ms) == ms \ DOMAIN staged[n]
RefusesLate(r, s) ==
  \/ \E n \in (s.hand \cap r) \ s.merged : ActionOf(s, n) # "merge"
  \/ \E n \in ToDo(r, s) : MissingStaged(n, PubOf(s, n)) # {}

Published(r, s) == [n \in r |-> PubOf(s, n)]
RecordedOf(r, s) == [n \in r |-> Recorded(Materials(n, s.pulls[n]), s.decided, s.own[n])]
Nothing(r, s) == \A n \in r : RecordedOf(r, s)[n] = {}
Credited2(r, s, reg) == Credit(reg, r, s.who, Published(r, s), RecordedOf(r, s))

Prior(r) == IF files[r] = NoFile THEN Fresh ELSE files[r]

Prepare ==
  /\ proc.at = "prepare"
  /\ LET s == Decided(run, Prior(run), proc.release) IN
     IF Refuses(run, Prior(run)) THEN Ends /\ UNCHANGED <<files, crashes>>
     ELSE IF Conflicts(s) # {} \/ RefusesLate(run, s)
       THEN Record(Known(run, Prior(run))) /\ Ends /\ UNCHANGED crashes
     ELSE Save(s, "merge")
  /\ UNCHANGED <<world, hub, github, disk, checkout, history, changes>>

(* accept --plan: the registry and the PRs as the run would leave them. *)
PlannedHere(r) ==   \* from the checkout's registry
  LET s == IF "merge" \in Prior(r).done THEN Prior(r) ELSE Decided(r, Prior(r), {})
  IN [run |-> r, registry |-> IF Nothing(r, s) THEN registry ELSE Credited2(r, s, local[branch].registry),
      actions |-> [n \in r |-> IF n \in ToDo(r, s) THEN ActionOf(s, n) ELSE "done"]]
Planned(r) ==
  LET s == IF "merge" \in Prior(r).done THEN Prior(r) ELSE Decided(r, Prior(r), {})
  IN [run |-> r,
      registry |-> IF Nothing(r, s) THEN registry ELSE Credited2(r, s, registry),
      actions |-> [n \in r |-> IF n \in ToDo(r, s) THEN ActionOf(s, n) ELSE "done"]]
PlanAccept(r) ==
  /\ proc = Idle /\ r \in world.runs
  /\ \/ "merge" \in Prior(r).done
     \/ /\ ~ Refuses(r, Prior(r))
        /\ LET s == Decided(r, Prior(r), {}) IN Conflicts(s) = {} /\ ~ RefusesLate(r, s)
  /\ plan' = Planned(r)
  /\ UNCHANGED <<world, hub, github, disk, checkout, files, proc, verified, told, byHand, crashes, changes>>

-----------------------------------------------------------------------------
(* The merge step: one PR after the other, those that publish first. *)

NextPr ==
  LET left    == run \ st.merged
      publish == {n \in left : PubOf(st, n) # {}}
  IN MinOf(IF publish # {} THEN publish ELSE left)

Merged(s, n) == [s EXCEPT !.merged = @ \cup {n}]
Overwrite(published, contents) ==
  [m \in DOMAIN published \cup DOMAIN contents |->
     IF m \in DOMAIN contents THEN contents[m] ELSE published[m]]
Only(contents, ms) == [m \in ms |-> contents[m]]

MergesNext == proc.at = "merge" /\ st.merged # run

AllMerged ==
  /\ proc.at = "merge" /\ st.merged = run
  /\ Save(Done(st, "merge"), "credits")
  /\ UNCHANGED <<world, hub, github, disk, checkout, history, changes>>

\* A push since the verification is noticed here, at the last moment.
CheckHead ==
  /\ MergesNext
  /\ NextPr \notin DOMAIN st.copied \cup st.hand
  /\ proc' = IF head[NextPr] = st.pulls[NextPr]
               THEN [proc EXCEPT !.at = "effect", !.pr = NextPr] ELSE Idle
  /\ UNCHANGED <<world, hub, github, disk, checkout, files, history, crashes, changes>>

TakeAsMerged ==
  /\ MergesNext
  /\ NextPr \in st.hand \ DOMAIN st.copied
  /\ Save(Merged(st, NextPr), "merge")
  /\ UNCHANGED <<world, hub, github, disk, checkout, history, changes>>

Does(action) == proc.at = "effect" /\ ActionOf(st, proc.pr) = action
Now == Delivery(proc.pr, head[proc.pr]).files             \* what a merge would land
Verified == Delivery(proc.pr, st.pulls[proc.pr]).files    \* what a copy lands
Clash(contents) == \E m \in DOMAIN main \cap DOMAIN contents : main[m] # contents[m]

\* The Hub merges the PR as it is at this moment.
MergePr ==
  /\ Does("merge") /\ status[proc.pr] = "open" /\ ~ Clash(Now)
  /\ main' = Overwrite(main, Now)
  /\ status' = [status EXCEPT ![proc.pr] = "merged"]
  /\ Save(Merged(st, proc.pr), "merge")
  /\ UNCHANGED <<world, head, manifest, card, github, disk, checkout, history, changes>>

\* Or it refuses: a conflict in a table ends the process, one in .gitattributes does not.
MergeRefused ==
  /\ Does("merge")
  /\ proc' = IF Clash(Now) \/ status[proc.pr] # "open" THEN Idle ELSE [proc EXCEPT !.at = "copy"]
  /\ UNCHANGED <<world, hub, github, disk, checkout, files, history, crashes, changes>>

CopyPart ==
  /\ Does("copy_close") \/ Does("copy_open")
  /\ proc' = [proc EXCEPT !.at = "copy"]
  /\ UNCHANGED <<world, hub, github, disk, checkout, files, history, crashes, changes>>

\* merge_by_copy up to the record: one commit of the verified head's files.
CopyFiles ==
  /\ proc.at = "copy"
  /\ main' = Overwrite(main, Only(Verified, PubOf(st, proc.pr)))
  /\ SaveThen([st EXCEPT !.copied = Overwrite(@, [n \in {proc.pr} |-> ActionOf(st, n) # "copy_open"])],
              proc' = [proc EXCEPT !.at = "copied"])
  /\ UNCHANGED <<world, status, head, manifest, card, github, disk, checkout, history, changes>>

\* Its close or comment, in this process or a later one.
FinishCopyOpen ==   \* forgets to close
  /\ \/ proc.at = "copied"
     \/ MergesNext /\ NextPr \in DOMAIN st.copied
  /\ Save(Merged(st, IF proc.at = "copied" THEN proc.pr ELSE NextPr), "merge")
  /\ UNCHANGED <<world, hub, github, disk, checkout, history, changes>>
FinishCopy ==
  /\ \/ proc.at = "copied"
     \/ MergesNext /\ NextPr \in DOMAIN st.copied
  /\ LET n == IF proc.at = "copied" THEN proc.pr ELSE NextPr IN
     /\ status' = [status EXCEPT ![n] = IF st.copied[n] /\ @ = "open" THEN "closed" ELSE @]
     /\ Save(Merged(st, n), "merge")
  /\ UNCHANGED <<world, head, main, manifest, card, github, disk, checkout, history, changes>>

\* Everything held: a comment.  Everything there already: closed with thanks.
Closed(n) == status' = [status EXCEPT ![n] = "closed"]
CommentPr ==
  /\ Does("comment")
  /\ Save(Merged(st, proc.pr), "merge")
  /\ UNCHANGED <<world, hub, github, disk, checkout, history, changes>>
ClosePr ==
  /\ Does("close")
  /\ Closed(proc.pr)
  /\ Save(Merged(st, proc.pr), "merge")
  /\ UNCHANGED <<world, head, main, manifest, card, github, disk, checkout, history, changes>>

-----------------------------------------------------------------------------
(* manifest and local *)

PublishedNow == Published(run, st)
SomePublished == \E n \in run : PublishedNow[n] # {}

\* Everything held or credited before: the run is over.
NothingToRecord ==
  /\ proc.at = "credits" /\ Nothing(run, st)
  /\ Over /\ UNCHANGED crashes
  /\ UNCHANGED <<world, hub, github, disk, checkout, verified, byHand, changes>>

WriteManifestAll ==   \* and what the run only holds
  /\ proc.at = "credits" /\ ~ Nothing(run, st) /\ "manifest" \notin st.done
  /\ LET Of(m) == CHOOSE n \in run : m \in Materials(n, st.pulls[n]) IN
     manifest' = Overwrite([m \in DOMAIN st.decided |-> Delivery(Of(m), st.pulls[Of(m)]).files[m]], main)
  /\ Save(Done(st, "manifest"), "local")
  /\ UNCHANGED <<world, status, head, main, card, github, disk, checkout, history, changes>>
ManifestFromHub == main   \* rebuilt from main's files
WriteManifest ==
  /\ proc.at = "credits" /\ ~ Nothing(run, st)
  /\ IF "manifest" \in st.done THEN Goes("local") /\ UNCHANGED <<manifest, files, crashes>>
     ELSE /\ manifest' = IF SomePublished THEN ManifestFromHub ELSE manifest
          /\ Save(Done(st, "manifest"), "local")
  /\ UNCHANGED <<world, status, head, main, card, github, disk, checkout, history, changes>>

\* The published files move from staging to the corpus, where they still are there.
MoveLocal ==
  /\ proc.at = "local"
  /\ IF "local" \in st.done THEN Goes("docs") /\ UNCHANGED <<staged, tables, files, crashes>>
     ELSE LET moves(n) == PublishedNow[n] \cap DOMAIN staged[n]
              moved == {n \in run : moves(n) # {}}
              From(m) == CHOOSE n \in moved : m \in moves(n) IN
          /\ tables' = Overwrite(tables, [m \in UNION {moves(n) : n \in moved} |-> staged[From(m)][m]])
          /\ staged' = [n \in Prs |-> IF n \in moved
                          THEN Only(staged[n], DOMAIN staged[n] \ moves(n)) ELSE staged[n]]
          /\ Save(Done(st, "local"), "docs")
  /\ UNCHANGED <<world, hub, github, report, checkout, history, changes>>

-----------------------------------------------------------------------------
(* docs: the registry is credited on a branch from origin/main, pushed, and
   merged by a PR once its checks have passed. *)

DocsStep == proc.at = "docs" /\ "docs" \notin st.done
Started(s) == [s EXCEPT !.started = TRUE, !.original = IF s.started THEN @ ELSE branch]
After == Credited2(run, st, registry)
OnBranch(reg) == local' = Overwrite(local, [b \in {run} |-> AtRev(reg, registry, rev)])

DocsDone ==
  /\ proc.at = "docs" /\ "docs" \in st.done
  /\ Goes("card")
  /\ UNCHANGED <<world, hub, github, disk, checkout, files, history, crashes, changes>>

DocsDirtyOwn ==   \* not even what a run of its own left
  /\ DocsStep /\ "committed" \notin st.sub
  /\ dirty
  /\ Ends
  /\ UNCHANGED <<world, hub, github, disk, checkout, files, history, crashes, changes>>
\* Somebody else's changes are never thrown away.
DocsDirty ==
  /\ DocsStep /\ "committed" \notin st.sub
  /\ dirty /\ ~ st.started
  /\ Ends
  /\ UNCHANGED <<world, hub, github, disk, checkout, files, history, crashes, changes>>

DocsStarts == DocsStep /\ "committed" \notin st.sub /\ (st.started \/ ~ dirty)

\* A rerun whose deliveries are all credited already.
DocsEmpty ==
  /\ DocsStarts
  /\ ~ HasLines(registry, After, run, PublishedNow, RecordedOf(run, st))
  /\ Started(st).original \in DOMAIN local
  /\ OnBranch(registry) /\ branch' = Started(st).original /\ dirty' = FALSE
  /\ Save(Done([Started(st) EXCEPT !.empty = TRUE], "docs"), "card")
  /\ UNCHANGED <<world, hub, github, disk, history, changes>>

(* Everything generated anew from origin/main and committed.  Ends half-way if
   a published sidecar is missing here (another run has not moved it yet). *)
DocsCommit ==
  /\ DocsStarts
  /\ HasLines(registry, After, run, PublishedNow, RecordedOf(run, st))
  /\ branch' = run /\ OnBranch(After)
  /\ \/ /\ ~ Incomplete
        /\ dirty' = FALSE
        /\ Record([Started(st) EXCEPT !.sub = {"committed"}]) /\ Goes("docs") /\ UNCHANGED crashes
     \/ /\ Incomplete
        /\ dirty' = TRUE /\ Record(Started(st)) /\ Ends /\ UNCHANGED crashes
     \/ Crash /\ dirty' \in BOOLEAN /\ Record(Started(st))
  /\ UNCHANGED <<world, hub, github, disk, history, changes>>

DocsPush ==
  /\ DocsStep /\ st.sub = {"committed"} /\ ~ st.docsPr
  /\ docs' = [docs EXCEPT ![run].pushed = local[run]]
  /\ Save([st EXCEPT !.sub = @ \cup {"pushed"}], "docs")
  /\ UNCHANGED <<world, hub, claims, registry, rev, disk, checkout, history, changes>>

\* An open PR of the branch is found again.
DocsOpen ==
  /\ DocsStep /\ "pushed" \in st.sub /\ ~ st.docsPr
  /\ docs' = [docs EXCEPT ![run].status = "open"]
  /\ Save([st EXCEPT !.docsPr = TRUE], "docs")
  /\ UNCHANGED <<world, hub, claims, registry, rev, disk, checkout, history, changes>>

(* Back on the maintainer's branch the docs PR is merged, if it was not; then
   its branch is deleted. *)
Lands == DocsStep /\ st.docsPr /\ st.original \in DOMAIN local
Landed == registry' = ThreeWay(docs[run].pushed.base, registry, docs[run].pushed.registry) /\ rev' = rev + 1
DocsLand ==
  /\ Lands /\ docs[run].status \in {"open", "merged"}
  /\ branch' = st.original
  /\ IF docs[run].status = "open" THEN Landed ELSE UNCHANGED <<registry, rev>>
  /\ docs' = [docs EXCEPT ![run].status = "merged"]
  /\ local' = Only(local, DOMAIN local \ {run}) /\ UNCHANGED dirty
  /\ Save(Done(st, "docs"), "card")
  /\ UNCHANGED <<world, hub, claims, disk, history, changes>>

\* main moved underneath it: closed and redone from there, but only once.
DocsConflict ==
  /\ Lands
  /\ \/ docs[run].status = "closed"
     \/ docs[run].status = "open" /\ docs[run].pushed.rev # rev
  /\ branch' = st.original
  /\ IF st.retried THEN Ends /\ UNCHANGED <<docs, files, crashes>>
     ELSE /\ docs' = [docs EXCEPT ![run].status = "closed"]
          /\ Save([st EXCEPT !.retried = TRUE, !.sub = {}, !.docsPr = FALSE], "docs")
  /\ UNCHANGED <<world, hub, claims, registry, rev, disk, local, dirty, history, changes>>

-----------------------------------------------------------------------------
(* card and claims *)

WriteCard ==
  /\ proc.at = "card"
  /\ IF st.empty \/ "card" \in st.done THEN Goes("claims") /\ UNCHANGED <<card, files, crashes>>
     ELSE card' = registry /\ Save(Done(st, "card"), "claims")   \* main's card, as it is now
  /\ UNCHANGED <<world, status, head, main, manifest, github, disk, checkout, history, changes>>

ToTell ==
  {n \in run : /\ ~ st.empty
               /\ st.who[n].claim # NoNumber /\ RecordedOf(run, st)[n] # {}
               /\ n \notin st.commented}
TellClaimForgotten ==
  /\ proc.at = "claims" /\ ToTell # {}
  /\ told' = [told EXCEPT ![run][MinOf(ToTell)] = IF @ < 3 THEN @ + 1 ELSE @]
  /\ Save(st, "claims")
  /\ UNCHANGED <<world, hub, github, disk, checkout, verified, byHand, plan, changes>>
TellClaim ==
  /\ proc.at = "claims" /\ ToTell # {}
  /\ told' = [told EXCEPT ![run][MinOf(ToTell)] = IF @ < 3 THEN @ + 1 ELSE @]
  /\ Save([st EXCEPT !.commented = @ \cup {MinOf(ToTell)}], "claims")
  /\ UNCHANGED <<world, hub, github, disk, checkout, verified, byHand, plan, changes>>

Unfinished == {c \in claims : c.materials = {} \/ ~ c.materials \subseteq DOMAIN manifest}
\* close_finished_claims, and the run is over.
CloseClaims ==
  /\ proc.at = "claims" /\ ToTell = {}
  /\ claims' = IF st.empty THEN claims ELSE Unfinished
  /\ \/ Over /\ UNCHANGED crashes
     \/ Crash /\ UNCHANGED <<files, told, plan>>
  /\ UNCHANGED <<world, hub, registry, rev, docs, disk, checkout, verified, byHand, changes>>

Killed ==
  /\ proc # Idle /\ Crash
  /\ UNCHANGED <<world, hub, github, disk, checkout, files, history, changes>>

Step ==
  \/ Prepare
  \/ AllMerged \/ CheckHead \/ TakeAsMerged \/ MergePr \/ MergeRefused
  \/ CopyPart \/ CopyFiles \/ FinishCopy \/ CommentPr \/ ClosePr
  \/ NothingToRecord \/ WriteManifest \/ MoveLocal
  \/ DocsDone \/ DocsDirty \/ DocsEmpty \/ DocsCommit \/ DocsPush \/ DocsOpen
  \/ DocsLand \/ DocsConflict
  \/ WriteCard \/ TellClaim \/ CloseClaims

-----------------------------------------------------------------------------
(* The world: contributors, claimants, the maintainer's other work. *)

Change == changes < world.maxChanges /\ changes' = changes + 1 /\ plan' = NoPlan

Push(n) ==
  /\ Change
  /\ status[n] = "open" /\ head[n] < Len(world.heads[n])
  /\ Window \/ proc.at \notin {"effect", "copy"}
  /\ head' = [head EXCEPT ![n] = @ + 1]
  /\ UNCHANGED <<world, status, main, manifest, card, github, disk, checkout, files, proc,
                 verified, told, byHand, crashes>>

\* Everything is checked and staged anew (module Verify has its steps).
Verify(n) ==
  /\ status[n] = "open"
  /\ world.overlap \/ \A r \in Runs : n \in r /\ UnderWay(r) => n \in ToDo(r, files[r])
  /\ LET d == Delivery(n, head[n]) IN
     /\ report' = [report EXCEPT ![n] = Report(head[n], d.good, TRUE)]
     /\ staged' = [staged EXCEPT ![n] = d.files]
     /\ verified' = [verified EXCEPT ![n] = IF d.good THEN @ \cup {head[n]} ELSE @]
  /\ plan' = NoPlan
  /\ UNCHANGED <<world, hub, github, tables, checkout, files, proc, told, byHand, crashes, changes>>

\* Somebody withdraws a claim, or opens one.
WithdrawClaim(c) ==
  /\ Change
  /\ claims' = claims \ {c}
  /\ UNCHANGED <<world, hub, registry, rev, docs, disk, checkout, files, proc, verified, told, byHand, crashes>>

(* Another commit on origin/main (one that comes before the docs PR is open is
   met where the PR is merged, too), or the maintainer's git pull. *)
OtherCommit ==
  /\ world.busy
  /\ \E r \in Runs : docs[r].status = "open" /\ docs[r].pushed.rev = rev
  /\ rev' = rev + 1 /\ plan' = NoPlan
  /\ UNCHANGED <<world, hub, claims, registry, docs, disk, checkout, files, proc, verified, told, byHand,
                 crashes, changes>>
Pull ==
  /\ proc = Idle /\ branch = Main /\ ~ dirty /\ local[Main].registry # registry
  /\ local' = [local EXCEPT ![Main].registry = registry]
  /\ plan' = NoPlan
  /\ UNCHANGED <<world, hub, github, disk, branch, dirty, files, proc, verified, told, byHand, crashes, changes>>

\* The maintainer has changes of their own in the checkout, and commits them.
NoneStarted == \A r \in Runs : files[r] # NoFile => ~ files[r].started
Edit ==
  /\ "edit" \in Hands /\ Change
  /\ NoneStarted /\ branch = Main /\ dirty' = TRUE
  /\ UNCHANGED <<world, hub, github, disk, local, branch, files, proc, verified, told, byHand, crashes>>
CleanUp ==
  /\ dirty /\ NoneStarted /\ dirty' = FALSE
  /\ plan' = NoPlan
  /\ UNCHANGED <<world, hub, github, disk, local, branch, files, proc, verified, told, byHand, crashes, changes>>

\* helpmate-tables pull: "point --tables at a complete corpus".
PullTables ==
  /\ Incomplete
  /\ tables' = Overwrite(tables, manifest)
  /\ plan' = NoPlan
  /\ UNCHANGED <<world, hub, github, report, staged, checkout, files, proc, verified, told, byHand, crashes, changes>>

\* On the Hub's page (what had passed), and on GitHub's after a second conflict.
MergeByHand(n) ==
  /\ "merge" \in Hands /\ Change
  /\ status[n] = "open" /\ head[n] \in verified[n] /\ ~ Clash(Delivery(n, head[n]).files)
  /\ main' = Overwrite(main, Delivery(n, head[n]).files)
  /\ byHand' = byHand \cup {n}
  /\ status' = [status EXCEPT ![n] = "merged"]
  /\ UNCHANGED <<world, head, manifest, card, github, disk, checkout, files, proc, verified, told, crashes>>
ResolveDocs(r) ==
  /\ "resolve" \in Hands
  /\ docs[r].status = "open" /\ files[r] # NoFile /\ files[r].retried
  /\ registry' = ThreeWay(docs[r].pushed.base, registry, docs[r].pushed.registry) /\ rev' = rev + 1
  /\ docs' = [docs EXCEPT ![r].status = "merged"]
  /\ plan' = NoPlan
  /\ UNCHANGED <<world, hub, claims, disk, checkout, files, proc, verified, told, byHand, crashes, changes>>
CloseDocs(r) ==
  /\ "close" \in Hands
  /\ proc = Idle /\ docs[r].status = "open" /\ files[r] # NoFile /\ files[r].retried
  /\ docs' = [docs EXCEPT ![r].status = "closed"]
  /\ plan' = NoPlan
  /\ UNCHANGED <<world, hub, claims, registry, rev, disk, checkout, files, proc, verified, told, byHand,
                 crashes, changes>>

Outside ==
  \/ \E n \in Prs : Push(n) \/ Verify(n) \/ MergeByHand(n)
  \/ \E c \in claims : WithdrawClaim(c)
  \/ \E r \in Runs : ResolveDocs(r) \/ CloseDocs(r) \/ PlanAccept(r)
  \/ OtherCommit \/ Pull \/ PullTables \/ Edit \/ CleanUp

Next == Step \/ Killed \/ Outside \/ \E r \in Runs, release \in Releases : Start(r, release)

(* A process goes on: every Step changes proc or files, and one is possible
   whenever there is a process (so this is WF_vars(Step)).  Whoever ran accept
   runs it again until it is through, verifies what it asks for and resolves
   what it reports. *)
GoesOn == []<>(proc = Idle) \/ []<><<TRUE>>_<<proc, files>>
Spec == Init /\ [][Next]_vars /\ GoesOn /\ WF_vars(PullTables) /\ WF_vars(CleanUp)
             /\ \A n \in Prs : WF_vars(Verify(n))
             /\ \A r \in Runs : WF_vars(ResolveDocs(r)) /\ SF_vars(Start(r, {}))
-----------------------------------------------------------------------------
TypeOK ==
  /\ status \in [Prs -> {"open", "merged", "closed"}]
  /\ \A n \in Prs : head[n] \in DOMAIN world.heads[n]
  /\ \A r \in Runs : files[r] # NoFile =>
       /\ files[r].merged \cup files[r].hand \cup DOMAIN files[r].copied \subseteq r
       /\ files[r].done \subseteq {"merge", "manifest", "local", "docs", "card"}
       /\ files[r].sub \subseteq {"committed", "pushed"}
       /\ DOMAIN files[r].decided \subseteq Delivered(Mats(files[r].pulls))
  /\ proc.run \in Runs \cup {NoRun} /\ proc.pr \in proc.run \cup {NoPr}
  /\ branch \in DOMAIN local /\ DOMAIN local \subseteq Runs \cup {Main}
  /\ told \in [Runs -> UNION {[r -> 0 .. 3] : r \in Runs}]

\* A delivery of m by PR n, passed by verify, is what main has.
Matches(m, n) ==
  \E v \in verified[n] : m \in Materials(n, v) /\ Delivery(n, v).files[m] = main[m]

(* "accept: merge verified dataset PRs" (accept.py:1): every published table was
   published before, or is some PR's delivery that verify had passed. *)
OnlyVerified ==
  \A m \in DOMAIN main :
    \/ m \in DOMAIN world.published /\ main[m] = world.published[m]
    \/ \E n \in Prs : Matches(m, n)

(* Whoever the registry credits for a table, as its source or as a producer,
   delivered exactly the published content, and verify had passed it; and the
   "producer key of the published tables that are not contributions"
   (accept.py:38), the maintainer, is credited for no contributor's table, but for
   what came in with a PR that somebody merged by hand. *)
CreditTrue ==
  /\ \A f \in {<<g[1], g[3]>> : g \in registry.by} \cup registry.from :
       f[2] # NoPr => f[1] \in DOMAIN main /\ Matches(f[1], f[2])
  /\ \A m \in Tables(registry) : <<m, Maintainer, NoPr>> \in registry.by =>
       m \in DOMAIN world.published \/ \E n \in byHand : m \in Materials(n, head[n])

(* Clients check downloads against the manifest: it never names a file or a hash
   that main does not have, whichever runs are unfinished.  And "the public card
   must not credit a failed docs PR" (accept.py:896). *)
PublicTrue ==
  /\ \A m \in DOMAIN manifest : m \in DOMAIN main /\ manifest[m] = main[m]
  /\ card.by \subseteq registry.by

(* "a table that is already published is never replaced"
   (docs/CONTRIBUTING-TABLES.md:189). *)
NeverReplaced == [][\A m \in DOMAIN manifest : main'[m] = main[m] /\ manifest'[m] = manifest[m]]_vars

(* "A claim still protects new material" (docs/CONTRIBUTING-TABLES.md:196): one open
   from the start and never withdrawn keeps its material off main, but for its holder's
   own delivery, whatever accept does.  That holds of a confirm: delivery too, of which
   .github/ISSUE_TEMPLATE/claim.yml:16 says that it "is never held": accept.py:324-330
   and rule 4 make no exception for one, and this is their side. *)
HeldStays ==
  [][\A m \in DOMAIN main' \ DOMAIN main :
       LET c == ClaimFor(claims \cap world.claims, m) IN
       changes' = changes /\ proc.release = {} /\ c # NoClaim /\ ClaimFor(world.claims, m) = c
         => \E n \in Prs : /\ m \in Materials(n, head[n]) /\ world.pr[n].login # None
                           /\ Same(world.pr[n].login, c.author)]_vars

(* A finished run has landed all it recorded: the credits are on origin/main, the
   manifest and the corpus directory have the files, no PR without held material
   is left open. *)
Completes ==
  [][\A r \in Runs :
       files[r] # NoFile /\ files'[r] = NoFile =>
         LET s == files[r] IN
         \A n \in r : \A m \in RecordedOf(r, s)[n] :
           /\ <<m, s.who[n].key, n>> \in registry.by
           /\ m \in DOMAIN manifest \cap DOMAIN tables /\ tables[m] = main[m]
           /\ status[n] = "open" => \E k \in Materials(n, s.pulls[n]) : s.decided[k].kind = "held"]_vars

(* "print what `accept` would do" (accept.py:975): unless something happens in
   between, the run leaves the credits and the PRs as the plan said, even if it
   was interrupted before or after. *)
PlanKept ==
  [][\A r \in Runs :
       plan.run = r /\ files[r] # NoFile /\ files'[r] = NoFile =>
         /\ registry = plan.registry
         /\ \A n \in r :
              CASE plan.actions[n] = "merge" -> status[n] # "open"
                [] plan.actions[n] \in {"copy_close", "close"} -> status[n] = "closed"
                [] plan.actions[n] \in {"copy_open", "comment"} -> status[n] = "open"
                [] OTHER -> TRUE]_vars

(* While a run lasts it repeats a comment on a claim only if a process ended before its
   record. *)
ToldOnce == \A r \in Runs : \A n \in r : told[r][n] <= 1 + crashes

(* "a rerun after a failure (network, CI) resumes where it stopped" (accept.py:3):
   once the merge step is done, the run gets through, unless its second docs PR is
   closed by hand. *)
GivenUp(r) == files[r].retried /\ files[r].docsPr /\ docs[r].status = "closed"
GetsThrough ==
  \A r \in Runs : (files[r] # NoFile /\ "merge" \in files[r].done)
                     ~> (files[r] = NoFile \/ GivenUp(r))
=============================================================================
