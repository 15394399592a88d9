---------------------------- MODULE AcceptProofs ----------------------------
(***************************************************************************)
(* Proofs about accept, for any PRs, deliveries, claims and runs of it:    *)
(* what it publishes was verified, the manifest names nothing else, what   *)
(* the manifest names is never replaced, a credit is for what is           *)
(* published, a run that ends has landed what it recorded, and what is     *)
(* claimed stays off main.                                                 *)
(***************************************************************************)
EXTENDS Accept, FiniteSetTheorems, TLAPS
WF == INSTANCE WellFoundedInduction

-----------------------------------------------------------------------------
\* The inductive invariant.

FileFields == {"done", "merged", "copied", "hand", "who", "pulls", "decided", "heads", "own", "sub",
               "docsPr", "started", "original", "retried", "empty", "commented"}

\* What some PRs bring at some deliveries, in a world w.
Brought(w, pulls) == UNION {DOMAIN w.heads[n][pulls[n]].files : n \in DOMAIN pulls}

\* A file was decided to be published when the manifest did not have it, as its heads say.
DecisionsAre(w, s) ==
  DOMAIN s.decided # {} =>
    /\ DOMAIN s.decided = Brought(w, s.heads.pulls)
    /\ \A m \in DOMAIN s.decided : s.decided[m].from # NoPr => s.heads.listed[m] = None

\* The docs PR is of what is pushed, and what is pushed was committed.
InOrder(docsPr, sub) == ("pushed" \in sub => "committed" \in sub) /\ (docsPr => "pushed" \in sub)

(* A run's state file: its PRs at deliveries that had passed, its decisions, and how far its
   docs PR is. *)
FileIs(w, ver, r, s) ==
  /\ s = [f \in FileFields |-> s[f]]
  /\ DOMAIN s.pulls = r /\ s.merged \subseteq r
  /\ \A n \in r : s.pulls[n] \in ver[n]
  /\ DecisionsAre(w, s)
  /\ InOrder(s.docsPr, s.sub)
FilesAre ==
  /\ files = [r \in Runs |-> files[r]]
  /\ \A r \in Runs : files[r] # NoFile => FileIs(world, verified, r, files[r])

\* A branch that is to be pushed is there.
Pushable == \A r \in Runs : files[r] # NoFile /\ files[r].sub = {"committed"} => r \in DOMAIN local

\* Only what is delivered is verified, and a report that passes is of a verified delivery.
HeadsAre ==
  /\ head = [n \in Prs |-> head[n]] /\ verified = [n \in Prs |-> verified[n]]
  /\ report = [n \in Prs |-> report[n]]
  /\ \A n \in Prs :
       /\ head[n] \in DOMAIN world.heads[n] /\ verified[n] \subseteq DOMAIN world.heads[n]
       /\ report[n].head # 0 /\ report[n].ok => report[n].head \in verified[n]

ProcFields == {"run", "release", "at", "pr"}
Merging == {"merge", "effect", "copy", "copied"}
\* A run that merges has decided on the deliveries it merges, and publishes nothing again.
Ready(w, listed, s) ==
  /\ DOMAIN s.decided = Brought(w, s.pulls)
  /\ \A m \in DOMAIN s.decided : s.decided[m].from # NoPr => m \notin listed
ProcIs ==
  /\ proc = [f \in ProcFields |-> proc[f]]
  /\ proc.at # "idle" => run \in Runs
  /\ proc.at \notin {"idle", "prepare"} => st # NoFile
  /\ proc.at \in {"effect", "copy", "copied"} => proc.pr \in run
  /\ proc.at \in Merging => Ready(world, DOMAIN manifest, st)
  /\ ~ Window /\ proc.at = "effect" => head[proc.pr] = st.pulls[proc.pr]

Contents == \A m \in DOMAIN main : main[m] # None

\* A branch of the registry takes no credit away.
BranchFields == {"registry", "base", "rev"}
Keeps(b) == b = [f \in BranchFields |-> b[f]] /\ b.base.by \subseteq b.registry.by
Branches ==
  /\ \A b \in DOMAIN local : Keeps(local[b])
  /\ Main \in DOMAIN local /\ local[Main].base.by = {}
DocsAre ==
  /\ docs = [r \in Runs |-> docs[r]]
  /\ \A r \in Runs : /\ docs[r] = [f \in {"status", "pushed"} |-> docs[r][f]]
                     /\ Keeps(docs[r].pushed)

IInv ==
  /\ world \in Worlds /\ HeadsAre /\ FilesAre /\ Pushable /\ ProcIs
  /\ Contents /\ Branches /\ DocsAre /\ PublicTrue

-----------------------------------------------------------------------------
\* Facts about records and files.

(* A state file is not the absence of one. *)
LEMMA FileIsSome ==
  ASSUME NEW s, s = [f \in FileFields |-> s[f]]
  PROVE  s # NoFile
<1>1. "sub" \in DOMAIN s
  BY DEF FileFields
<1>2. DOMAIN NoFile = {"done"}
  BY DEF NoFile
<1> QED  BY <1>1, <1>2

(* What of a state file matters here: its deliveries, decisions and how far its docs are. *)
LEMMA FileLike ==
  ASSUME NEW w, NEW ver, NEW r, NEW s, FileIs(w, ver, r, s), NEW t, t = [f \in FileFields |-> t[f]],
         t.pulls = s.pulls, t.decided = s.decided, t.heads = s.heads,
         InOrder(t.docsPr, t.sub), t.merged \subseteq r
  PROVE  FileIs(w, ver, r, t)
BY DEF FileIs, DecisionsAre

(* Fields that a step of the merge and of what follows it changes. *)
LEMMA DoneIs ==
  ASSUME NEW w, NEW ver, NEW r, NEW s, FileIs(w, ver, r, s), NEW x
  PROVE  LET t == Done(s, x)
         IN  FileIs(w, ver, r, t) /\ t.pulls = s.pulls /\ t.decided = s.decided /\ t.sub = s.sub
<1> DEFINE t == Done(s, x)
<1>1. s = [f \in FileFields |-> s[f]] /\ InOrder(s.docsPr, s.sub)
     /\ s.merged \subseteq r
  BY DEF FileIs
<1>2. t = [s EXCEPT !.done = s.done \cup {x}]
  BY DEF Done
<1>3. /\ t = [f \in FileFields |-> t[f]] /\ t.pulls = s.pulls /\ t.decided = s.decided
      /\ t.sub = s.sub /\ t.heads = s.heads /\ t.docsPr = s.docsPr /\ t.merged = s.merged
  <2> HIDE DEF t
  <2> QED  BY <1>1, <1>2 DEF FileFields
<1> HIDE DEF t
<1>4. InOrder(t.docsPr, t.sub) /\ t.merged \subseteq r
  BY <1>1, <1>3
<1> QED  BY <1>3, <1>4, FileLike DEF t

(* So does the record that a PR is dealt with. *)
LEMMA MergedIs ==
  ASSUME NEW w, NEW ver, NEW r, NEW s, FileIs(w, ver, r, s), NEW n \in r
  PROVE  LET t == Merged(s, n)
         IN  FileIs(w, ver, r, t) /\ t.pulls = s.pulls /\ t.decided = s.decided /\ t.sub = s.sub
<1> DEFINE t == Merged(s, n)
<1>1. s = [f \in FileFields |-> s[f]] /\ InOrder(s.docsPr, s.sub)
     /\ s.merged \subseteq r
  BY DEF FileIs
<1>2. t = [s EXCEPT !.merged = s.merged \cup {n}]
  BY DEF Merged
<1>3. /\ t = [f \in FileFields |-> t[f]] /\ t.pulls = s.pulls /\ t.decided = s.decided
      /\ t.sub = s.sub /\ t.heads = s.heads /\ t.docsPr = s.docsPr
      /\ t.merged = s.merged \cup {n}
  <2> HIDE DEF t
  <2> QED  BY <1>1, <1>2 DEF FileFields
<1> HIDE DEF t
<1>4. InOrder(t.docsPr, t.sub) /\ t.merged \subseteq r
  BY <1>1, <1>3
<1> QED  BY <1>3, <1>4, FileLike DEF t

(* The record [st EXCEPT !.at = at, !.pr = NoPr] of Goes. *)
LEMMA GoesIs ==
  ASSUME proc = [f \in ProcFields |-> proc[f]], NEW at, Goes(at)
  PROVE  /\ proc' = [f \in ProcFields |-> proc'[f]]
         /\ proc'.run = proc.run /\ proc'.at = at /\ proc'.pr = NoPr
BY DEF Goes, ProcFields

(* A process that has ended. *)
LEMMA IdleIs ==
  /\ Idle = [f \in ProcFields |-> Idle[f]] /\ Idle.at = "idle"
BY DEF Idle, ProcFields

-----------------------------------------------------------------------------
\* What a step does to the state files and to the process.

(* A process that ends leaves nothing to be said of it, whatever else happens. *)
LEMMA EndsProc ==
  ASSUME Ends
  PROVE  ProcIs'
<1>1. proc' = [f \in ProcFields |-> proc'[f]] /\ proc'.at = "idle"
  BY IdleIs DEF Ends
<1> QED  BY <1>1 DEF ProcIs, Merging

(* State files that no step touches stay as they are, while deliveries that had passed
   stay verified. *)
LEMMA SameFiles ==
  ASSUME FilesAre, world' = world, files' = files,
         \A n \in Prs : verified[n] \subseteq verified'[n]
  PROVE  FilesAre'
<1> SUFFICES ASSUME NEW r \in Runs, files'[r] # NoFile
             PROVE  FileIs(world, verified', r, files'[r])
  BY DEF FilesAre
<1>1. FileIs(world, verified, r, files[r])
  BY DEF FilesAre
<1>2. r \subseteq Prs
  BY DEF Prs
<1> QED  BY <1>1, <1>2 DEF FileIs

(* A step that records s for the run. *)
LEMMA RecordsFile ==
  ASSUME FilesAre, world' = world, verified' = verified, run \in Runs,
         NEW s, FileIs(world, verified, run, s), Record(s)
  PROVE  FilesAre' /\ files'[run] = s /\ s # NoFile
         /\ \A r \in Runs \ {run} : files'[r] = files[r]
<1>1. /\ files' = [r \in Runs |-> files'[r]] /\ files'[run] = s
      /\ \A r \in Runs \ {run} : files'[r] = files[r]
  BY DEF Record, FilesAre
<1>2. s # NoFile
  BY FileIsSome DEF FileIs
<1>3. ASSUME NEW r \in Runs, files'[r] # NoFile
      PROVE  FileIs(world, verified', r, files'[r])
  BY <1>1, <1>3 DEF FilesAre
<1> QED  BY <1>1, <1>2, <1>3 DEF FilesAre

(* A step that forgets the run's file. *)
LEMMA ForgetsFile ==
  ASSUME FilesAre, Pushable, world' = world, verified' = verified, run \in Runs,
         files' = [files EXCEPT ![run] = NoFile], DOMAIN local \subseteq DOMAIN local'
  PROVE  FilesAre' /\ Pushable'
<1>1. files' = [r \in Runs |-> files'[r]] /\ files'[run] = NoFile
  BY DEF FilesAre
<1>2. \A r \in Runs \ {run} : files'[r] = files[r]
  BY DEF FilesAre
<1>3. ASSUME NEW r \in Runs, files'[r] # NoFile
      PROVE  FileIs(world, verified', r, files'[r])
  BY <1>1, <1>2, <1>3 DEF FilesAre
<1>4. Pushable'
  BY <1>1, <1>2 DEF Pushable
<1> QED  BY <1>1, <1>3, <1>4 DEF FilesAre

(* A step that ends with a record, or with the end of the process before it: the branches
   of other runs are left alone, and whoever merges stays ready to. *)
LEMMA Saves ==
  ASSUME FilesAre, Pushable, ProcIs, world' = world, verified' = verified, proc.at # "idle",
         NEW s, FileIs(world, verified, run, s), NEW at, at \notin {"idle", "prepare", "effect", "copy", "copied"},
         Save(s, at),
         \A r \in Runs \ {run} : r \in DOMAIN local => r \in DOMAIN local',
         s.sub = {"committed"} => run \in DOMAIN local',
         st # NoFile /\ st.sub = {"committed"} => run \in DOMAIN local',
         at = "merge" => Ready(world, DOMAIN manifest, s) /\ manifest' = manifest
  PROVE  FilesAre' /\ Pushable' /\ ProcIs'
<1>1. run \in Runs /\ proc = [f \in ProcFields |-> proc[f]]
  BY DEF ProcIs
<1>2. CASE Record(s) /\ Goes(at)
  <2>1. /\ FilesAre' /\ files'[run] = s /\ s # NoFile
        /\ \A r \in Runs \ {run} : files'[r] = files[r]
    BY <1>1, <1>2, RecordsFile
  <2>2. Pushable'
    BY <2>1 DEF Pushable
  <2>3. /\ proc' = [f \in ProcFields |-> proc'[f]]
        /\ proc'.run = run /\ proc'.at = at
    BY <1>1, <1>2, GoesIs DEF run
  <2>4. run' = run /\ st' = s
    BY <2>1, <2>3 DEF run, st
  <2>5. at = "merge" => Ready(world, DOMAIN manifest', st')
    BY <2>4
  <2>6. ProcIs'
    BY <1>1, <2>1, <2>3, <2>4, <2>5 DEF ProcIs, Merging
  <2> QED  BY <2>1, <2>2, <2>6
<1>3. CASE Ends /\ files' = files
  <2>1. Pushable'
    BY <1>3 DEF Pushable, st, run
  <2> QED  BY <1>3, <2>1, EndsProc, SameFiles
<1> QED  BY <1>2, <1>3 DEF Save, SaveThen, Crash

(* Most records keep the docs PR, the deliveries and the decisions as they are. *)
LEMMA SavesOn ==
  ASSUME FilesAre, Pushable, ProcIs, world' = world, verified' = verified, local' = local,
         proc.at \notin {"idle", "prepare"},
         NEW s, FileIs(world, verified, run, s), s.sub = st.sub, s.pulls = st.pulls, s.decided = st.decided,
         NEW at, at \notin {"idle", "prepare", "effect", "copy", "copied"}, Save(s, at),
         at = "merge" => proc.at \in Merging /\ manifest' = manifest
  PROVE  FilesAre' /\ Pushable' /\ ProcIs'
<1>1. run \in Runs /\ st # NoFile
  BY DEF ProcIs
<1>2. st.sub = {"committed"} => run \in DOMAIN local
  BY <1>1 DEF Pushable, st
<1>3. at = "merge" => Ready(world, DOMAIN manifest, s)
  BY DEF ProcIs, Ready
<1> QED  BY <1>1, <1>2, <1>3, Saves

(* A step that only goes on, to a later phase. *)
LEMMA GoesOnly ==
  ASSUME FilesAre, Pushable, ProcIs, world' = world, verified' = verified, local' = local,
         files' = files, proc.at \notin {"idle", "prepare"},
         NEW at, at \notin Merging \cup {"idle", "prepare"}, Goes(at)
  PROVE  FilesAre' /\ Pushable' /\ ProcIs'
<1>1. run \in Runs /\ st # NoFile /\ proc = [f \in ProcFields |-> proc[f]]
  BY DEF ProcIs
<1>2. FilesAre' /\ Pushable'
  BY SameFiles DEF Pushable
<1>3. proc' = [f \in ProcFields |-> proc'[f]] /\ proc'.run = run /\ proc'.at = at
  BY <1>1, GoesIs DEF run
<1>4. run' = run /\ st' = st
  BY <1>3 DEF run, st
<1>5. ProcIs'
  BY <1>1, <1>3, <1>4 DEF ProcIs, Merging
<1> QED  BY <1>2, <1>5

-----------------------------------------------------------------------------
\* Prepare: what the run decides.

(* The materials of some deliveries. *)
LEMMA DeliveredIs ==
  ASSUME NEW pulls
  PROVE  /\ Delivered(Mats(pulls)) = Brought(world, pulls)
         /\ DOMAIN Mats(pulls) = DOMAIN pulls
<1>1. /\ DOMAIN Mats(pulls) = DOMAIN pulls
      /\ \A n \in DOMAIN pulls : Mats(pulls)[n] = DOMAIN world.heads[n][pulls[n]].files
  BY DEF Mats, Materials, Delivery
<1> QED  BY <1>1 DEF Delivered, Brought

(* Only a file the manifest does not have is published (_decide_one). *)
LEMMA PublishesNew ==
  ASSUME NEW ns, NEW m, NEW pays, NEW published, NEW hashes, NEW index, NEW logins, NEW release,
         DecideOne(ns, m, pays, published, hashes, index, logins, release).from # NoPr
  PROVE  m \notin published
<1>1. Conflict.from = NoPr /\ Decision("reproduction", NoPr, ns, NoNumber).from = NoPr
  BY DEF Conflict, Decision
<1>2. SUFFICES ASSUME m \in published
               PROVE  DecideOne(ns, m, pays, published, hashes, index, logins, release).from = NoPr
  OBVIOUS
<1>3. CASE Incomparable(ns, m, pays, published)
  <2>1. DecideOne(ns, m, pays, published, hashes, index, logins, release) = Conflict
    BY <1>2, <1>3 DEF DecideOne
  <2> QED  BY <1>1, <2>1
<1>4. CASE ~ Incomparable(ns, m, pays, published)
  <2>1. \/ DecideOne(ns, m, pays, published, hashes, index, logins, release) = Conflict
        \/ DecideOne(ns, m, pays, published, hashes, index, logins, release)
             = Decision("reproduction", NoPr, ns, NoNumber)
    BY <1>2, <1>4 DEF DecideOne
  <2> QED  BY <1>1, <2>1
<1> QED  BY <1>3, <1>4

(* A state file that has decided nothing. *)
LEMMA FreshIs ==
  ASSUME NEW r
  PROVE  /\ Fresh = [f \in FileFields |-> Fresh[f]] /\ Fresh.merged = {}
         /\ ToDo(r, Fresh) = r /\ DOMAIN Fresh.decided = {}
         /\ Fresh.docsPr = FALSE /\ Fresh.sub = {}
BY DEF Fresh, FileFields, ToDo, Empty

(* What Prepare starts from: the run's file, or none of its PRs dealt with. *)
PriorIs(w, ver, r, s) ==
  /\ s = [f \in FileFields |-> s[f]] /\ s.merged \subseteq r
  /\ \A n \in r \ ToDo(r, s) : s.pulls[n] \in ver[n]
  /\ DecisionsAre(w, s)
  /\ InOrder(s.docsPr, s.sub)

(* It is one of the two. *)
LEMMA PriorHolds ==
  ASSUME FilesAre, NEW r \in Runs
  PROVE  /\ PriorIs(world, verified, r, Prior(r))
         /\ \/ Prior(r) = files[r] /\ files[r] # NoFile
            \/ Prior(r).sub = {}
<1>1. CASE files[r] = NoFile
  <2>1. Prior(r) = Fresh
    BY <1>1 DEF Prior
  <2> QED  BY <2>1, FreshIs DEF PriorIs, DecisionsAre, InOrder
<1>2. CASE files[r] # NoFile
  <2>1. Prior(r) = files[r] /\ FileIs(world, verified, r, files[r])
    BY <1>2 DEF Prior, FilesAre
  <2> QED  BY <1>2, <2>1 DEF PriorIs, FileIs
<1> QED  BY <1>1, <1>2

(* The deliveries of a run that is not refused have passed: those still to be dealt with
   are what their last report says, the others are those of the first attempt. *)
LEMMA PullsPassed ==
  ASSUME HeadsAre, NEW r \in Runs, NEW s, PriorIs(world, verified, r, s), ~ Refuses(r, s)
  PROVE  /\ Pulls(r, s) = [n \in r |-> Pulls(r, s)[n]]
         /\ \A n \in r : Pulls(r, s)[n] \in verified[n]
<1>1. r \subseteq Prs
  BY DEF Prs
<1>2. ASSUME NEW n \in r, n \in ToDo(r, s)
      PROVE  head[n] \in verified[n]
  <2>1. Acceptable(n)
    BY <1>2 DEF Refuses
  <2> QED  BY <1>1, <2>1 DEF Acceptable, HeadsAre
<1>3. \A n \in r : Pulls(r, s)[n] = IF n \in ToDo(r, s) THEN head[n] ELSE s.pulls[n]
  BY DEF Pulls
<1>4. \A n \in r : Pulls(r, s)[n] \in verified[n]
  BY <1>2, <1>3 DEF PriorIs
<1> QED  BY <1>4 DEF Pulls

(* Known changes the deliveries only, of what is followed here. *)
LEMMA KnownIs ==
  ASSUME NEW r, NEW s, s = [f \in FileFields |-> s[f]]
  PROVE  LET t == Known(r, s)
         IN  /\ t = [f \in FileFields |-> t[f]] /\ t.pulls = Pulls(r, s)
             /\ t.decided = s.decided /\ t.heads = s.heads /\ t.sub = s.sub /\ t.docsPr = s.docsPr
             /\ t.merged = s.merged
<1> DEFINE t == Known(r, s)
           hand == s.hand \cup {n \in ToDo(r, s) : status[n] = "merged"}
<1>1. t = [s EXCEPT !.pulls = Pulls(r, s), !.who = WhoIs(r, s), !.hand = hand]
  BY DEF Known
<1> HIDE DEF t, hand
<1>2. /\ t = [f \in FileFields |-> t[f]] /\ t.pulls = Pulls(r, s)
      /\ t.decided = s.decided /\ t.heads = s.heads /\ t.sub = s.sub /\ t.docsPr = s.docsPr
      /\ t.merged = s.merged
  BY <1>1 DEF FileFields
<1> QED  BY <1>2 DEF t

(* What the manifest lists of some deliveries; a content is never nothing. *)
LEMMA ListedIs ==
  ASSUME Contents, PublicTrue, NEW r, NEW s
  PROVE  /\ HeadsOf(r, s).pulls = Pulls(r, s)
         /\ \A m \in Brought(world, Pulls(r, s)) :
              HeadsOf(r, s).listed[m] = None <=> m \notin DOMAIN manifest
<1>1. /\ HeadsOf(r, s).pulls = Pulls(r, s)
      /\ \A m \in Delivered(Mats(Pulls(r, s))) :
           HeadsOf(r, s).listed[m] = IF m \in DOMAIN manifest THEN manifest[m] ELSE None
  BY DEF HeadsOf
<1>2. \A m \in DOMAIN manifest : manifest[m] # None
  BY DEF Contents, PublicTrue
<1>3. Delivered(Mats(Pulls(r, s))) = Brought(world, Pulls(r, s))
  BY DeliveredIs
<1> QED  BY <1>1, <1>2, <1>3

(* The decisions a run goes on with, the ones it made before or new ones, are about exactly
   what it delivers now, and publish nothing that the manifest has. *)
LEMMA DecidedIs ==
  ASSUME Contents, PublicTrue, HeadsAre, NEW r \in Runs, NEW s,
         PriorIs(world, verified, r, s), ~ Refuses(r, s), NEW release
  PROVE  LET t == Decided(r, s, release)
         IN  /\ FileIs(world, verified, r, t) /\ Ready(world, DOMAIN manifest, t)
             /\ t.sub = s.sub
<1> DEFINE known == Known(r, s)
           mats == Mats(known.pulls)
           again == DOMAIN s.decided = {} \/ release # {} \/ s.heads # HeadsOf(r, s)
           pays == Payloads(mats)
           logins == [n \in r |-> known.who[n].github]
           d == DecideAll(mats, pays, DOMAIN manifest, tables, claims, logins, release)
           o == [n \in r |-> OwnDeliveries({registry, local[branch].registry}, n, mats[n])]
           t == Decided(r, s, release)
<1>1. /\ known = [f \in FileFields |-> known[f]] /\ known.pulls = Pulls(r, s)
      /\ known.decided = s.decided /\ known.heads = s.heads /\ known.sub = s.sub
      /\ known.docsPr = s.docsPr /\ known.merged = s.merged
  BY KnownIs DEF PriorIs
<1>2. DOMAIN known.pulls = r /\ \A n \in r : known.pulls[n] \in verified[n]
  BY <1>1, PullsPassed
<1>3. InOrder(known.docsPr, known.sub) /\ known.merged \subseteq r
  BY <1>1 DEF PriorIs
<1>4. Delivered(mats) = Brought(world, known.pulls)
  BY DeliveredIs
<1>5. t = IF ~ again THEN known ELSE [known EXCEPT !.decided = d, !.own = o, !.heads = HeadsOf(r, s)]
  BY DEF Decided
<1>6. CASE ~ again
  <2>1. t = known /\ DOMAIN s.decided # {} /\ s.heads = HeadsOf(r, s)
    BY <1>5, <1>6
  <2>2. s.heads.pulls = Pulls(r, s)
    BY <2>1, ListedIs
  <2>3. DOMAIN s.decided = Brought(world, Pulls(r, s))
    BY <2>1, <2>2 DEF PriorIs, DecisionsAre
  <2>4. \A m \in DOMAIN s.decided : s.decided[m].from # NoPr => m \notin DOMAIN manifest
    <3>1. \A m \in DOMAIN s.decided : s.decided[m].from # NoPr => HeadsOf(r, s).listed[m] = None
      BY <2>1 DEF PriorIs, DecisionsAre
    <3> QED  BY <2>3, <3>1, ListedIs
  <2>5. Ready(world, DOMAIN manifest, known)
    <3> HIDE DEF known
    <3> QED  BY <1>1, <2>3, <2>4 DEF Ready
  <2>6. FileIs(world, verified, r, known)
    <3>1. DecisionsAre(world, known)
      <4> HIDE DEF known
      <4> QED  BY <1>1 DEF PriorIs, DecisionsAre
    <3> HIDE DEF known
    <3> QED  BY <1>1, <1>2, <1>3, <3>1 DEF FileIs
  <2> QED  BY <1>1, <2>1, <2>5, <2>6
<1>7. CASE again
  <2>1. t = [known EXCEPT !.decided = d, !.own = o, !.heads = HeadsOf(r, s)]
    BY <1>5, <1>7
  <2>2. /\ DOMAIN d = Delivered(mats)
        /\ \A m \in DOMAIN d :
             d[m] = DecideOne(DeliveriesOf(mats, m), m, pays, DOMAIN manifest, tables, claims, logins, release)
    BY DEF DecideAll
  <2>3. \A m \in DOMAIN d : d[m].from # NoPr => m \notin DOMAIN manifest
    <3> HIDE DEF pays, logins, mats, d
    <3> QED  BY <2>2, PublishesNew
  <2> HIDE DEF known, t, d, o, mats, again
  <2>4. /\ t = [f \in FileFields |-> t[f]] /\ t.pulls = known.pulls
        /\ t.decided = d /\ t.heads = HeadsOf(r, s) /\ t.sub = known.sub /\ t.docsPr = known.docsPr
        /\ t.merged = known.merged
    <3>1. known = [f \in FileFields |-> known[f]]
      BY <1>1
    <3> DEFINE h == HeadsOf(r, s)
    <3> HIDE DEF h
    <3>2. t = [known EXCEPT !.decided = d, !.own = o, !.heads = h]
      BY <2>1 DEF h
    <3>3. /\ t = [f \in FileFields |-> t[f]] /\ t.pulls = known.pulls
          /\ t.decided = d /\ t.heads = h /\ t.sub = known.sub /\ t.docsPr = known.docsPr
          /\ t.merged = known.merged
      BY <3>1, <3>2 DEF FileFields
    <3> QED  BY <3>3 DEF h
  <2>5. DOMAIN d = Brought(world, Pulls(r, s))
    BY <1>1, <1>4, <2>2
  <2>6. Ready(world, DOMAIN manifest, t)
    BY <1>1, <2>3, <2>4, <2>5 DEF Ready
  <2>7. DecisionsAre(world, t)
    BY <2>3, <2>4, <2>5, ListedIs DEF DecisionsAre
  <2>8. FileIs(world, verified, r, t)
    BY <1>2, <1>3, <2>4, <2>7 DEF FileIs
  <2> QED  BY <1>1, <2>4, <2>6, <2>8 DEF t
<1> QED  BY <1>6, <1>7

(* Known of a run that is not refused is still a state file. *)
LEMMA KnownFile ==
  ASSUME HeadsAre, NEW r \in Runs, NEW s, PriorIs(world, verified, r, s), ~ Refuses(r, s)
  PROVE  FileIs(world, verified, r, Known(r, s)) /\ Known(r, s).sub = s.sub
<1> DEFINE t == Known(r, s)
<1>1. /\ t = [f \in FileFields |-> t[f]] /\ t.pulls = Pulls(r, s)
      /\ t.decided = s.decided /\ t.heads = s.heads /\ t.sub = s.sub /\ t.docsPr = s.docsPr
     /\ t.merged = s.merged
  BY KnownIs DEF PriorIs
<1> HIDE DEF t
<1>2. DOMAIN t.pulls = r /\ \A n \in r : t.pulls[n] \in verified[n]
  BY <1>1, PullsPassed
<1>3. DecisionsAre(world, t) /\ InOrder(t.docsPr, t.sub) /\ t.merged \subseteq r
  BY <1>1 DEF PriorIs, DecisionsAre
<1> QED  BY <1>1, <1>2, <1>3 DEF FileIs, t

(* Prepare writes nothing but the run's state. *)
LEMMA PrepareKeeps ==
  ASSUME FilesAre, Pushable, ProcIs, Contents, PublicTrue, HeadsAre, Prepare
  PROVE  FilesAre' /\ Pushable' /\ ProcIs'
<1>1. proc.at = "prepare" /\ UNCHANGED <<world, hub, checkout, verified>>
  BY DEF Prepare, history
<1>2. run \in Runs
  BY <1>1 DEF ProcIs
<1>3. UNCHANGED <<world, verified, local, manifest>>
  BY <1>1 DEF hub, checkout
<1> DEFINE s == Prior(run)
           t == Decided(run, s, proc.release)
<1>4. /\ PriorIs(world, verified, run, s)
      /\ \/ s = files[run] /\ files[run] # NoFile
         \/ s.sub = {}
  BY <1>2, PriorHolds
<1>5. s.sub = {"committed"} => run \in DOMAIN local'
  BY <1>2, <1>3, <1>4 DEF Pushable
<1>6. st # NoFile /\ st.sub = {"committed"} => run \in DOMAIN local'
  BY <1>2, <1>3 DEF Pushable, st
<1>7. CASE Refuses(run, s)
  <2>1. Ends /\ files' = files
    BY <1>1, <1>7 DEF Prepare
  <2> QED  BY <1>3, <2>1, EndsProc, SameFiles DEF Pushable
<1>8. CASE ~ Refuses(run, s) /\ (Conflicts(t) # {} \/ RefusesLate(run, t))
  <2>1. Record(Known(run, s)) /\ Ends
    BY <1>8 DEF Prepare
  <2>2. FileIs(world, verified, run, Known(run, s)) /\ Known(run, s).sub = s.sub
    BY <1>2, <1>4, <1>8, KnownFile
  <2>3. /\ FilesAre' /\ files'[run] = Known(run, s)
        /\ \A r \in Runs \ {run} : files'[r] = files[r]
    BY <1>2, <1>3, <2>1, <2>2, RecordsFile
  <2>4. Pushable'
    BY <1>3, <1>5, <2>2, <2>3 DEF Pushable
  <2> QED  BY <2>1, <2>3, <2>4, EndsProc
<1>9. CASE ~ Refuses(run, s) /\ ~ (Conflicts(t) # {} \/ RefusesLate(run, t))
  <2>1. Save(t, "merge")
    BY <1>9 DEF Prepare
  <2>2. FileIs(world, verified, run, t) /\ Ready(world, DOMAIN manifest, t) /\ t.sub = s.sub
    BY <1>2, <1>4, <1>9, DecidedIs
  <2> HIDE DEF t, s
  <2> QED  BY <1>1, <1>3, <1>5, <1>6, <2>1, <2>2, Saves
<1> QED  BY <1>7, <1>8, <1>9

-----------------------------------------------------------------------------
\* Steps that change nothing but the state file, the process, staging and the like.

(* The parts of the invariant about what such a step leaves alone. *)
LEMMA Elsewhere ==
  ASSUME IInv, FilesAre', Pushable', ProcIs',
         UNCHANGED <<world, head, main, manifest, card, registry, docs, report, verified, local>>
  PROVE  IInv'
BY DEF IInv, HeadsAre, Contents, Branches, DocsAre, PublicTrue

-----------------------------------------------------------------------------
\* The merge step.

(* A set of numbers that is not empty has a least one, which MinOf returns. *)
LEMMA MinOfIn ==
  ASSUME NEW T \in SUBSET Nat, T # {}
  PROVE  MinOf(T) \in T
<1>1. WF!IsWellFoundedOn(WF!OpToRel(<, Nat), Nat)
  BY WF!NatLessThanWellFounded
<1>2. PICK m \in T : \A n \in T : ~ (<<n, m>> \in WF!OpToRel(<, Nat))
  BY <1>1, WF!WFMin
<1>3. \A n \in T : ~ (n < m)
  BY <1>2 DEF WF!OpToRel
<1>4. \E k \in T : \A n \in T : k <= n
  BY <1>3
<1> QED  BY <1>4 DEF MinOf

(* The next PR of the merge step is a PR of the run. *)
LEMMA NextIs ==
  ASSUME FilesAre, ProcIs, MergesNext
  PROVE  NextPr \in run
<1>1. run \in Runs /\ st # NoFile
  BY DEF MergesNext, ProcIs
<1>2. st.merged \subseteq run /\ st.merged # run
  BY <1>1 DEF MergesNext, FilesAre, FileIs, st
<1>3. run \subseteq Nat
  BY <1>1, AcceptAssumption
<1> DEFINE left == run \ st.merged
           publish == {n \in left : PubOf(st, n) # {}}
           T == IF publish # {} THEN publish ELSE left
<1>4. T \subseteq run /\ T # {}
  BY <1>2
<1>5. NextPr = MinOf(T)
  BY DEF NextPr
<1> HIDE DEF T
<1> QED  BY <1>3, <1>4, <1>5, MinOfIn

(* The run's file, while it merges. *)
LEMMA RunIs ==
  ASSUME FilesAre, ProcIs, proc.at \notin {"idle", "prepare"}
  PROVE  /\ run \in Runs /\ st # NoFile /\ FileIs(world, verified, run, st)
         /\ files' = files => files' = [files EXCEPT ![run] = st]
         /\ proc = [f \in ProcFields |-> proc[f]]
<1>1. run \in Runs /\ st # NoFile /\ proc = [f \in ProcFields |-> proc[f]]
  BY DEF ProcIs
<1>2. FileIs(world, verified, run, st)
  BY <1>1 DEF FilesAre, st
<1>3. files = [files EXCEPT ![run] = files[run]]
  BY <1>1 DEF FilesAre
<1> QED  BY <1>1, <1>2, <1>3 DEF st

(* From one merging step to the next, about a PR of the run. *)
LEMMA MergesOn ==
  ASSUME FilesAre, Pushable, ProcIs, proc.at \in Merging,
         UNCHANGED <<world, verified, local, manifest, head>>,
         NEW s, FileIs(world, verified, run, s), s.sub = st.sub, s.pulls = st.pulls,
         s.decided = st.decided, Record(s),
         NEW at \in {"effect", "copy", "copied"}, NEW n \in run,
         proc' = [proc EXCEPT !.at = at, !.pr = n],
         at = "effect" => head[n] = st.pulls[n]
  PROVE  FilesAre' /\ Pushable' /\ ProcIs'
<1>1. run \in Runs /\ st # NoFile /\ proc = [f \in ProcFields |-> proc[f]]
  BY DEF ProcIs, Merging
<1>2. /\ FilesAre' /\ files'[run] = s /\ s # NoFile
      /\ \A r \in Runs \ {run} : files'[r] = files[r]
  BY <1>1, RecordsFile
<1>3. Pushable'
  BY <1>1, <1>2 DEF Pushable, st
<1>4. /\ proc' = [f \in ProcFields |-> proc'[f]]
      /\ proc'.run = run /\ proc'.at = at /\ proc'.pr = n
  BY <1>1 DEF ProcFields, run
<1>5. run' = run /\ st' = s
  BY <1>2, <1>4 DEF run, st
<1>6. Ready(world, DOMAIN manifest, s)
  BY DEF ProcIs, Ready
<1>7. ProcIs'
  BY <1>1, <1>2, <1>4, <1>5, <1>6 DEF ProcIs
<1> QED  BY <1>2, <1>3, <1>7

(* The end of the process, its files as they were. *)
LEMMA EndsOnly ==
  ASSUME FilesAre, Pushable, Ends, UNCHANGED <<world, verified, local, files>>
  PROVE  FilesAre' /\ Pushable' /\ ProcIs'
BY EndsProc, SameFiles DEF Pushable

(* The check of a PR's head. *)
LEMMA CheckHeadKeeps ==
  ASSUME IInv, CheckHead
  PROVE  IInv'
<1>1. FilesAre /\ Pushable /\ ProcIs /\ proc.at = "merge"
  BY DEF IInv, CheckHead, MergesNext
<1>2. UNCHANGED <<world, head, main, manifest, card, registry, docs, report, verified, local, files>>
  BY DEF CheckHead, hub, github, disk, checkout, history
<1>3. NextPr \in run
  BY <1>1, NextIs DEF CheckHead
<1>4. CASE head[NextPr] = st.pulls[NextPr]
  <2>1. proc' = [proc EXCEPT !.at = "effect", !.pr = NextPr]
    BY <1>4 DEF CheckHead
  <2>2. /\ FileIs(world, verified, run, st) /\ Record(st)
    BY <1>1, <1>2, RunIs DEF Record
  <2>3. FilesAre' /\ Pushable' /\ ProcIs'
    BY <1>1, <1>2, <1>3, <1>4, <2>1, <2>2, MergesOn DEF Merging
  <2> QED  BY <1>2, <2>3, Elsewhere
<1>5. CASE head[NextPr] # st.pulls[NextPr]
  <2>1. Ends
    BY <1>5 DEF CheckHead, Ends
  <2> QED  BY <1>1, <1>2, <2>1, EndsOnly, Elsewhere
<1> QED  BY <1>4, <1>5

(* Steps to the copy. *)
LEMMA ToCopyKeeps ==
  ASSUME IInv, MergeRefused \/ CopyPart
  PROVE  IInv'
<1>1. FilesAre /\ Pushable /\ ProcIs /\ proc.at = "effect"
  BY DEF IInv, MergeRefused, CopyPart, Does
<1>2. UNCHANGED <<world, head, main, manifest, card, registry, docs, report, verified, local, files>>
  BY DEF MergeRefused, CopyPart, hub, github, disk, checkout, history
<1>3. proc.pr \in run /\ proc = [f \in ProcFields |-> proc[f]]
  BY <1>1 DEF ProcIs
<1>4. CASE Ends
  BY <1>1, <1>2, <1>4, EndsOnly, Elsewhere
<1>5. CASE proc' = [proc EXCEPT !.at = "copy"]
  <2>1. proc' = [proc EXCEPT !.at = "copy", !.pr = proc.pr]
    BY <1>3, <1>5 DEF ProcFields
  <2>2. FileIs(world, verified, run, st) /\ Record(st)
    BY <1>1, <1>2, RunIs DEF Record
  <2>3. FilesAre' /\ Pushable' /\ ProcIs'
    BY <1>1, <1>2, <1>3, <2>1, <2>2, MergesOn DEF Merging
  <2> QED  BY <1>2, <2>3, Elsewhere
<1> QED  BY <1>4, <1>5 DEF MergeRefused, CopyPart, Ends

(* Steps that only record that a PR is dealt with, or all of them. *)
LEMMA DealsKeeps ==
  ASSUME IInv, AllMerged \/ TakeAsMerged \/ FinishCopy \/ CommentPr \/ ClosePr
  PROVE  IInv'
<1>1. FilesAre /\ Pushable /\ ProcIs /\ proc.at \in Merging
  BY DEF IInv, AllMerged, TakeAsMerged, FinishCopy, CommentPr, ClosePr, Does, MergesNext, Merging
<1>2. UNCHANGED <<world, head, main, manifest, card, registry, docs, report, verified, local>>
  BY DEF AllMerged, TakeAsMerged, FinishCopy, CommentPr, ClosePr, hub, github, disk, checkout, history
<1>3. FileIs(world, verified, run, st)
  BY <1>1, RunIs DEF Merging
<1>4. CASE AllMerged
  <2>1. Save(Done(st, "merge"), "credits")
    BY <1>4 DEF AllMerged
  <2>2. LET t == Done(st, "merge")
        IN  FileIs(world, verified, run, t) /\ t.pulls = st.pulls /\ t.decided = st.decided /\ t.sub = st.sub
    BY <1>3, DoneIs
  <2>3. FilesAre' /\ Pushable' /\ ProcIs'
    BY <1>1, <1>2, <2>1, <2>2, SavesOn DEF Merging
  <2> QED  BY <1>2, <2>3, Elsewhere
<1>5. CASE TakeAsMerged \/ FinishCopy \/ CommentPr \/ ClosePr
  <2>1. PICK n \in run : Save(Merged(st, n), "merge")
    <3>1. CASE TakeAsMerged
      BY <1>1, <3>1, NextIs DEF TakeAsMerged
    <3>2. CASE FinishCopy
      BY <1>1, <3>2, NextIs DEF FinishCopy, ProcIs
    <3>3. CASE CommentPr \/ ClosePr
      BY <1>1, <3>3 DEF CommentPr, ClosePr, Does, ProcIs
    <3> QED  BY <1>5, <3>1, <3>2, <3>3
  <2>2. LET t == Merged(st, n)
        IN  FileIs(world, verified, run, t) /\ t.pulls = st.pulls /\ t.decided = st.decided /\ t.sub = st.sub
    BY <1>3, MergedIs
  <2>3. FilesAre' /\ Pushable' /\ ProcIs'
    BY <1>1, <1>2, <2>1, <2>2, SavesOn DEF Merging
  <2> QED  BY <1>2, <2>3, Elsewhere
<1> QED  BY <1>4, <1>5

-----------------------------------------------------------------------------
\* Steps that land files on main.

(* What a delivery has is something. *)
LEMMA DeliveryIs ==
  ASSUME world \in Worlds, NEW n \in Prs, NEW v \in DOMAIN world.heads[n]
  PROVE  \A m \in DOMAIN Delivery(n, v).files : Delivery(n, v).files[m] # None
<1>1. n \in UNION Runs
  BY DEF Prs
<1> QED  BY <1>1, AcceptAssumption DEF Delivery

(* Landed contents that agree with main wherever the manifest names a file replace none of
   those, and the manifest stays true. *)
LEMMA Landing ==
  ASSUME Contents, PublicTrue, NEW c, \A m \in DOMAIN c : c[m] # None,
         \A m \in DOMAIN manifest \cap DOMAIN c : c[m] = main[m],
         main' = Overwrite(main, c), UNCHANGED <<manifest, card, registry>>
  PROVE  /\ Contents' /\ PublicTrue'
         /\ \A m \in DOMAIN manifest : main'[m] = main[m]
<1>1. /\ DOMAIN main' = DOMAIN main \cup DOMAIN c
      /\ \A m \in DOMAIN main' : main'[m] = IF m \in DOMAIN c THEN c[m] ELSE main[m]
  BY DEF Overwrite
<1>2. \A m \in DOMAIN manifest : m \in DOMAIN main'
  BY <1>1 DEF PublicTrue
<1>3. \A m \in DOMAIN manifest : main'[m] = main[m]
  BY <1>1, <1>2
<1>4. Contents'
  BY <1>1 DEF Contents
<1> QED  BY <1>2, <1>3, <1>4 DEF PublicTrue

(* What a merge of a PR as it is would land, where it does not clash with main. *)
LEMMA NoClash ==
  ASSUME PublicTrue, NEW c, ~ Clash(c)
  PROVE  \A m \in DOMAIN manifest \cap DOMAIN c : c[m] = main[m]
BY DEF PublicTrue, Clash

(* The Hub merges a PR of a run. *)
LEMMA MergePrLands ==
  ASSUME IInv, MergePr
  PROVE  IInv' /\ \A m \in DOMAIN manifest : main'[m] = main[m]
<1>1. FilesAre /\ Pushable /\ ProcIs /\ HeadsAre /\ Contents /\ PublicTrue /\ proc.at = "effect"
  BY DEF IInv, MergePr, Does
<1>2. UNCHANGED <<world, head, manifest, card, registry, docs, report, verified, local>>
  BY DEF MergePr, github, disk, checkout, history
<1>3. proc.pr \in run /\ FileIs(world, verified, run, st) /\ run \in Runs
  BY <1>1, RunIs DEF ProcIs
<1>4. proc.pr \in Prs
  BY <1>3 DEF Prs
<1>5. \A m \in DOMAIN Now : Now[m] # None
  BY <1>1, <1>4, DeliveryIs DEF IInv, HeadsAre, Now
<1>6. /\ Contents' /\ PublicTrue'
      /\ \A m \in DOMAIN manifest : main'[m] = main[m]
  <2>1. ~ Clash(Now) /\ main' = Overwrite(main, Now)
    BY DEF MergePr
  <2>2. \A m \in DOMAIN manifest \cap DOMAIN Now : Now[m] = main[m]
    BY <1>1, <2>1, NoClash
  <2> QED  BY <1>1, <1>2, <1>5, <2>1, <2>2, Landing
<1>7. FilesAre' /\ Pushable' /\ ProcIs'
  <2>1. Save(Merged(st, proc.pr), "merge")
    BY DEF MergePr
  <2>2. LET t == Merged(st, proc.pr)
        IN  FileIs(world, verified, run, t) /\ t.pulls = st.pulls /\ t.decided = st.decided /\ t.sub = st.sub
    BY <1>3, MergedIs
  <2> QED  BY <1>1, <1>2, <2>1, <2>2, SavesOn DEF Merging
<1> QED  BY <1>1, <1>2, <1>6, <1>7 DEF IInv, HeadsAre, Branches, DocsAre

(* The record that a PR's files are copied. *)
LEMMA CopiedIs ==
  ASSUME NEW w, NEW ver, NEW r, NEW s, FileIs(w, ver, r, s), NEW c
  PROVE  LET t == [s EXCEPT !.copied = c]
         IN  FileIs(w, ver, r, t) /\ t.pulls = s.pulls /\ t.decided = s.decided /\ t.sub = s.sub
<1> DEFINE t == [s EXCEPT !.copied = c]
<1>1. s = [f \in FileFields |-> s[f]] /\ InOrder(s.docsPr, s.sub) /\ s.merged \subseteq r
  BY DEF FileIs
<1>2. /\ t = [f \in FileFields |-> t[f]] /\ t.pulls = s.pulls /\ t.decided = s.decided
      /\ t.sub = s.sub /\ t.heads = s.heads /\ t.docsPr = s.docsPr /\ t.merged = s.merged
  BY <1>1 DEF FileFields
<1> HIDE DEF t
<1>3. InOrder(t.docsPr, t.sub) /\ t.merged \subseteq r
  BY <1>1, <1>2
<1> QED  BY <1>2, <1>3, FileLike DEF t

(* What a copy lands: files of the delivery that had passed which the run decided to publish
   and the manifest does not have. *)
LEMMA CopyIs ==
  ASSUME IInv, proc.at = "copy"
  PROVE  LET c == Only(Verified, PubOf(st, proc.pr))
         IN  /\ DOMAIN c \subseteq DOMAIN Verified
             /\ \A m \in DOMAIN c : c[m] = Verified[m] /\ c[m] # None /\ m \notin DOMAIN manifest
<1>1. FilesAre /\ ProcIs /\ HeadsAre /\ world \in Worlds
  BY DEF IInv
<1>2. proc.pr \in run /\ FileIs(world, verified, run, st) /\ run \in Runs
  BY <1>1, RunIs DEF ProcIs
<1>3. proc.pr \in Prs /\ st.pulls[proc.pr] \in DOMAIN world.heads[proc.pr]
  BY <1>1, <1>2 DEF Prs, FileIs, HeadsAre
<1>4. \A m \in DOMAIN Verified : Verified[m] # None
  BY <1>1, <1>3, DeliveryIs DEF Verified
<1>5. Ready(world, DOMAIN manifest, st)
  BY <1>1 DEF ProcIs, Merging
<1>6. DOMAIN Verified \subseteq DOMAIN st.decided
  <2>1. DOMAIN st.pulls = run
    BY <1>2 DEF FileIs
  <2> QED  BY <1>2, <1>5, <2>1 DEF Ready, Brought, Verified, Delivery
<1>7. PubOf(st, proc.pr) = {m \in DOMAIN Verified : st.decided[m].from = proc.pr}
  BY DEF PubOf, Pub, Materials, Verified
<1>8. proc.pr # NoPr
  BY <1>2, AcceptAssumption
<1>9. \A m \in PubOf(st, proc.pr) : m \in DOMAIN Verified /\ m \notin DOMAIN manifest
  BY <1>5, <1>6, <1>7, <1>8 DEF Ready
<1> QED  BY <1>4, <1>9 DEF Only

(* merge_by_copy. *)
LEMMA CopyFilesLands ==
  ASSUME IInv, CopyFiles
  PROVE  IInv' /\ \A m \in DOMAIN manifest : main'[m] = main[m]
<1>1. FilesAre /\ Pushable /\ ProcIs /\ HeadsAre /\ Contents /\ PublicTrue /\ proc.at = "copy"
  BY DEF IInv, CopyFiles
<1>2. UNCHANGED <<world, head, manifest, card, registry, docs, report, verified, local>>
  BY DEF CopyFiles, github, disk, checkout, history
<1>3. proc.pr \in run /\ FileIs(world, verified, run, st) /\ proc = [f \in ProcFields |-> proc[f]]
  BY <1>1, RunIs DEF ProcIs
<1>4. /\ Contents' /\ PublicTrue'
      /\ \A m \in DOMAIN manifest : main'[m] = main[m]
  <2> DEFINE c == Only(Verified, PubOf(st, proc.pr))
  <2>1. main' = Overwrite(main, c)
    BY DEF CopyFiles
  <2>2. \A m \in DOMAIN c : c[m] # None /\ m \notin DOMAIN manifest
    BY <1>1, CopyIs
  <2> HIDE DEF c
  <2> QED  BY <1>1, <1>2, <2>1, <2>2, Landing
<1>5. FilesAre' /\ Pushable' /\ ProcIs'
  <2> DEFINE c == Overwrite(st.copied, [n \in {proc.pr} |-> ActionOf(st, n) # "copy_open"])
             t == [st EXCEPT !.copied = c]
  <2>1. SaveThen(t, proc' = [proc EXCEPT !.at = "copied"])
    BY DEF CopyFiles
  <2> HIDE DEF c
  <2>2. FileIs(world, verified, run, t) /\ t.pulls = st.pulls /\ t.decided = st.decided /\ t.sub = st.sub
    BY <1>3, CopiedIs
  <2> HIDE DEF t
  <2>3. CASE Record(t) /\ proc' = [proc EXCEPT !.at = "copied"]
    <3>1. proc' = [proc EXCEPT !.at = "copied", !.pr = proc.pr]
      BY <1>3, <2>3 DEF ProcFields
    <3> QED  BY <1>1, <1>2, <1>3, <2>2, <2>3, <3>1, MergesOn DEF Merging
  <2>4. CASE Ends /\ files' = files
    BY <1>1, <1>2, <2>4, EndsOnly
  <2> QED  BY <2>1, <2>3, <2>4 DEF SaveThen, Crash
<1> QED  BY <1>1, <1>2, <1>4, <1>5 DEF IInv, HeadsAre, Branches, DocsAre

(* Somebody merges a PR on the Hub's page. *)
LEMMA MergeByHandLands ==
  ASSUME IInv, NEW n \in Prs, MergeByHand(n)
  PROVE  IInv' /\ \A m \in DOMAIN manifest : main'[m] = main[m]
<1>1. FilesAre /\ Pushable /\ ProcIs /\ HeadsAre /\ Contents /\ PublicTrue
  BY DEF IInv
<1>2. UNCHANGED <<world, head, manifest, card, registry, docs, report, verified, local, files, proc>>
  BY DEF MergeByHand, github, disk, checkout
<1>3. /\ Contents' /\ PublicTrue'
      /\ \A m \in DOMAIN manifest : main'[m] = main[m]
  <2> DEFINE c == Delivery(n, head[n]).files
  <2>1. main' = Overwrite(main, c) /\ ~ Clash(c)
    BY DEF MergeByHand
  <2>2. \A m \in DOMAIN c : c[m] # None
    BY <1>1, DeliveryIs DEF IInv, HeadsAre
  <2> HIDE DEF c
  <2>3. \A m \in DOMAIN manifest \cap DOMAIN c : c[m] = main[m]
    BY <1>1, <2>1, NoClash
  <2> QED  BY <1>1, <1>2, <2>1, <2>2, <2>3, Landing
<1>4. FilesAre' /\ Pushable'
  BY <1>1, <1>2, SameFiles DEF Pushable
<1>5. ProcIs'
  BY <1>1, <1>2 DEF ProcIs, run, st
<1> QED  BY <1>1, <1>2, <1>3, <1>4, <1>5 DEF IInv, HeadsAre, Branches, DocsAre

-----------------------------------------------------------------------------
\* Manifest, local, card and claims.

(* A run that is over. *)
LEMMA OverKeeps ==
  ASSUME FilesAre, Pushable, UNCHANGED <<world, verified, local>>, run \in Runs, Over
  PROVE  FilesAre' /\ Pushable' /\ ProcIs'
BY ForgetsFile, EndsProc DEF Over

(* A step that marks a phase as done and goes on to the next, or finds it done. *)
LEMMA PhaseKeeps ==
  ASSUME FilesAre, Pushable, ProcIs, UNCHANGED <<world, verified, local>>,
         proc.at \notin {"idle", "prepare"}, NEW x,
         NEW at, at \notin Merging \cup {"idle", "prepare"},
         \/ Goes(at) /\ files' = files
         \/ Save(Done(st, x), at)
  PROVE  FilesAre' /\ Pushable' /\ ProcIs'
<1>1. CASE Goes(at) /\ files' = files
  BY <1>1, GoesOnly
<1>2. CASE Save(Done(st, x), at)
  <2>1. FileIs(world, verified, run, st)
    BY RunIs
  <2>2. LET t == Done(st, x)
        IN  FileIs(world, verified, run, t) /\ t.pulls = st.pulls /\ t.decided = st.decided /\ t.sub = st.sub
    BY <2>1, DoneIs
  <2> QED  BY <1>2, <2>2, SavesOn DEF Merging
<1> QED  BY <1>1, <1>2

(* The manifest, written from what main has, names what it named before. *)
LEMMA WriteManifestKeeps ==
  ASSUME IInv, WriteManifest
  PROVE  IInv' /\ \A m \in DOMAIN manifest : manifest'[m] = manifest[m]
<1>1. FilesAre /\ Pushable /\ ProcIs /\ PublicTrue /\ proc.at = "credits"
  BY DEF IInv, WriteManifest
<1>2. UNCHANGED <<world, head, main, card, registry, docs, report, verified, local>>
  BY DEF WriteManifest, github, disk, checkout, history
<1>3. manifest' = main \/ manifest' = manifest
  BY DEF WriteManifest, ManifestFromHub
<1>4. FilesAre' /\ Pushable' /\ ProcIs'
  BY <1>1, <1>2, PhaseKeeps DEF WriteManifest, Merging
<1>5. PublicTrue' /\ \A m \in DOMAIN manifest : manifest'[m] = manifest[m]
  BY <1>1, <1>2, <1>3 DEF PublicTrue
<1> QED  BY <1>2, <1>4, <1>5 DEF IInv, HeadsAre, Contents, Branches, DocsAre

(* The card, generated from the registry on origin/main. *)
LEMMA WriteCardKeeps ==
  ASSUME IInv, WriteCard
  PROVE  IInv'
<1>1. FilesAre /\ Pushable /\ ProcIs /\ PublicTrue /\ proc.at = "card"
  BY DEF IInv, WriteCard
<1>2. UNCHANGED <<world, head, main, manifest, registry, docs, report, verified, local>>
  BY DEF WriteCard, github, disk, checkout, history
<1>3. card' = registry \/ card' = card
  BY DEF WriteCard
<1>4. FilesAre' /\ Pushable' /\ ProcIs'
  BY <1>1, <1>2, PhaseKeeps DEF WriteCard, Merging
<1>5. PublicTrue'
  BY <1>1, <1>2, <1>3 DEF PublicTrue
<1> QED  BY <1>2, <1>4, <1>5 DEF IInv, HeadsAre, Contents, Branches, DocsAre

(* Moving the published files to the corpus, and what finds its phase done. *)
LEMMA MovesKeep ==
  ASSUME IInv, MoveLocal \/ DocsDone
  PROVE  IInv'
<1>1. FilesAre /\ Pushable /\ ProcIs
  BY DEF IInv
<1>2. UNCHANGED <<world, head, main, manifest, card, registry, docs, report, verified, local>>
  BY DEF MoveLocal, DocsDone, hub, github, disk, checkout, history
<1>3. CASE MoveLocal
  BY <1>1, <1>2, <1>3, PhaseKeeps, Elsewhere DEF MoveLocal, Merging
<1>4. CASE DocsDone
  <2>1. Goes("card") /\ files' = files /\ proc.at = "docs"
    BY <1>4 DEF DocsDone
  <2> QED  BY <1>1, <1>2, <2>1, GoesOnly, Elsewhere DEF Merging
<1> QED  BY <1>3, <1>4

(* The record that a claim is told. *)
LEMMA CommentedIs ==
  ASSUME NEW w, NEW ver, NEW r, NEW s, FileIs(w, ver, r, s), NEW c
  PROVE  LET t == [s EXCEPT !.commented = c]
         IN  FileIs(w, ver, r, t) /\ t.pulls = s.pulls /\ t.decided = s.decided /\ t.sub = s.sub
<1> DEFINE t == [s EXCEPT !.commented = c]
<1>1. s = [f \in FileFields |-> s[f]] /\ InOrder(s.docsPr, s.sub) /\ s.merged \subseteq r
  BY DEF FileIs
<1>2. /\ t = [f \in FileFields |-> t[f]] /\ t.pulls = s.pulls /\ t.decided = s.decided
      /\ t.sub = s.sub /\ t.heads = s.heads /\ t.docsPr = s.docsPr /\ t.merged = s.merged
  BY <1>1 DEF FileFields
<1> HIDE DEF t
<1>3. InOrder(t.docsPr, t.sub) /\ t.merged \subseteq r
  BY <1>1, <1>2
<1> QED  BY <1>2, <1>3, FileLike DEF t

(* Comments on claims. *)
LEMMA TellClaimKeeps ==
  ASSUME IInv, TellClaim
  PROVE  IInv'
<1>1. FilesAre /\ Pushable /\ ProcIs /\ proc.at = "claims"
  BY DEF IInv, TellClaim
<1>2. UNCHANGED <<world, head, main, manifest, card, registry, docs, report, verified, local>>
  BY DEF TellClaim, hub, github, disk, checkout
<1> DEFINE c == st.commented \cup {MinOf(ToTell)}
           t == [st EXCEPT !.commented = c]
<1>3. Save(t, "claims")
  BY DEF TellClaim
<1> HIDE DEF c
<1>4. FileIs(world, verified, run, t) /\ t.pulls = st.pulls /\ t.decided = st.decided /\ t.sub = st.sub
  BY <1>1, RunIs, CommentedIs
<1> HIDE DEF t
<1>5. FilesAre' /\ Pushable' /\ ProcIs'
  BY <1>1, <1>2, <1>3, <1>4, SavesOn
<1> QED  BY <1>2, <1>5, Elsewhere

(* The end of a run, and of a process wherever it is. *)
LEMMA EndsKeep ==
  ASSUME IInv, NothingToRecord \/ CloseClaims \/ Killed \/ DocsDirty
  PROVE  IInv'
<1>1. FilesAre /\ Pushable /\ ProcIs
  BY DEF IInv
<1>2. UNCHANGED <<world, head, main, manifest, card, registry, docs, report, verified, local>>
  BY DEF NothingToRecord, CloseClaims, Killed, DocsDirty, hub, github, disk, checkout, history
<1>3. CASE NothingToRecord \/ CloseClaims
  <2>1. Over \/ (Ends /\ files' = files)
    BY <1>3 DEF NothingToRecord, CloseClaims, Crash
  <2>2. run \in Runs
    BY <1>1, <1>3 DEF NothingToRecord, CloseClaims, ProcIs
  <2> QED  BY <1>1, <1>2, <2>1, <2>2, OverKeeps, EndsOnly, Elsewhere
<1>4. CASE Killed \/ DocsDirty
  BY <1>1, <1>2, <1>4, EndsOnly, Elsewhere DEF Killed, DocsDirty, Crash
<1> QED  BY <1>3, <1>4

-----------------------------------------------------------------------------
\* The docs PR.

(* A branch as a commit leaves it. *)
LEMMA AtRevIs ==
  ASSUME NEW reg, NEW base, NEW n, base.by \subseteq reg.by
  PROVE  Keeps(AtRev(reg, base, n))
BY DEF Keeps, AtRev, BranchFields

(* A commit on the run's branch leaves the others alone. *)
LEMMA OnBranchKeeps ==
  ASSUME Branches, run \in Runs, NEW reg, registry.by \subseteq reg.by, OnBranch(reg)
  PROVE  /\ Branches'
         /\ DOMAIN local' = DOMAIN local \cup {run}
<1> DEFINE b == AtRev(reg, registry, rev)
<1>1. /\ DOMAIN local' = DOMAIN local \cup {run}
      /\ \A x \in DOMAIN local' : local'[x] = IF x \in {run} THEN b ELSE local[x]
  BY DEF OnBranch, Overwrite
<1>2. Keeps(b)
  BY AtRevIs
<1>3. Main # run
  <2>1. NoPr \notin run
    BY AcceptAssumption
  <2> QED  BY <2>1 DEF Main
<1> HIDE DEF b
<1> QED  BY <1>1, <1>2, <1>3 DEF Branches

(* Crediting a run takes no credit away (registry.py, _credit). *)
LEMMA CreditAdds ==
  ASSUME NEW reg, NEW prs, NEW who, NEW published, NEW recorded
  PROVE  reg.by \subseteq Credit(reg, prs, who, published, recorded).by
BY DEF Credit

(* Nor does git, of a branch that took none away from where it started. *)
LEMMA ThreeWayAdds ==
  ASSUME NEW reg, NEW b, Keeps(b)
  PROVE  reg.by \subseteq ThreeWay(b.base, reg, b.registry).by
<1>1. ThreeWay(b.base, reg, b.registry).by
        = (reg.by \ (b.base.by \ b.registry.by)) \cup (b.registry.by \ b.base.by)
  BY DEF ThreeWay
<1> QED  BY <1>1 DEF Keeps

(* The status of a docs PR. *)
LEMMA DocsStatus ==
  ASSUME DocsAre, NEW r \in Runs, NEW x, docs' = [docs EXCEPT ![r].status = x]
  PROVE  DocsAre'
<1> DEFINE d == [docs[r] EXCEPT !.status = x]
<1>1. docs' = [q \in Runs |-> IF q = r THEN d ELSE docs[q]]
  BY DEF DocsAre
<1>2. docs[r] = [f \in {"status", "pushed"} |-> docs[r][f]]
  BY DEF DocsAre
<1>3. d = [f \in {"status", "pushed"} |-> d[f]] /\ d.pushed = docs[r].pushed
  BY <1>2
<1> HIDE DEF d
<1> QED  BY <1>1, <1>3 DEF DocsAre

(* What a docs PR is of, once the branch is pushed. *)
LEMMA DocsPushed ==
  ASSUME DocsAre, NEW r \in Runs, NEW b, Keeps(b), docs' = [docs EXCEPT ![r].pushed = b]
  PROVE  DocsAre'
<1> DEFINE d == [docs[r] EXCEPT !.pushed = b]
<1>1. docs' = [q \in Runs |-> IF q = r THEN d ELSE docs[q]]
  BY DEF DocsAre
<1>2. docs[r] = [f \in {"status", "pushed"} |-> docs[r][f]]
  BY DEF DocsAre
<1>3. d = [f \in {"status", "pushed"} |-> d[f]] /\ d.pushed = b
  BY <1>2
<1> HIDE DEF d
<1> QED  BY <1>1, <1>3 DEF DocsAre

(* The state a docs phase starts from, with or without a line for the changelog. *)
LEMMA StartedIs ==
  ASSUME NEW w, NEW ver, NEW r, NEW s, FileIs(w, ver, r, s)
  PROVE  FileIs(w, ver, r, Started(s)) /\ Started(s).sub = s.sub /\ Started(s).docsPr = s.docsPr
<1> DEFINE t == Started(s)
<1>1. s = [f \in FileFields |-> s[f]] /\ InOrder(s.docsPr, s.sub) /\ s.merged \subseteq r
  BY DEF FileIs
<1> DEFINE o == IF s.started THEN s.original ELSE branch
<1>2. t = [s EXCEPT !.started = TRUE, !.original = o]
  BY DEF Started
<1> HIDE DEF t, o
<1>3. /\ t = [f \in FileFields |-> t[f]] /\ t.pulls = s.pulls /\ t.decided = s.decided
      /\ t.sub = s.sub /\ t.heads = s.heads /\ t.docsPr = s.docsPr /\ t.merged = s.merged
  BY <1>1, <1>2 DEF FileFields
<1>4. InOrder(t.docsPr, t.sub) /\ t.merged \subseteq r
  BY <1>1, <1>3
<1> QED  BY <1>3, <1>4, FileLike DEF t

(* Nothing to commit. *)
LEMMA EmptyIs ==
  ASSUME NEW w, NEW ver, NEW r, NEW s, FileIs(w, ver, r, s)
  PROVE  LET t == [s EXCEPT !.empty = TRUE] IN FileIs(w, ver, r, t) /\ t.sub = s.sub
<1> DEFINE t == [s EXCEPT !.empty = TRUE]
<1>1. s = [f \in FileFields |-> s[f]] /\ InOrder(s.docsPr, s.sub) /\ s.merged \subseteq r
  BY DEF FileIs
<1>2. /\ t = [f \in FileFields |-> t[f]] /\ t.pulls = s.pulls /\ t.decided = s.decided
      /\ t.sub = s.sub /\ t.heads = s.heads /\ t.docsPr = s.docsPr /\ t.merged = s.merged
  BY <1>1 DEF FileFields
<1> HIDE DEF t
<1>3. InOrder(t.docsPr, t.sub) /\ t.merged \subseteq r
  BY <1>1, <1>2
<1> QED  BY <1>2, <1>3, FileLike DEF t

(* What of the branch is committed and pushed. *)
LEMMA SubIs ==
  ASSUME NEW w, NEW ver, NEW r, NEW s, FileIs(w, ver, r, s), NEW sub, InOrder(s.docsPr, sub)
  PROVE  LET t == [s EXCEPT !.sub = sub] IN FileIs(w, ver, r, t) /\ t.sub = sub
<1> DEFINE t == [s EXCEPT !.sub = sub]
<1>1. s = [f \in FileFields |-> s[f]] /\ InOrder(s.docsPr, s.sub) /\ s.merged \subseteq r
  BY DEF FileIs
<1>2. /\ t = [f \in FileFields |-> t[f]] /\ t.pulls = s.pulls /\ t.decided = s.decided
      /\ t.sub = sub /\ t.heads = s.heads /\ t.docsPr = s.docsPr /\ t.merged = s.merged
  BY <1>1 DEF FileFields
<1> HIDE DEF t
<1>3. InOrder(t.docsPr, t.sub) /\ t.merged \subseteq r
  BY <1>1, <1>2
<1> QED  BY <1>2, <1>3, FileLike DEF t

(* The PR of what is pushed is open. *)
LEMMA OpenedIs ==
  ASSUME NEW w, NEW ver, NEW r, NEW s, FileIs(w, ver, r, s), "pushed" \in s.sub
  PROVE  LET t == [s EXCEPT !.docsPr = TRUE] IN FileIs(w, ver, r, t) /\ t.sub = s.sub
<1> DEFINE t == [s EXCEPT !.docsPr = TRUE]
<1>1. s = [f \in FileFields |-> s[f]] /\ InOrder(s.docsPr, s.sub) /\ s.merged \subseteq r
  BY DEF FileIs
<1>2. /\ t = [f \in FileFields |-> t[f]] /\ t.pulls = s.pulls /\ t.decided = s.decided
      /\ t.sub = s.sub /\ t.heads = s.heads /\ t.docsPr = TRUE /\ t.merged = s.merged
  BY <1>1 DEF FileFields
<1> HIDE DEF t
<1>3. InOrder(t.docsPr, t.sub) /\ t.merged \subseteq r
  BY <1>1, <1>2 DEF InOrder
<1> QED  BY <1>2, <1>3, FileLike DEF t

(* All of it is to be done again. *)
LEMMA RedoneIs ==
  ASSUME NEW w, NEW ver, NEW r, NEW s, FileIs(w, ver, r, s)
  PROVE  LET t == [s EXCEPT !.retried = TRUE, !.sub = {}, !.docsPr = FALSE] IN FileIs(w, ver, r, t) /\ t.sub = {}
<1> DEFINE t == [s EXCEPT !.retried = TRUE, !.sub = {}, !.docsPr = FALSE]
<1>1. s = [f \in FileFields |-> s[f]] /\ InOrder(s.docsPr, s.sub) /\ s.merged \subseteq r
  BY DEF FileIs
<1>2. /\ t = [f \in FileFields |-> t[f]] /\ t.pulls = s.pulls /\ t.decided = s.decided
      /\ t.sub = {} /\ t.heads = s.heads /\ t.docsPr = FALSE /\ t.merged = s.merged
  BY <1>1 DEF FileFields
<1> HIDE DEF t
<1>3. InOrder(t.docsPr, t.sub) /\ t.merged \subseteq r
  BY <1>1, <1>2 DEF InOrder
<1> QED  BY <1>2, <1>3, FileLike DEF t

(* A run with nothing to commit. *)
LEMMA DocsEmptyKeeps ==
  ASSUME IInv, DocsEmpty
  PROVE  IInv'
<1>1. FilesAre /\ Pushable /\ ProcIs /\ Branches /\ proc.at = "docs"
  BY DEF IInv, DocsEmpty, DocsStarts, DocsStep
<1>2. UNCHANGED <<world, head, main, manifest, card, registry, docs, report, verified>>
  BY DEF DocsEmpty, hub, github, disk, history
<1>3. run \in Runs /\ FileIs(world, verified, run, st)
  BY <1>1, RunIs
<1>4. Branches' /\ DOMAIN local' = DOMAIN local \cup {run}
  BY <1>1, <1>3, OnBranchKeeps DEF DocsEmpty
<1> DEFINE t == [Started(st) EXCEPT !.empty = TRUE]
           u == Done(t, "docs")
<1>5. Save(u, "card")
  BY DEF DocsEmpty
<1>6. FileIs(world, verified, run, Started(st))
  BY <1>3, StartedIs
<1>7. FileIs(world, verified, run, t)
  BY <1>6, EmptyIs
<1> HIDE DEF t
<1>8. FileIs(world, verified, run, u)
  BY <1>7, DoneIs
<1> HIDE DEF u
<1>9. FilesAre' /\ Pushable' /\ ProcIs'
  BY <1>1, <1>2, <1>4, <1>5, <1>8, Saves
<1> QED  BY <1>2, <1>4, <1>9 DEF IInv, HeadsAre, Contents, DocsAre, PublicTrue

(* The commit, also one that is left half-way. *)
LEMMA DocsCommitKeeps ==
  ASSUME IInv, DocsCommit
  PROVE  IInv'
<1>1. FilesAre /\ Pushable /\ ProcIs /\ Branches /\ proc.at = "docs"
  BY DEF IInv, DocsCommit, DocsStarts, DocsStep
<1>2. UNCHANGED <<world, head, main, manifest, card, registry, docs, report, verified>>
  BY DEF DocsCommit, hub, github, disk, history
<1>3. run \in Runs /\ FileIs(world, verified, run, st)
  BY <1>1, RunIs
<1>4. Branches' /\ DOMAIN local' = DOMAIN local \cup {run}
  <2>1. registry.by \subseteq After.by
    BY CreditAdds DEF After, Credited2
  <2> QED  BY <1>1, <1>3, <2>1, OnBranchKeeps DEF DocsCommit
<1> DEFINE s == Started(st)
           t == [s EXCEPT !.sub = {"committed"}]
<1>5. FileIs(world, verified, run, s) /\ s.sub = st.sub /\ s.docsPr = st.docsPr
  BY <1>3, StartedIs
<1> HIDE DEF s
<1>6. FileIs(world, verified, run, t)
  <2>1. "committed" \notin s.sub /\ InOrder(s.docsPr, s.sub)
    BY <1>5 DEF DocsCommit, DocsStarts, FileIs
  <2>2. InOrder(s.docsPr, {"committed"})
    BY <2>1 DEF InOrder
  <2> QED  BY <1>5, <2>2, SubIs
<1> HIDE DEF t
<1>7. \/ Record(t) /\ Goes("docs")
      \/ Record(s) /\ Ends
  BY DEF DocsCommit, Crash, s, t
<1>8. CASE Record(t) /\ Goes("docs")
  <2>2. /\ FilesAre' /\ files'[run] = t /\ t # NoFile
        /\ \A r \in Runs \ {run} : files'[r] = files[r]
    BY <1>1, <1>2, <1>3, <1>6, <1>8, RecordsFile
  <2>3. Pushable'
    BY <1>1, <1>4, <2>2 DEF Pushable
  <2>4. proc = [f \in ProcFields |-> proc[f]]
    BY <1>1, RunIs
  <2>5. /\ proc' = [f \in ProcFields |-> proc'[f]]
        /\ proc'.run = run /\ proc'.at = "docs"
    BY <1>8, <2>4, GoesIs DEF run
  <2>6. ProcIs'
    BY <1>3, <2>2, <2>5 DEF ProcIs, Merging, run, st
  <2> QED  BY <1>2, <1>4, <2>2, <2>3, <2>6 DEF IInv, HeadsAre, Contents, DocsAre, PublicTrue
<1>9. CASE Record(s) /\ Ends
  <2>1. /\ FilesAre' /\ files'[run] = s
        /\ \A r \in Runs \ {run} : files'[r] = files[r]
    BY <1>1, <1>2, <1>3, <1>5, <1>9, RecordsFile
  <2>2. Pushable'
    BY <1>1, <1>4, <2>1 DEF Pushable
  <2>3. ProcIs'
    BY <1>9, EndsProc
  <2> QED  BY <1>2, <1>4, <2>1, <2>2, <2>3 DEF IInv, HeadsAre, Contents, DocsAre, PublicTrue
<1> QED  BY <1>7, <1>8, <1>9

(* The push, and the PR. *)
LEMMA DocsOutKeeps ==
  ASSUME IInv, DocsPush \/ DocsOpen
  PROVE  IInv'
<1>1. FilesAre /\ Pushable /\ ProcIs /\ Branches /\ DocsAre /\ proc.at = "docs"
  BY DEF IInv, DocsPush, DocsOpen, DocsStep
<1>2. UNCHANGED <<world, head, main, manifest, card, registry, report, verified, local>>
  BY DEF DocsPush, DocsOpen, hub, disk, checkout, history
<1>3. run \in Runs /\ FileIs(world, verified, run, st) /\ st # NoFile
  BY <1>1, RunIs
<1>4. st.sub = {"committed"} => run \in DOMAIN local'
  BY <1>1, <1>2, <1>3 DEF Pushable, st
<1>5. InOrder(st.docsPr, st.sub)
  BY <1>3 DEF FileIs
<1>6. CASE DocsPush
  <2> DEFINE sub == st.sub \cup {"pushed"}
             t == [st EXCEPT !.sub = sub]
  <2>1. Save(t, "docs") /\ st.sub = {"committed"} /\ docs' = [docs EXCEPT ![run].pushed = local[run]]
    BY <1>6 DEF DocsPush
  <2>2. InOrder(st.docsPr, sub) /\ sub # {"committed"}
    BY <1>5, <2>1 DEF InOrder
  <2> HIDE DEF sub
  <2>3. FileIs(world, verified, run, t) /\ t.sub = sub
    BY <1>3, <2>2, SubIs
  <2> HIDE DEF t
  <2>4. FilesAre' /\ Pushable' /\ ProcIs'
    BY <1>1, <1>2, <1>4, <2>1, <2>2, <2>3, Saves
  <2>5. DocsAre'
    <3>1. Keeps(local[run])
      BY <1>1, <1>2, <1>4, <2>1 DEF Branches
    <3> QED  BY <1>1, <1>3, <2>1, <3>1, DocsPushed
  <2> QED  BY <1>2, <2>4, <2>5 DEF IInv, HeadsAre, Contents, Branches, PublicTrue
<1>7. CASE DocsOpen
  <2> DEFINE t == [st EXCEPT !.docsPr = TRUE]
  <2>1. Save(t, "docs") /\ "pushed" \in st.sub /\ docs' = [docs EXCEPT ![run].status = "open"]
    BY <1>7 DEF DocsOpen
  <2>2. FileIs(world, verified, run, t) /\ t.sub = st.sub
    BY <1>3, <2>1, OpenedIs
  <2> HIDE DEF t
  <2>4. FilesAre' /\ Pushable' /\ ProcIs'
    BY <1>1, <1>2, <1>4, <2>1, <2>2, Saves
  <2>5. DocsAre'
    BY <1>1, <1>3, <2>1, DocsStatus
  <2> QED  BY <1>2, <2>4, <2>5 DEF IInv, HeadsAre, Contents, Branches, PublicTrue
<1> QED  BY <1>6, <1>7

(* The registry of origin/main, once it may have got a run's credits. *)
LEMMA PublicGrows ==
  ASSUME PublicTrue, UNCHANGED <<main, manifest, card>>, DocsAre, NEW r \in Runs,
         \/ registry' = registry
         \/ registry' = ThreeWay(docs[r].pushed.base, registry, docs[r].pushed.registry)
  PROVE  PublicTrue'
<1>1. registry.by \subseteq registry'.by
  BY ThreeWayAdds DEF DocsAre
<1> QED  BY <1>1 DEF PublicTrue

(* The docs PR is merged and its branch deleted. *)
LEMMA DocsLandKeeps ==
  ASSUME IInv, DocsLand
  PROVE  IInv'
<1>1. FilesAre /\ Pushable /\ ProcIs /\ Branches /\ DocsAre /\ PublicTrue /\ proc.at = "docs"
  BY DEF IInv, DocsLand, Lands, DocsStep
<1>2. UNCHANGED <<world, head, main, manifest, card, report, verified>>
  BY DEF DocsLand, hub, disk, history
<1>3. run \in Runs /\ FileIs(world, verified, run, st) /\ st # NoFile
  BY <1>1, RunIs
<1>4. PublicTrue'
  <2>1. \/ registry' = registry
        \/ registry' = ThreeWay(docs[run].pushed.base, registry, docs[run].pushed.registry)
    BY DEF DocsLand, Landed
  <2> QED  BY <1>1, <1>2, <1>3, <2>1, PublicGrows
<1>5. DocsAre'
  BY <1>1, <1>3, DocsStatus DEF DocsLand
<1>6. /\ DOMAIN local' = DOMAIN local \ {run}
      /\ \A b \in DOMAIN local' : local'[b] = local[b]
  BY DEF DocsLand, Only
<1>7. Branches'
  <2>1. NoPr \notin run
    BY <1>3, AcceptAssumption
  <2>2. Main # run
    BY <2>1 DEF Main
  <2> QED  BY <1>1, <1>6, <2>2 DEF Branches
<1>8. FilesAre' /\ Pushable' /\ ProcIs'
  <2>1. "pushed" \in st.sub
    BY <1>3 DEF DocsLand, Lands, FileIs, InOrder
  <2> DEFINE t == Done(st, "docs")
  <2>2. Save(t, "card")
    BY DEF DocsLand
  <2>3. FileIs(world, verified, run, t) /\ t.sub = st.sub
    BY <1>3, DoneIs
  <2> HIDE DEF t
  <2>4. st.sub # {"committed"}
    BY <2>1
  <2> QED  BY <1>1, <1>2, <1>6, <2>2, <2>3, <2>4, Saves
<1> QED  BY <1>2, <1>4, <1>5, <1>7, <1>8 DEF IInv, HeadsAre, Contents

(* Or main moved underneath it. *)
LEMMA DocsConflictKeeps ==
  ASSUME IInv, DocsConflict
  PROVE  IInv'
<1>1. FilesAre /\ Pushable /\ ProcIs /\ DocsAre /\ proc.at = "docs"
  BY DEF IInv, DocsConflict, Lands, DocsStep
<1>2. UNCHANGED <<world, head, main, manifest, card, registry, report, verified, local>>
  BY DEF DocsConflict, hub, disk, history
<1>3. run \in Runs /\ FileIs(world, verified, run, st) /\ st # NoFile
  BY <1>1, RunIs
<1>4. CASE Ends /\ UNCHANGED <<docs, files, crashes>>
  BY <1>1, <1>2, <1>4, EndsOnly, Elsewhere
<1> DEFINE t == [st EXCEPT !.retried = TRUE, !.sub = {}, !.docsPr = FALSE]
<1>5. CASE docs' = [docs EXCEPT ![run].status = "closed"] /\ Save(t, "docs")
  <2>2. FileIs(world, verified, run, t) /\ t.sub = {}
    BY <1>3, RedoneIs
  <2> HIDE DEF t
  <2>3. st.sub = {"committed"} => run \in DOMAIN local'
    BY <1>1, <1>2, <1>3 DEF Pushable, st
  <2>4. FilesAre' /\ Pushable' /\ ProcIs'
    BY <1>1, <1>2, <1>5, <2>2, <2>3, Saves
  <2>5. DocsAre'
    BY <1>1, <1>3, <1>5, DocsStatus
  <2> QED  BY <1>2, <2>4, <2>5 DEF IInv, HeadsAre, Contents, Branches, PublicTrue
<1> QED  BY <1>4, <1>5 DEF DocsConflict

-----------------------------------------------------------------------------
\* A process starts, and the world around it.

(* accept is started: with nothing decided before, its first step is to prepare. *)
LEMMA StartKeeps ==
  ASSUME IInv, NEW r \in Runs, NEW release \in Releases, Start(r, release)
  PROVE  IInv'
<1>1. FilesAre /\ Pushable
  BY DEF IInv
<1>2. UNCHANGED <<world, head, main, manifest, card, registry, docs, report, verified, local, files>>
  BY DEF Start, hub, github, disk, checkout
<1> DEFINE s == IF files[r] = NoFile THEN Fresh ELSE files[r]
           at == IF "merge" \in s.done THEN "credits" ELSE "prepare"
<1>3. proc' = [run |-> r, release |-> release, pr |-> NoPr, at |-> at]
  BY DEF Start
<1>4. at = "credits" => files[r] # NoFile
  BY DEF Fresh
<1>5. at \in {"credits", "prepare"}
  OBVIOUS
<1> HIDE DEF at
<1>6. /\ proc' = [f \in ProcFields |-> proc'[f]]
      /\ proc'.run = r /\ proc'.at = at
  BY <1>3 DEF ProcFields
<1>7. ProcIs'
  BY <1>2, <1>4, <1>5, <1>6 DEF ProcIs, Merging, run, st
<1>8. FilesAre' /\ Pushable'
  BY <1>1, <1>2, SameFiles DEF Pushable
<1> QED  BY <1>2, <1>7, <1>8, Elsewhere

(* The run and its files, when nothing of them changes. *)
LEMMA SameRun ==
  ASSUME FilesAre, Pushable, ProcIs, UNCHANGED <<world, head, manifest, files, proc>>,
         DOMAIN local \subseteq DOMAIN local', \A n \in Prs : verified[n] \subseteq verified'[n]
  PROVE  FilesAre' /\ Pushable' /\ ProcIs'
<1>1. FilesAre' /\ Pushable'
  BY SameFiles DEF Pushable
<1>2. ProcIs'
  BY DEF ProcIs, run, st
<1> QED  BY <1>1, <1>2

(* A push is the delivery that comes next; if none lands in accept's window, what it is
   about to merge is what it has checked. *)
LEMMA PushKeeps ==
  ASSUME IInv, NEW n \in Prs, Push(n)
  PROVE  IInv'
<1>1. FilesAre /\ Pushable /\ ProcIs /\ HeadsAre /\ world \in Worlds
  BY DEF IInv
<1>2. UNCHANGED <<world, main, manifest, card, registry, docs, report, verified, local, files, proc>>
  BY DEF Push, github, disk, checkout
<1>3. head' = [head EXCEPT ![n] = head[n] + 1] /\ head[n] < Len(world.heads[n])
  BY DEF Push
<1>4. DOMAIN world.heads[n] = 1 .. Len(world.heads[n]) /\ Len(world.heads[n]) \in Nat
  BY <1>1, AcceptAssumption DEF Prs
<1>5. head'[n] \in DOMAIN world.heads[n] /\ \A k \in Prs \ {n} : head'[k] = head[k]
  <2>1. head[n] \in 1 .. Len(world.heads[n])
    BY <1>1, <1>4 DEF HeadsAre
  <2>2. head[n] + 1 \in 1 .. Len(world.heads[n])
    BY <1>3, <1>4, <2>1
  <2> QED  BY <1>1, <1>3, <1>4, <2>2 DEF HeadsAre
<1>6. HeadsAre'
  BY <1>1, <1>2, <1>3, <1>5 DEF HeadsAre
<1>7. ProcIs'
  <2>1. ~ Window => proc.at # "effect"
    BY DEF Push
  <2> QED  BY <1>1, <1>2, <2>1 DEF ProcIs, run, st
<1>8. FilesAre' /\ Pushable'
  BY <1>1, <1>2, SameFiles DEF Pushable
<1> QED  BY <1>2, <1>6, <1>7, <1>8 DEF IInv, Contents, Branches, DocsAre, PublicTrue

(* A verification that passes is of the delivery there is. *)
LEMMA VerifyKeeps ==
  ASSUME IInv, NEW n \in Prs, Verify(n)
  PROVE  IInv' /\ main' = main /\ manifest' = manifest
<1>1. FilesAre /\ Pushable /\ ProcIs /\ HeadsAre /\ world \in Worlds
  BY DEF IInv
<1>2. UNCHANGED <<world, head, main, manifest, card, registry, docs, local, files, proc>>
  BY DEF Verify, hub, github, checkout
<1> DEFINE ok == Delivery(n, head[n]).good
<1>3. /\ report' = [report EXCEPT ![n] = Report(head[n], ok, TRUE)]
      /\ verified' = [verified EXCEPT ![n] = IF ok THEN verified[n] \cup {head[n]} ELSE verified[n]]
  BY DEF Verify
<1> HIDE DEF ok
<1>4. /\ verified' = [k \in Prs |-> verified'[k]] /\ report' = [k \in Prs |-> report'[k]]
      /\ \A k \in Prs \ {n} : verified'[k] = verified[k] /\ report'[k] = report[k]
      /\ verified'[n] = IF ok THEN verified[n] \cup {head[n]} ELSE verified[n]
      /\ report'[n].head = head[n] /\ report'[n].ok = ok
  BY <1>1, <1>3 DEF HeadsAre, Report
<1>5. \A k \in Prs : verified[k] \subseteq verified'[k]
  BY <1>4
<1>6. HeadsAre'
  <2>1. ASSUME NEW k \in Prs
        PROVE  /\ head'[k] \in DOMAIN world'.heads[k] /\ verified'[k] \subseteq DOMAIN world'.heads[k]
               /\ report'[k].head # 0 /\ report'[k].ok => report'[k].head \in verified'[k]
    <3>1. CASE k = n
      BY <1>1, <1>2, <1>4, <3>1 DEF HeadsAre
    <3>2. CASE k # n
      BY <1>1, <1>2, <1>4, <3>2 DEF HeadsAre
    <3> QED  BY <3>1, <3>2
  <2> QED  BY <1>1, <1>2, <1>4, <2>1 DEF HeadsAre
<1>7. FilesAre' /\ Pushable' /\ ProcIs'
  BY <1>1, <1>2, <1>5, SameRun
<1> QED  BY <1>2, <1>6, <1>7 DEF IInv, Contents, Branches, DocsAre, PublicTrue

(* Pulling origin/main. *)
LEMMA PullKeeps ==
  ASSUME IInv, Pull
  PROVE  IInv'
<1>1. FilesAre /\ Pushable /\ ProcIs /\ Branches
  BY DEF IInv
<1>2. UNCHANGED <<world, head, main, manifest, card, registry, docs, report, verified, files, proc>>
  BY DEF Pull, hub, github, disk
<1> DEFINE b == [local[Main] EXCEPT !.registry = registry]
<1>3. local' = [local EXCEPT ![Main] = b]
  BY DEF Pull
<1>4. b = [f \in BranchFields |-> b[f]] /\ b.base = local[Main].base
  BY <1>1 DEF Branches, Keeps, BranchFields
<1> HIDE DEF b
<1>5. DOMAIN local' = DOMAIN local /\ \A x \in DOMAIN local' : local'[x] = IF x = Main THEN b ELSE local[x]
  BY <1>3
<1>6. Branches'
  BY <1>1, <1>4, <1>5 DEF Branches, Keeps
<1>7. FilesAre' /\ Pushable' /\ ProcIs'
  BY <1>1, <1>2, <1>5, SameRun
<1> QED  BY <1>2, <1>6, <1>7 DEF IInv, HeadsAre, Contents, DocsAre, PublicTrue

(* Docs PRs somebody resolves or closes. *)
LEMMA DocsByHandKeep ==
  ASSUME IInv, NEW r \in Runs, ResolveDocs(r) \/ CloseDocs(r)
  PROVE  IInv' /\ main' = main /\ manifest' = manifest
<1>1. FilesAre /\ Pushable /\ ProcIs /\ DocsAre /\ PublicTrue
  BY DEF IInv
<1>2. UNCHANGED <<world, head, main, manifest, card, report, verified, local, files, proc>>
  BY DEF ResolveDocs, CloseDocs, hub, disk, checkout
<1>3. DocsAre'
  BY <1>1, DocsStatus DEF ResolveDocs, CloseDocs
<1>4. PublicTrue'
  <2>1. \/ registry' = registry
        \/ registry' = ThreeWay(docs[r].pushed.base, registry, docs[r].pushed.registry)
    BY DEF ResolveDocs, CloseDocs
  <2> QED  BY <1>1, <1>2, <2>1, PublicGrows
<1>5. FilesAre' /\ Pushable' /\ ProcIs'
  BY <1>1, <1>2, SameRun
<1> QED  BY <1>2, <1>3, <1>4, <1>5 DEF IInv, HeadsAre, Contents, Branches

(* The rest of what happens around accept. *)
LEMMA OthersKeep ==
  ASSUME IInv,
         \/ \E c \in claims : WithdrawClaim(c)
         \/ \E r \in Runs : PlanAccept(r)
         \/ OtherCommit \/ PullTables \/ Edit \/ CleanUp
  PROVE  IInv' /\ main' = main /\ manifest' = manifest
<1>1. FilesAre /\ Pushable /\ ProcIs
  BY DEF IInv
<1>2. UNCHANGED <<world, head, main, manifest, card, registry, docs, report, verified, local, files, proc>>
  BY DEF WithdrawClaim, PlanAccept, OtherCommit, PullTables, Edit, CleanUp,
         hub, github, disk, checkout
<1>3. FilesAre' /\ Pushable' /\ ProcIs'
  BY <1>1, <1>2, SameRun
<1> QED  BY <1>2, <1>3, Elsewhere

-----------------------------------------------------------------------------
\* All steps together.

(* Where a behaviour starts nothing is on its way. *)
LEMMA InitHolds ==
  ASSUME Init
  PROVE  IInv
<1>1. world \in Worlds /\ head = [n \in Prs |-> 1] /\ main = world.published /\ manifest = main
      /\ card = registry /\ files = [r \in Runs |-> NoFile] /\ proc = Idle
      /\ docs = [r \in Runs |-> NoDocs]
      /\ local = [b \in {Main} |-> AtRev(registry, registry, 0)]
  BY DEF Init
<1>2. registry.by = {}
  BY DEF Init, EmptyRegistry
<1>3. HeadsAre
  <2>1. /\ report = [n \in Prs |-> IF n \in world.old THEN Report(1, TRUE, FALSE) ELSE Report(0, FALSE, FALSE)]
        /\ verified = [n \in Prs |-> IF n \in world.old THEN {1} ELSE {}]
    BY DEF Init
  <2>2. \A n \in Prs : 1 \in DOMAIN world.heads[n]
    BY <1>1, AcceptAssumption DEF Prs
  <2>3. ASSUME NEW n \in Prs
        PROVE  /\ head[n] \in DOMAIN world.heads[n] /\ verified[n] \subseteq DOMAIN world.heads[n]
               /\ report[n].head # 0 /\ report[n].ok => report[n].head \in verified[n]
    BY <1>1, <2>1, <2>2 DEF Report
  <2> QED  BY <1>1, <2>1, <2>3 DEF HeadsAre
<1>4. FilesAre /\ Pushable /\ ProcIs
  BY <1>1, IdleIs DEF FilesAre, Pushable, ProcIs, Merging
<1>5. Contents /\ PublicTrue
  BY <1>1, AcceptAssumption DEF Contents, PublicTrue
<1>6. Branches
  BY <1>1, <1>2, AtRevIs DEF Branches, AtRev
<1>7. DocsAre
  <2>1. Keeps(NoDocs.pushed) /\ NoDocs = [f \in {"status", "pushed"} |-> NoDocs[f]]
    BY AtRevIs DEF NoDocs
  <2> QED  BY <1>1, <2>1 DEF DocsAre
<1> QED  BY <1>1, <1>3, <1>4, <1>5, <1>6, <1>7 DEF IInv

(* Of all steps only these write to main or to the manifest. *)
LEMMA Writers ==
  ASSUME Next
  PROVE  \/ UNCHANGED <<main, manifest>>
         \/ MergePr \/ CopyFiles \/ WriteManifest
         \/ \E n \in Prs : MergeByHand(n)
<1>1. CASE Step
  BY <1>1 DEF Step, Prepare, AllMerged, CheckHead, TakeAsMerged, MergeRefused, CopyPart, FinishCopy,
     CommentPr, ClosePr, NothingToRecord, MoveLocal, DocsDone, DocsDirty, DocsEmpty, DocsCommit,
     DocsPush, DocsOpen, DocsLand, DocsConflict, WriteCard, TellClaim, CloseClaims, hub
<1>2. CASE Killed \/ \E r \in Runs, release \in Releases : Start(r, release)
  BY <1>2 DEF Killed, Start, hub
<1>3. CASE Outside
  BY <1>3 DEF Outside, Push, Verify, WithdrawClaim, ResolveDocs, CloseDocs, PlanAccept, OtherCommit,
     Pull, PullTables, Edit, CleanUp, hub
<1> QED  BY <1>1, <1>2, <1>3 DEF Next

(* Every step keeps the invariant. *)
LEMMA NextKeeps ==
  ASSUME IInv, [Next]_vars
  PROVE  IInv'
<1>1. CASE UNCHANGED vars
  <2>1. UNCHANGED <<world, head, main, manifest, card, registry, docs, report, verified, local, files, proc>>
    BY <1>1 DEF vars, hub, github, disk, checkout, history
  <2>2. FilesAre' /\ Pushable' /\ ProcIs'
    BY <2>1, SameRun DEF IInv
  <2> QED  BY <2>1, <2>2, Elsewhere
<1>2. CASE Prepare
  <2>1. FilesAre' /\ Pushable' /\ ProcIs'
    BY <1>2, PrepareKeeps DEF IInv
  <2> QED  BY <1>2, <2>1, Elsewhere DEF Prepare, hub, github, disk, checkout, history
<1>3. CASE CheckHead \/ MergeRefused \/ CopyPart
  BY <1>3, CheckHeadKeeps, ToCopyKeeps
<1>4. CASE AllMerged \/ TakeAsMerged \/ FinishCopy \/ CommentPr \/ ClosePr
  BY <1>4, DealsKeeps
<1>5. CASE MergePr \/ CopyFiles
  BY <1>5, MergePrLands, CopyFilesLands
<1>6. CASE WriteManifest \/ MoveLocal \/ DocsDone \/ WriteCard \/ TellClaim
  BY <1>6, WriteManifestKeeps, MovesKeep, WriteCardKeeps, TellClaimKeeps
<1>7. CASE NothingToRecord \/ CloseClaims \/ Killed \/ DocsDirty
  BY <1>7, EndsKeep
<1>8. CASE DocsEmpty \/ DocsCommit \/ DocsPush \/ DocsOpen \/ DocsLand \/ DocsConflict
  BY <1>8, DocsEmptyKeeps, DocsCommitKeeps, DocsOutKeeps, DocsLandKeeps, DocsConflictKeeps
<1>9. CASE Outside
  <2>1. CASE \E n \in Prs : Push(n) \/ Verify(n) \/ MergeByHand(n)
    BY <2>1, PushKeeps, VerifyKeeps, MergeByHandLands
  <2>2. CASE \E r \in Runs : ResolveDocs(r) \/ CloseDocs(r)
    BY <2>2, DocsByHandKeep
  <2>3. CASE Pull
    BY <2>3, PullKeeps
  <2>4. CASE \/ \E c \in claims : WithdrawClaim(c)
             \/ \E r \in Runs : PlanAccept(r)
             \/ OtherCommit \/ PullTables \/ Edit \/ CleanUp
    BY <2>4, OthersKeep
  <2> QED  BY <1>9, <2>1, <2>2, <2>3, <2>4 DEF Outside
<1>10. CASE \E r \in Runs, release \in Releases : Start(r, release)
  BY <1>10, StartKeeps
<1> QED  BY <1>1, <1>2, <1>3, <1>4, <1>5, <1>6, <1>7, <1>8, <1>9, <1>10 DEF Next, Step

(* What main has stays vouched for, while no delivery's verification is forgotten. *)
LEMMA SameMain ==
  ASSUME OnlyVerified, UNCHANGED <<world, main>>, \A n \in Prs : verified[n] \subseteq verified'[n]
  PROVE  OnlyVerified'
BY DEF OnlyVerified, Matches, Materials, Delivery

(* Landing files of a delivery that had passed. *)
LEMMA VerifiedLands ==
  ASSUME OnlyVerified, UNCHANGED <<world, verified>>, NEW n \in Prs, NEW v \in verified[n],
         NEW c, DOMAIN c \subseteq DOMAIN Delivery(n, v).files,
         \A m \in DOMAIN c : c[m] = Delivery(n, v).files[m],
         main' = Overwrite(main, c)
  PROVE  OnlyVerified'
<1>1. /\ DOMAIN main' = DOMAIN main \cup DOMAIN c
      /\ \A m \in DOMAIN main' : main'[m] = IF m \in DOMAIN c THEN c[m] ELSE main[m]
  BY DEF Overwrite
<1>2. ASSUME NEW m \in DOMAIN main'
      PROVE  \/ m \in DOMAIN world.published /\ main'[m] = world.published[m]
             \/ \E k \in Prs : \E u \in verified[k] :
                  m \in DOMAIN world.heads[k][u].files /\ world.heads[k][u].files[m] = main'[m]
  <2>1. CASE m \in DOMAIN c
    BY <1>1, <2>1 DEF Delivery
  <2>2. CASE m \notin DOMAIN c
    BY <1>1, <2>2 DEF OnlyVerified, Matches, Materials, Delivery
  <2> QED  BY <2>1, <2>2
<1> QED  BY <1>2 DEF OnlyVerified, Matches, Materials, Delivery

(* Every step keeps main vouched for, if no push can land between accept's head check and
   the merge. *)
LEMMA NextVerified ==
  ASSUME ~ Window, IInv, OnlyVerified, [Next]_vars
  PROVE  OnlyVerified'
<1>1. FilesAre /\ ProcIs /\ HeadsAre
  BY DEF IInv
<1>2. CASE MergePr
  <2>1. proc.at = "effect" /\ main' = Overwrite(main, Now)
    BY <1>2 DEF MergePr, Does
  <2>2. proc.pr \in run /\ FileIs(world, verified, run, st) /\ run \in Runs
    BY <1>1, <2>1, RunIs DEF ProcIs
  <2>3. proc.pr \in Prs /\ head[proc.pr] = st.pulls[proc.pr] /\ head[proc.pr] \in verified[proc.pr]
    BY <1>1, <2>1, <2>2 DEF ProcIs, Prs, FileIs
  <2>4. UNCHANGED <<world, verified>>
    BY <1>2 DEF MergePr, history
  <2> QED  BY <2>1, <2>3, <2>4, VerifiedLands DEF Now
<1>3. CASE CopyFiles
  <2> DEFINE c == Only(Verified, PubOf(st, proc.pr))
  <2>1. proc.at = "copy" /\ main' = Overwrite(main, c)
    BY <1>3 DEF CopyFiles
  <2>2. DOMAIN c \subseteq DOMAIN Verified /\ \A m \in DOMAIN c : c[m] = Verified[m]
    BY <2>1, CopyIs
  <2> HIDE DEF c
  <2>3. proc.pr \in run /\ FileIs(world, verified, run, st) /\ run \in Runs
    BY <1>1, <2>1, RunIs DEF ProcIs
  <2>4. proc.pr \in Prs /\ st.pulls[proc.pr] \in verified[proc.pr]
    BY <2>3 DEF Prs, FileIs
  <2>5. UNCHANGED <<world, verified>>
    BY <1>3 DEF CopyFiles, history
  <2> QED  BY <2>1, <2>2, <2>4, <2>5, VerifiedLands DEF Verified
<1>4. CASE \E n \in Prs : MergeByHand(n)
  <2>1. PICK n \in Prs : MergeByHand(n)
    BY <1>4
  <2>2. /\ main' = Overwrite(main, Delivery(n, head[n]).files) /\ head[n] \in verified[n]
        /\ UNCHANGED <<world, verified>>
    BY <2>1 DEF MergeByHand
  <2> QED  BY <2>2, VerifiedLands
<1>5. CASE UNCHANGED main
  <2>1. world' = world /\ \A n \in Prs : verified[n] \subseteq verified'[n]
    <3>1. CASE Step
      BY <3>1 DEF Step, Prepare, AllMerged, CheckHead, TakeAsMerged, MergePr, MergeRefused, CopyPart,
         CopyFiles, FinishCopy, CommentPr, ClosePr, NothingToRecord, WriteManifest, MoveLocal, DocsDone,
         DocsDirty, DocsEmpty, DocsCommit, DocsPush, DocsOpen, DocsLand, DocsConflict, WriteCard,
         TellClaim, CloseClaims, history
    <3>2. CASE Killed \/ \E r \in Runs, release \in Releases : Start(r, release)
      BY <3>2 DEF Killed, Start, history
    <3>3. CASE \E n \in Prs : Verify(n)
      BY <1>1, <3>3 DEF Verify, HeadsAre
    <3>4. CASE Outside /\ ~ \E n \in Prs : Verify(n)
      BY <3>4 DEF Outside, Push, MergeByHand, WithdrawClaim, ResolveDocs, CloseDocs, PlanAccept,
         OtherCommit, Pull, PullTables, Edit, CleanUp
    <3>5. CASE UNCHANGED vars
      BY <3>5 DEF vars, history
    <3> QED  BY <3>1, <3>2, <3>3, <3>4, <3>5 DEF Next
  <2> QED  BY <1>5, <2>1, SameMain
<1>6. CASE WriteManifest
  <2>1. UNCHANGED <<world, main, verified>>
    BY <1>6 DEF WriteManifest, history
  <2> QED  BY <2>1, SameMain
<1> QED  BY <1>2, <1>3, <1>4, <1>5, <1>6, Writers DEF vars, hub

-----------------------------------------------------------------------------
\* The theorems.

(* In every state of every behaviour each run's file has verified deliveries and decisions
   about them, a process that merges publishes nothing the manifest has, and no branch of
   the checkout takes a credit away. *)
THEOREM Invariant == Spec => []IInv
<1>1. Init => IInv
  BY InitHolds
<1>2. IInv /\ [Next]_vars => IInv'
  BY NextKeeps
<1> QED  BY <1>1, <1>2, PTL DEF Spec

(* The manifest never names a file or a hash that main does not have, and the card never
   credits what the registry on origin/main does not: however many runs are unfinished,
   and wherever their processes ended. *)
THEOREM PublicIsTrue == Spec => []PublicTrue
<1>1. IInv => PublicTrue
  BY DEF IInv
<1> QED  BY <1>1, Invariant, PTL

(* No step, of accept or of anybody, replaces a table that is already published. *)
THEOREM ReplacesNothing == Spec => NeverReplaced
<1>1. IInv /\ [Next]_vars
        => [\A m \in DOMAIN manifest : main'[m] = main[m] /\ manifest'[m] = manifest[m]]_vars
  <2> SUFFICES ASSUME IInv, Next
               PROVE  \A m \in DOMAIN manifest : main'[m] = main[m] /\ manifest'[m] = manifest[m]
    OBVIOUS
  <2>1. CASE UNCHANGED <<main, manifest>>
    BY <2>1
  <2>2. CASE MergePr
    BY <2>2, MergePrLands DEF MergePr
  <2>3. CASE CopyFiles
    BY <2>3, CopyFilesLands DEF CopyFiles
  <2>4. CASE WriteManifest
    BY <2>4, WriteManifestKeeps DEF WriteManifest
  <2>5. CASE \E n \in Prs : MergeByHand(n)
    BY <2>5, MergeByHandLands DEF MergeByHand
  <2> QED  BY <2>1, <2>2, <2>3, <2>4, <2>5, Writers
<1> QED  BY <1>1, Invariant, PTL DEF Spec, NeverReplaced

(* If no push can land between accept's head check and the merge, every published table was
   published before, or is a delivery that verify had passed: whatever the contributors
   push, the maintainer merges by hand and verifies anew, and wherever processes end. *)
THEOREM LandsVerifiedOnly ==
  ASSUME ~ Window
  PROVE  Spec => []OnlyVerified
<1>1. Init => OnlyVerified
  BY DEF Init, OnlyVerified
<1>2. IInv /\ OnlyVerified /\ [Next]_vars => OnlyVerified'
  BY NextVerified
<1> QED  BY <1>1, <1>2, Invariant, PTL DEF Spec

-----------------------------------------------------------------------------
\* Comments on claims are not repeated.

\* What the run's file says it has told.
Commented(s) == IF s = NoFile THEN {} ELSE s.commented

(* A comment is posted once for its record, and once more for each process that ended before
   its record. *)
ToldIs ==
  /\ crashes \in Nat
  /\ told = [r \in Runs |-> told[r]]
  /\ \A r \in Runs : /\ told[r] = [n \in r |-> told[r][n]]
                     /\ \A n \in r :
                          /\ told[r][n] \in Nat
                          /\ told[r][n] <= crashes + 1
                          /\ n \notin Commented(files[r]) => told[r][n] <= crashes

(* What the merge and the phases after it record forgets no comment. *)
LEMMA RecordsForget ==
  ASSUME NEW s, s = [f \in FileFields |-> s[f]], NEW x
  PROVE  /\ Done(s, x).commented = s.commented
         /\ Merged(s, x).commented = s.commented
         /\ [s EXCEPT !.copied = x].commented = s.commented
         /\ [s EXCEPT !.sub = x].commented = s.commented
         /\ [s EXCEPT !.docsPr = TRUE].commented = s.commented
         /\ [s EXCEPT !.retried = TRUE, !.sub = {}, !.docsPr = FALSE].commented = s.commented
BY DEF Done, Merged, FileFields

(* Nor does what a docs phase starts from. *)
LEMMA StartForgets ==
  ASSUME NEW s, s = [f \in FileFields |-> s[f]]
  PROVE  /\ Started(s).commented = s.commented
         /\ [Started(s) EXCEPT !.sub = {"committed"}].commented = s.commented
         /\ Done([Started(s) EXCEPT !.empty = TRUE], "docs").commented = s.commented
<1> DEFINE t == Started(s)
           o == IF s.started THEN s.original ELSE branch
           u == [t EXCEPT !.empty = TRUE]
<1>1. t = [s EXCEPT !.started = TRUE, !.original = o]
  BY DEF Started
<1> HIDE DEF t, o
<1>2. t = [f \in FileFields |-> t[f]] /\ t.commented = s.commented
  BY <1>1 DEF FileFields
<1>3. u = [f \in FileFields |-> u[f]] /\ u.commented = t.commented
  BY <1>2 DEF FileFields
<1> HIDE DEF u
<1>4. Done(u, "docs").commented = s.commented
  BY <1>2, <1>3, RecordsForget
<1>5. [t EXCEPT !.sub = {"committed"}].commented = s.commented
  BY <1>2, RecordsForget
<1> QED  BY <1>2, <1>4, <1>5 DEF t, u

(* Nor what Prepare decides. *)
LEMMA DecidedForgets ==
  ASSUME NEW r, NEW s, s = [f \in FileFields |-> s[f]], NEW release
  PROVE  /\ Known(r, s).commented = s.commented
         /\ Decided(r, s, release).commented = s.commented
<1> DEFINE k == Known(r, s)
           t == Decided(r, s, release)
           hand == s.hand \cup {n \in ToDo(r, s) : status[n] = "merged"}
<1>1. k = [s EXCEPT !.pulls = Pulls(r, s), !.who = WhoIs(r, s), !.hand = hand]
  BY DEF Known
<1>2. t = k \/ \E d, o, h : t = [k EXCEPT !.decided = d, !.own = o, !.heads = h]
  BY DEF Decided
<1> HIDE DEF k, t, hand
<1>3. k = [f \in FileFields |-> k[f]] /\ k.commented = s.commented
  BY <1>1 DEF FileFields
<1>4. t.commented = k.commented
  BY <1>2, <1>3 DEF FileFields
<1> QED  BY <1>3, <1>4 DEF k, t

(* A record that forgets no comment. *)
LEMMA RecordTells ==
  ASSUME FilesAre, run \in Runs, NEW s, Record(s), s # NoFile,
         st = NoFile \/ s.commented = st.commented
  PROVE  \A r \in Runs : Commented(files[r]) \subseteq Commented(files'[r])
<1>1. files'[run] = s /\ \A r \in Runs \ {run} : files'[r] = files[r]
  BY DEF FilesAre, Record
<1> QED  BY <1>1 DEF Commented, st

(* What is told stays within its bound while no comment is posted or forgotten. *)
LEMMA SameTold ==
  ASSUME ToldIs, told' = told, crashes' = crashes \/ crashes' = crashes + 1,
         \A r \in Runs : Commented(files[r]) \subseteq Commented(files'[r])
  PROVE  ToldIs'
<1>1. crashes' \in Nat /\ crashes <= crashes'
  BY DEF ToldIs
<1>2. ASSUME NEW r \in Runs, NEW n \in r
      PROVE  /\ told[r][n] \in Nat /\ told[r][n] <= crashes' + 1
             /\ n \notin Commented(files'[r]) => told[r][n] <= crashes'
  <2>1. /\ told[r][n] \in Nat /\ told[r][n] <= crashes + 1
        /\ n \notin Commented(files'[r]) => told[r][n] <= crashes
    BY DEF ToldIs
  <2>2. crashes \in Nat
    BY DEF ToldIs
  <2> QED  BY <1>1, <2>1, <2>2
<1> QED  BY <1>1, <1>2 DEF ToldIs

(* The run is over. *)
LEMMA OverTold ==
  ASSUME FilesAre, ToldIs, run \in Runs, Over, crashes' = crashes
  PROVE  ToldIs'
<1>1. /\ \A r \in Runs \ {run} : files'[r] = files[r] /\ told'[r] = told[r]
      /\ told'[run] = [n \in run |-> 0] /\ told' = [r \in Runs |-> told'[r]]
  BY DEF Over, FilesAre, ToldIs
<1>2. crashes' \in Nat
  BY DEF ToldIs
<1>3. ASSUME NEW r \in Runs
      PROVE  /\ told'[r] = [n \in r |-> told'[r][n]]
             /\ \A n \in r :
                  /\ told'[r][n] \in Nat
                  /\ told'[r][n] <= crashes' + 1
                  /\ n \notin Commented(files'[r]) => told'[r][n] <= crashes'
  <2>1. CASE r = run
    BY <1>1, <1>2, <2>1
  <2>2. CASE r # run
    BY <1>1, <2>2 DEF ToldIs
  <2> QED  BY <2>1, <2>2
<1> QED  BY <1>1, <1>2, <1>3 DEF ToldIs

(* A comment is posted. *)
LEMMA TellClaimTold ==
  ASSUME FilesAre, ProcIs, ToldIs, TellClaim
  PROVE  ToldIs'
<1>1. proc.at = "claims" /\ ToTell # {}
  BY DEF TellClaim
<1>2. run \in Runs /\ st # NoFile /\ FileIs(world, verified, run, st)
  BY <1>1, RunIs
<1> DEFINE n == MinOf(ToTell)
           c == st.commented \cup {n}
           s == [st EXCEPT !.commented = c]
<1>3. n \in run /\ n \notin st.commented
  <2>1. ToTell \subseteq run /\ run \subseteq Nat
    BY <1>2, AcceptAssumption DEF ToTell
  <2>2. n \in ToTell
    BY <1>1, <2>1, MinOfIn
  <2> QED  BY <2>1, <2>2 DEF ToTell
<1>4. /\ told' = [told EXCEPT ![run][n] = IF told[run][n] < 3 THEN told[run][n] + 1 ELSE told[run][n]]
      /\ SaveThen(s, Goes("claims"))
  BY DEF TellClaim, Save
<1>5. s.commented = c /\ s # NoFile
  <2>1. st = [f \in FileFields |-> st[f]]
    BY <1>2 DEF FileIs
  <2> HIDE DEF c
  <2>2. s = [f \in FileFields |-> s[f]] /\ s.commented = c
    BY <2>1 DEF FileFields
  <2> HIDE DEF s
  <2> QED  BY <2>2, FileIsSome
<1> HIDE DEF n, s
<1>6. /\ told' = [r \in Runs |-> told'[r]] /\ told'[run] = [k \in run |-> told'[run][k]]
      /\ \A r \in Runs \ {run} : told'[r] = told[r]
      /\ \A k \in run \ {n} : told'[run][k] = told[run][k]
      /\ told'[run][n] = IF told[run][n] < 3 THEN told[run][n] + 1 ELSE told[run][n]
  BY <1>2, <1>3, <1>4 DEF ToldIs
<1>7. told[run][n] \in Nat /\ told[run][n] <= crashes /\ crashes \in Nat
  BY <1>2, <1>3 DEF ToldIs, Commented, st
<1>8. told'[run][n] \in Nat /\ told'[run][n] <= crashes + 1
  BY <1>6, <1>7
<1>9. CASE Record(s) /\ crashes' = crashes
  <2>1. files'[run] = s /\ \A r \in Runs \ {run} : files'[r] = files[r]
    BY <1>2, <1>9 DEF Record, FilesAre
  <2>2. Commented(files'[run]) = c /\ Commented(files[run]) = st.commented
    BY <1>2, <1>5, <2>1 DEF Commented, st
  <2>3. ASSUME NEW r \in Runs, NEW k \in r
        PROVE  /\ told'[r][k] \in Nat /\ told'[r][k] <= crashes + 1
               /\ k \notin Commented(files'[r]) => told'[r][k] <= crashes
    <3>1. CASE r # run
      BY <1>6, <2>1, <3>1 DEF ToldIs
    <3>2. CASE r = run /\ k # n
      BY <1>6, <2>2, <3>2 DEF ToldIs
    <3>3. CASE r = run /\ k = n
      BY <1>8, <2>2, <3>3
    <3> QED  BY <3>1, <3>2, <3>3
  <2>4. \A r \in Runs : told'[r] = [k \in r |-> told'[r][k]]
    BY <1>6 DEF ToldIs
  <2> QED  BY <1>6, <1>7, <1>9, <2>3, <2>4 DEF ToldIs
<1>10. CASE files' = files /\ crashes' = crashes + 1
  <2>1. ASSUME NEW r \in Runs, NEW k \in r
        PROVE  told'[r][k] \in Nat /\ told'[r][k] <= crashes + 1
    <3>1. CASE r = run /\ k = n
      BY <1>8, <3>1
    <3>2. CASE ~ (r = run /\ k = n)
      BY <1>6, <3>2 DEF ToldIs
    <3> QED  BY <3>1, <3>2
  <2>2. \A r \in Runs : told'[r] = [k \in r |-> told'[r][k]]
    BY <1>6 DEF ToldIs
  <2>3. crashes' \in Nat /\ crashes + 1 <= crashes' + 1 /\ crashes + 1 = crashes'
    BY <1>7, <1>10
  <2>4. ASSUME NEW r \in Runs, NEW k \in r
        PROVE  told'[r][k] \in Nat /\ told'[r][k] <= crashes' + 1 /\ told'[r][k] <= crashes'
    BY <1>7, <2>1, <2>3
  <2> QED  BY <1>6, <2>2, <2>3, <2>4 DEF ToldIs
<1> QED  BY <1>4, <1>9, <1>10 DEF SaveThen, Crash

(* A step that ends with a record, or before it. *)
LEMMA SaveTold ==
  ASSUME FilesAre, ToldIs, run \in Runs, told' = told, NEW s, s # NoFile,
         st = NoFile \/ s.commented = st.commented,
         \/ Record(s) /\ crashes' = crashes
         \/ Crash /\ Record(s)
         \/ Crash /\ files' = files
         \/ files' = files /\ crashes' = crashes
  PROVE  ToldIs'
<1>1. crashes' = crashes \/ crashes' = crashes + 1
  BY DEF Crash
<1>2. \A r \in Runs : Commented(files[r]) \subseteq Commented(files'[r])
  BY RecordTells
<1> QED  BY <1>1, <1>2, SameTold

(* Prepare posts and forgets no comment. *)
LEMMA PrepareTold ==
  ASSUME IInv, ToldIs, Prepare
  PROVE  ToldIs'
<1>1. FilesAre /\ ProcIs /\ run \in Runs /\ told' = told
  BY DEF IInv, ProcIs, Prepare, history
<1> DEFINE p == Prior(run)
           k == Known(run, p)
           t == Decided(run, p, proc.release)
<1>2. PriorIs(world, verified, run, p) /\ (st = NoFile \/ p = st)
  BY <1>1, PriorHolds DEF Prior, st
<1>3. p = [f \in FileFields |-> p[f]]
  BY <1>2 DEF PriorIs
<1>4. k.commented = p.commented /\ t.commented = p.commented
  BY <1>3, DecidedForgets
<1>5. CASE Refuses(run, p)
  <2>1. files' = files /\ crashes' = crashes
    BY <1>5 DEF Prepare
  <2> QED  BY <1>1, <2>1, SameTold
<1>6. CASE ~ Refuses(run, p)
  <2>1. k # NoFile /\ t # NoFile
    <3>1. HeadsAre /\ Contents /\ PublicTrue
      BY DEF IInv
    <3>2. FileIs(world, verified, run, k)
      BY <1>1, <1>2, <1>6, <3>1, KnownFile
    <3>3. FileIs(world, verified, run, t)
      BY <1>1, <1>2, <1>6, <3>1, DecidedIs
    <3> HIDE DEF k, t
    <3> QED  BY <3>2, <3>3, FileIsSome DEF FileIs
  <2>2. \/ Record(k) /\ crashes' = crashes
        \/ Record(t) /\ crashes' = crashes
        \/ Crash /\ files' = files
    BY <1>6 DEF Prepare, Save, SaveThen
  <2> HIDE DEF k, t, p
  <2> QED  BY <1>1, <1>2, <1>4, <2>1, <2>2, SaveTold
<1> QED  BY <1>5, <1>6

(* Nor does any later step but TellClaim, until the run is over. *)
LEMMA StepTold ==
  ASSUME IInv, ToldIs, Step, ~ Prepare, ~ TellClaim
  PROVE  ToldIs'
<1>1. FilesAre /\ ProcIs
  BY DEF IInv
<1>2. proc.at \notin {"idle", "prepare"}
  BY DEF Step, Prepare, AllMerged, CheckHead, TakeAsMerged, MergePr, MergeRefused, CopyPart,
     CopyFiles, FinishCopy, CommentPr, ClosePr, NothingToRecord, WriteManifest, MoveLocal, DocsDone,
     DocsDirty, DocsEmpty, DocsCommit, DocsPush, DocsOpen, DocsLand, DocsConflict, WriteCard,
     TellClaim, CloseClaims, MergesNext, Does, Lands, DocsStarts, DocsStep
<1>3. run \in Runs /\ st # NoFile /\ FileIs(world, verified, run, st)
  BY <1>1, <1>2, RunIs
<1>4. st = [f \in FileFields |-> st[f]]
  BY <1>3 DEF FileIs
<1>5. CASE NothingToRecord \/ CloseClaims
  <2>1. \/ Over /\ crashes' = crashes
        \/ Crash /\ files' = files /\ told' = told
    BY <1>5 DEF NothingToRecord, CloseClaims
  <2> QED  BY <1>1, <1>3, <2>1, OverTold, SameTold DEF Crash
<1>6. CASE ~ (NothingToRecord \/ CloseClaims)
  <2>1. told' = told
    BY <1>6 DEF Step, AllMerged, CheckHead, TakeAsMerged, MergePr, MergeRefused, CopyPart,
       CopyFiles, FinishCopy, CommentPr, ClosePr, WriteManifest, MoveLocal, DocsDone,
       DocsDirty, DocsEmpty, DocsCommit, DocsPush, DocsOpen, DocsLand, DocsConflict, WriteCard, history
  <2>2. \/ \E s : /\ s # NoFile /\ s.commented = st.commented
                  /\ \/ Record(s) /\ crashes' = crashes
                     \/ Crash /\ Record(s)
                     \/ Crash /\ files' = files
        \/ files' = files /\ crashes' = crashes
    <3>1. CASE CheckHead \/ MergeRefused \/ CopyPart \/ DocsDone \/ DocsDirty
      BY <3>1 DEF CheckHead, MergeRefused, CopyPart, DocsDone, DocsDirty
    <3>2. CASE AllMerged \/ WriteManifest \/ MoveLocal \/ DocsLand \/ WriteCard
      <4>1. PICK x : \/ \E at : Save(Done(st, x), at)
                     \/ files' = files /\ crashes' = crashes
        BY <3>2 DEF AllMerged, WriteManifest, MoveLocal, DocsLand, WriteCard
      <4>2. Done(st, x).commented = st.commented /\ Done(st, x) # NoFile
        BY <1>3, <1>4, RecordsForget, DoneIs, FileIsSome DEF FileIs
      <4> QED  BY <4>1, <4>2 DEF Save, SaveThen
    <3>3. CASE TakeAsMerged \/ MergePr \/ FinishCopy \/ CommentPr \/ ClosePr
      <4>1. PICK n : Save(Merged(st, n), "merge")
        BY <3>3 DEF TakeAsMerged, MergePr, FinishCopy, CommentPr, ClosePr
      <4>2. Merged(st, n).commented = st.commented
        BY <1>4, RecordsForget
      <4>3. Merged(st, n) # NoFile
        <5>1. Merged(st, n) = [st EXCEPT !.merged = st.merged \cup {n}]
          BY DEF Merged
        <5> DEFINE t == Merged(st, n)
        <5> HIDE DEF t
        <5>2. t = [st EXCEPT !.merged = st.merged \cup {n}] => t = [f \in FileFields |-> t[f]]
          BY <1>4 DEF FileFields
        <5> QED  BY <5>1, <5>2, FileIsSome DEF t
      <4> QED  BY <4>1, <4>2, <4>3 DEF Save, SaveThen
    <3>4. CASE CopyFiles
      <4> DEFINE c == Overwrite(st.copied, [n \in {proc.pr} |-> ActionOf(st, n) # "copy_open"])
                 t == [st EXCEPT !.copied = c]
      <4>1. SaveThen(t, proc' = [proc EXCEPT !.at = "copied"])
        BY <3>4 DEF CopyFiles
      <4> HIDE DEF c
      <4>2. t.commented = st.commented /\ FileIs(world, verified, run, t)
        BY <1>3, <1>4, RecordsForget, CopiedIs
      <4> HIDE DEF t
      <4>3. t # NoFile
        BY <4>2, FileIsSome DEF FileIs
      <4> QED  BY <4>1, <4>2, <4>3 DEF SaveThen
    <3>5. CASE DocsEmpty \/ DocsCommit
      <4> DEFINE s == Started(st)
                 t == Done([s EXCEPT !.empty = TRUE], "docs")
                 u == [s EXCEPT !.sub = {"committed"}]
      <4>1. /\ s.commented = st.commented /\ t.commented = st.commented
            /\ u.commented = st.commented
        BY <1>4, StartForgets
      <4>2. \/ Save(t, "card")
            \/ Record(u) /\ crashes' = crashes
            \/ Record(s) /\ crashes' = crashes
            \/ Crash /\ Record(s)
        BY <3>5 DEF DocsEmpty, DocsCommit
      <4>3. s # NoFile /\ t # NoFile /\ u # NoFile
        <5>1. FileIs(world, verified, run, s)
          BY <1>3, StartedIs
        <5>2. s = [f \in FileFields |-> s[f]]
          BY <5>1 DEF FileIs
        <5>3. FileIs(world, verified, run, t)
          BY <5>1, EmptyIs, DoneIs
        <5> HIDE DEF s
        <5>4. u = [f \in FileFields |-> u[f]]
          BY <5>2 DEF FileFields
        <5> HIDE DEF t, u
        <5> QED  BY <5>2, <5>3, <5>4, FileIsSome DEF FileIs
      <4> HIDE DEF s, t, u
      <4> QED  BY <4>1, <4>2, <4>3 DEF Save, SaveThen
    <3>6. CASE DocsPush \/ DocsOpen \/ DocsConflict
      <4> DEFINE sub == st.sub \cup {"pushed"}
                 s == [st EXCEPT !.sub = sub]
                 t == [st EXCEPT !.docsPr = TRUE]
                 u == [st EXCEPT !.retried = TRUE, !.sub = {}, !.docsPr = FALSE]
      <4>1. \/ Save(s, "docs") \/ Save(t, "docs") \/ Save(u, "docs")
            \/ files' = files /\ crashes' = crashes
        BY <3>6 DEF DocsPush, DocsOpen, DocsConflict
      <4> HIDE DEF sub
      <4>2. s.commented = st.commented /\ t.commented = st.commented /\ u.commented = st.commented
        BY <1>4, RecordsForget
      <4>3. /\ s = [f \in FileFields |-> s[f]] /\ t = [f \in FileFields |-> t[f]]
            /\ u = [f \in FileFields |-> u[f]]
        BY <1>4 DEF FileFields
      <4> HIDE DEF s, t, u
      <4>4. s # NoFile /\ t # NoFile /\ u # NoFile
        BY <4>3, FileIsSome
      <4> QED  BY <4>1, <4>2, <4>4 DEF Save, SaveThen
    <3> QED  BY <1>6, <3>1, <3>2, <3>3, <3>4, <3>5, <3>6 DEF Step
  <2> QED  BY <1>1, <1>3, <2>1, <2>2, SaveTold, SameTold
<1> QED  BY <1>5, <1>6

(* Every step keeps what is told within its bound. *)
LEMMA NextTold ==
  ASSUME IInv, ToldIs, [Next]_vars
  PROVE  ToldIs'
<1>1. FilesAre /\ ProcIs
  BY DEF IInv
<1>2. CASE Prepare
  BY <1>2, PrepareTold
<1>3. CASE TellClaim
  BY <1>1, <1>3, TellClaimTold
<1>4. CASE Step /\ ~ Prepare /\ ~ TellClaim
  BY <1>4, StepTold
<1>5. CASE Killed \/ Outside \/ (\E r \in Runs, release \in Releases : Start(r, release)) \/ UNCHANGED vars
  <2>1. told' = told /\ files' = files /\ (crashes' = crashes \/ crashes' = crashes + 1)
    BY <1>5 DEF Killed, Crash, Outside, Start, Push, Verify, MergeByHand, WithdrawClaim, ResolveDocs,
       CloseDocs, PlanAccept, OtherCommit, Pull, PullTables, Edit, CleanUp, vars, history
  <2> QED  BY <2>1, SameTold
<1> QED  BY <1>2, <1>3, <1>4, <1>5 DEF Next

(* While a run lasts it repeats a comment on a claim only if a process ended before its
   record: however often it is started again, and whatever of it is done over. *)
THEOREM TellsOnce == Spec => []ToldOnce
<1>1. Init => ToldIs
  BY DEF Init, ToldIs
<1>2. IInv /\ ToldIs /\ [Next]_vars => ToldIs'
  BY NextTold
<1>3. ToldIs => ToldOnce
  BY DEF ToldIs, ToldOnce
<1> QED  BY <1>1, <1>2, <1>3, Invariant, PTL DEF Spec

-----------------------------------------------------------------------------
(* Whom the registry credits: a second invariant, of the runs of accept that do not overlap. *)

\* What a run publishes by its decisions, its PRs that are dealt with, a delivery's content.
News(s) == {m \in DOMAIN s.decided : s.decided[m].from # NoPr}
Dealt(r) == r \ ToDo(r, files[r])
Content(n, v, m) == Delivery(n, v).files[m]

\* One run is under way at a time, and a process is of that run.
OneRun ==
  /\ \A r, q \in Runs : UnderWay(r) /\ UnderWay(q) => r = q
  /\ proc.at # "idle" => \A q \in Runs : UnderWay(q) => q = run

\* What is staged for a PR is of the delivery its report is about; the corpus is the manifest's.
StagedAre ==
  /\ staged = [n \in Prs |-> staged[n]]
  /\ \A n \in Prs : \A m \in DOMAIN staged[n] :
       /\ m \in Materials(n, report[n].head) /\ staged[n][m] = Content(n, report[n].head, m)
TablesAre == \A m \in DOMAIN tables : m \in DOMAIN manifest /\ tables[m] = manifest[m]

\* Whoever delivers a material has delivered what is published.
AllBring(r, s, m, c) ==
  \A n \in r : LET v == s.heads.pulls[n] IN m \in Materials(n, v) => Content(n, v, m) = c
AgreedIn(r, s, m) ==
  LET d == s.decided[m]  v == s.heads.pulls[d.from] IN
  \/ /\ d.kind = "new" /\ d.from \in r /\ m \in Materials(d.from, v)
     /\ AllBring(r, s, m, Content(d.from, v, m))
  \/ /\ d.kind = "reproduction" /\ d.from = NoPr /\ m \in DOMAIN manifest
     /\ AllBring(r, s, m, manifest[m])
  \/ d.kind = "held" /\ d.from = NoPr
AgreedOn(r, m) == AgreedIn(r, files[r], m)
Agreed(r) ==
  UnderWay(r) =>
    /\ DOMAIN files[r].heads.pulls = r
    /\ \A m \in DOMAIN files[r].decided : AgreedOn(r, m)
    /\ \A n \in r : files[r].own[n] \cap News(files[r]) = {}

\* A PR that is dealt with was verified as it is, and what is published from it is on main.
LandedFrom(r, n) ==
  \A m \in News(files[r]) : files[r].decided[m].from = n =>
     m \in DOMAIN main /\ main[m] = Content(n, files[r].pulls[n], m)
DealtIs(r, n) ==
  /\ Materials(n, files[r].pulls[n]) # {} => UnderWay(r) /\ report[n].head = files[r].pulls[n]
  /\ LandedFrom(r, n)
DealtWith(r) == \A n \in Dealt(r) : DealtIs(r, n)

\* A PR found merged stays as it was found.
HandIs(r) ==
  /\ files[r].hand \subseteq r
  /\ \A n \in files[r].hand : status[n] \in {"merged", "closed"} /\ files[r].pulls[n] = head[n]

\* What a run has done.
StageOf(r) ==
  LET s == files[r] IN
  /\ "merge" \notin s.done => s.done = {}
  /\ "merge" \in s.done => s.merged = r /\ s.pulls = s.heads.pulls
                           /\ DOMAIN s.decided = Brought(world, s.pulls)
  /\ "manifest" \in s.done => News(s) \subseteq DOMAIN manifest /\ ~ Nothing(r, s)
  /\ s.started => "manifest" \in s.done /\ s.original = Main
  /\ s.sub # {} => s.started

CoreTrue(r) == Agreed(r) /\ DealtWith(r) /\ HandIs(r)
FilesTrue == \A r \in Runs : files[r] # NoFile => CoreTrue(r) /\ StageOf(r)

\* A run that merges does so with what it decided on, of deliveries whose report it has.
Checked(r) ==
  /\ "merge" \notin files[r].done /\ files[r].pulls = files[r].heads.pulls
  /\ \A n \in ToDo(r, files[r]) :
       LET v == files[r].pulls[n] IN v <= head[n] /\ (head[n] = v => report[n].head = v)
  /\ \A n \in files[r].hand : LandedFrom(r, n)
Later == {"local", "docs", "card", "claims"}
StepTrue ==
  /\ proc.at = "prepare" => "merge" \notin Prior(run).done
  /\ proc.at \in Merging => \A r \in Runs : r = run => Checked(r)
  /\ proc.at \in {"effect", "copy"} => head[proc.pr] = st.pulls[proc.pr]
  /\ proc.at = "copied" => proc.pr \in DOMAIN st.copied
  /\ proc.at \in {"credits"} \cup Later => "merge" \in st.done
  /\ proc.at \in Later => "manifest" \in st.done
  /\ proc.at \in {"card", "claims"} => "docs" \in st.done

\* Whatever a merged PR brought is on main as it brought it, unless it is another PR's by now.
MergedAre ==
  /\ status = [n \in Prs |-> status[n]]
  /\ \A n \in Prs : status[n] = "merged" =>
       \A m \in Materials(n, head[n]) :
         /\ m \in DOMAIN main
         /\ \/ main[m] = Content(n, head[n], m) \/ m \in DOMAIN manifest
            \/ \E r \in Runs : UnderWay(r) /\ m \in News(files[r]) /\ files[r].decided[m].from # n

\* Off the maintainer's branch is only the run that has started its docs.
BranchIs ==
  branch # Main => /\ branch \in Runs /\ branch \in DOMAIN local /\ UnderWay(branch)
                   /\ files[branch].started /\ "docs" \notin files[branch].done

\* Whom a registry credits has delivered what is published; the maintainer, what no run published.
Delivers(m, n) == n # NoPr => m \in DOMAIN manifest /\ n \in Prs /\ Matches(m, n)
ByHand(m) == \E n \in byHand : m \in Materials(n, head[n])
Own(m) == m \in DOMAIN world.published \/ ByHand(m)
OwnReg(reg) == \A g \in reg.by : g[2] = Maintainer /\ g[3] = NoPr => Own(g[1])
TrueReg(reg) ==
  /\ \A f \in reg.from : Delivers(f[1], f[2])
  /\ \A g \in reg.by : Delivers(g[1], g[3])
  /\ OwnReg(reg)
RegistriesAre ==
  /\ TrueReg(registry) /\ \A b \in DOMAIN local : TrueReg(local[b].registry)
  /\ \A r \in Runs : TrueReg(docs[r].pushed.registry)

\* A branch with a run's credits, made from the registry as it is.
Adds(b, s) ==
  /\ registry.from \in {b.base.from, b.registry.from}
  /\ Tables(registry) \cup News(s) \subseteq Tables(b.registry)
\* From its commit until it is merged a run's branch adds its credits to the registry.
DocsOf(r, s) ==
  /\ "docs" \in s.done => News(s) \subseteq Tables(registry) /\ docs[r].status # "open"
  /\ s.sub = {"committed"} => Adds(local[r], s)
  /\ "pushed" \in s.sub /\ (~ s.docsPr \/ docs[r].status = "open") => Adds(docs[r].pushed, s)
  /\ s.docsPr /\ docs[r].status = "merged" => News(s) \subseteq Tables(registry)
DocsTrue ==
  \A r \in Runs : /\ files[r] # NoFile => DocsOf(r, files[r])
                  /\ docs[r].status = "open" => UnderWay(r) /\ "pushed" \in files[r].sub

\* Whatever is on main was there, was merged by hand, is credited, or is about to be.
KnownAre ==
  /\ \A n \in byHand : n \in Prs /\ status[n] # "open"
  /\ \A m \in DOMAIN main :
       \/ Own(m) \/ m \in Tables(registry)
       \/ \E r \in Runs : UnderWay(r) /\ m \in News(files[r])

\* What of a run's decisions is done already: a PR that is dealt with, or a file on main.
Begun(r) ==
  \/ files[r].merged # {} \/ DOMAIN files[r].copied # {}
  \/ News(files[r]) \cap DOMAIN main # {}
\* A step that makes no decision anew of a run that has begun.
KeepsDecisions ==
  \A r \in Runs : UnderWay(r) /\ Begun(r) /\ files'[r] # NoFile => files'[r].decided = files[r].decided

DInv ==
  /\ ~ world.overlap /\ OneRun /\ StagedAre /\ TablesAre /\ FilesTrue /\ StepTrue /\ MergedAre
  /\ BranchIs /\ RegistriesAre /\ DocsTrue /\ KnownAre

-----------------------------------------------------------------------------
\* Records of a state file.

\* What a run decided, and how far its docs are, is the same in two state files.
SamePlan(s, t) ==
  /\ t.pulls = s.pulls /\ t.decided = s.decided /\ t.heads = s.heads /\ t.own = s.own /\ t.hand = s.hand
SameMerge(s, t) == t.merged = s.merged /\ t.copied = s.copied
SameDocs(s, t) ==
  t.started = s.started /\ t.original = s.original /\ t.sub = s.sub /\ t.docsPr = s.docsPr

(* Each record of the merge changes what it is about. *)
LEMMA DoneRecord ==
  ASSUME NEW s, s = [f \in FileFields |-> s[f]], NEW x
  PROVE  LET t == Done(s, x) IN
           /\ SamePlan(s, t) /\ SameMerge(s, t) /\ SameDocs(s, t) /\ t.done = s.done \cup {x}
BY DEF Done, FileFields, SamePlan, SameMerge, SameDocs

(* That a PR is dealt with. *)
LEMMA MergedRecord ==
  ASSUME NEW s, s = [f \in FileFields |-> s[f]], NEW n
  PROVE  LET t == Merged(s, n) IN
           /\ SamePlan(s, t) /\ SameDocs(s, t) /\ t.done = s.done
           /\ t.merged = s.merged \cup {n} /\ t.copied = s.copied
BY DEF Merged, FileFields, SamePlan, SameDocs

(* That its files are copied. *)
LEMMA CopiedRecord ==
  ASSUME NEW s, s = [f \in FileFields |-> s[f]], NEW c
  PROVE  LET t == [s EXCEPT !.copied = c] IN
           /\ SamePlan(s, t) /\ SameDocs(s, t) /\ t.done = s.done
           /\ t.merged = s.merged /\ t.copied = c
BY DEF FileFields, SamePlan, SameDocs

(* That a claim is told. *)
LEMMA CommentedRecord ==
  ASSUME NEW s, s = [f \in FileFields |-> s[f]], NEW c
  PROVE  LET t == [s EXCEPT !.commented = c] IN
           /\ SamePlan(s, t) /\ SameMerge(s, t) /\ SameDocs(s, t) /\ t.done = s.done
BY DEF FileFields, SamePlan, SameMerge, SameDocs

(* So does each record of the docs: where they start, *)
LEMMA StartedRecord ==
  ASSUME NEW s, s = [f \in FileFields |-> s[f]]
  PROVE  LET t == Started(s) IN
           /\ SamePlan(s, t) /\ SameMerge(s, t) /\ t.done = s.done /\ t.sub = s.sub /\ t.docsPr = s.docsPr
           /\ t.started /\ t.original = IF s.started THEN s.original ELSE branch
           /\ t = [f \in FileFields |-> t[f]]
<1> DEFINE o == IF s.started THEN s.original ELSE branch
           t == Started(s)
<1>1. t = [s EXCEPT !.started = TRUE, !.original = o]
  BY DEF Started
<1> HIDE DEF o, t
<1>2. /\ SamePlan(s, t) /\ SameMerge(s, t) /\ t.done = s.done /\ t.sub = s.sub /\ t.docsPr = s.docsPr
      /\ t.started /\ t.original = o /\ t = [f \in FileFields |-> t[f]]
  BY <1>1 DEF FileFields, SamePlan, SameMerge
<1> QED  BY <1>2 DEF o, t

(* that there is nothing to commit, *)
LEMMA EmptyRecord ==
  ASSUME NEW s, s = [f \in FileFields |-> s[f]]
  PROVE  LET t == [s EXCEPT !.empty = TRUE] IN
           /\ SamePlan(s, t) /\ SameMerge(s, t) /\ SameDocs(s, t) /\ t.done = s.done
           /\ t = [f \in FileFields |-> t[f]]
BY DEF FileFields, SamePlan, SameMerge, SameDocs

(* what is committed and pushed, *)
LEMMA SubRecord ==
  ASSUME NEW s, s = [f \in FileFields |-> s[f]], NEW x
  PROVE  LET t == [s EXCEPT !.sub = x] IN
           /\ SamePlan(s, t) /\ SameMerge(s, t) /\ t.done = s.done /\ t.started = s.started
           /\ t.original = s.original /\ t.sub = x /\ t.docsPr = s.docsPr
BY DEF FileFields, SamePlan, SameMerge

(* that the PR is open, *)
LEMMA OpenRecord ==
  ASSUME NEW s, s = [f \in FileFields |-> s[f]]
  PROVE  LET t == [s EXCEPT !.docsPr = TRUE] IN
           /\ SamePlan(s, t) /\ SameMerge(s, t) /\ t.done = s.done /\ t.started = s.started
           /\ t.original = s.original /\ t.sub = s.sub /\ t.docsPr
BY DEF FileFields, SamePlan, SameMerge

(* and that all of it is to be done again. *)
LEMMA RedoneRecord ==
  ASSUME NEW s, s = [f \in FileFields |-> s[f]]
  PROVE  LET t == [s EXCEPT !.retried = TRUE, !.sub = {}, !.docsPr = FALSE] IN
           /\ SamePlan(s, t) /\ SameMerge(s, t) /\ t.done = s.done /\ t.started = s.started
           /\ t.original = s.original /\ t.sub = {} /\ ~ t.docsPr
BY DEF FileFields, SamePlan, SameMerge

-----------------------------------------------------------------------------
\* What the steps leave alone.

(* Of all steps only these write to what a run goes by. *)
LEMMA WritersAre ==
  ASSUME Next
  PROVE  /\ world' = world
         /\ \/ UNCHANGED <<status, head>>
            \/ MergePr \/ FinishCopy \/ ClosePr
            \/ \E n \in Prs : Push(n) \/ MergeByHand(n)
         /\ UNCHANGED report \/ \E n \in Prs : Verify(n)
         /\ UNCHANGED staged \/ MoveLocal \/ \E n \in Prs : Verify(n)
         /\ UNCHANGED tables \/ MoveLocal \/ PullTables
         /\ UNCHANGED branch \/ DocsEmpty \/ DocsCommit \/ DocsLand \/ DocsConflict
         /\ UNCHANGED local \/ DocsEmpty \/ DocsCommit \/ DocsLand \/ Pull
         /\ UNCHANGED registry \/ DocsLand \/ \E r \in Runs : ResolveDocs(r)
         /\ \/ UNCHANGED docs \/ DocsPush \/ DocsOpen \/ DocsLand \/ DocsConflict
            \/ \E r \in Runs : ResolveDocs(r) \/ CloseDocs(r)
<1>1. CASE Prepare \/ AllMerged \/ CheckHead \/ TakeAsMerged \/ MergePr \/ MergeRefused
  BY <1>1 DEF Prepare, AllMerged, CheckHead, TakeAsMerged, MergePr, MergeRefused, hub, github, disk, checkout
<1>2. CASE CopyPart \/ CopyFiles \/ FinishCopy \/ CommentPr \/ ClosePr \/ NothingToRecord \/ WriteManifest
           \/ MoveLocal
  BY <1>2 DEF CopyPart, CopyFiles, FinishCopy, CommentPr, ClosePr, NothingToRecord, WriteManifest, MoveLocal,
     hub, github, disk, checkout
<1>3. CASE DocsDone \/ DocsDirty \/ DocsEmpty \/ DocsCommit \/ DocsPush \/ DocsOpen \/ DocsLand \/ DocsConflict
  BY <1>3 DEF DocsDone, DocsDirty, DocsEmpty, DocsCommit, DocsPush, DocsOpen, DocsLand, DocsConflict,
     hub, github, disk, checkout
<1>4. CASE WriteCard \/ TellClaim \/ CloseClaims \/ Killed \/ \E r \in Runs, release \in Releases : Start(r, release)
  BY <1>4 DEF WriteCard, TellClaim, CloseClaims, Killed, Start, hub, github, disk, checkout
<1>5. CASE Outside
  BY <1>5 DEF Outside, Push, Verify, MergeByHand, WithdrawClaim, ResolveDocs, CloseDocs, PlanAccept, OtherCommit,
     Pull, PullTables, Edit, CleanUp, hub, github, disk, checkout
<1> QED  BY <1>1, <1>2, <1>3, <1>4, <1>5 DEF Next, Step

(* Files are written by a process, those of its run; outside it nothing is. *)
LEMMA FilesWritten ==
  ASSUME IInv, Next
  PROVE  \/ UNCHANGED <<files, proc>> /\ Outside
         \/ UNCHANGED files /\ proc = Idle /\ \E r \in Runs, release \in Releases : Start(r, release)
         \/ UNCHANGED files /\ Killed /\ proc' = Idle
         \/ /\ Step
            /\ proc.at # "idle" /\ run \in Runs
            /\ \A q \in Runs \ {run} : files'[q] = files[q]
            /\ proc'.at = "idle" \/ run' = run
<1>1. CASE Outside
  BY <1>1 DEF Outside, Push, Verify, MergeByHand, WithdrawClaim, ResolveDocs, CloseDocs, PlanAccept, OtherCommit,
     Pull, PullTables, Edit, CleanUp
<1>2. CASE \E r \in Runs, release \in Releases : Start(r, release)
  BY <1>2 DEF Start
<1>3. CASE Step
  <2>1. proc.at # "idle"
    BY <1>3 DEF Step, Prepare, AllMerged, CheckHead, TakeAsMerged, MergePr, MergeRefused,
       CopyPart, CopyFiles, FinishCopy, CommentPr, ClosePr, NothingToRecord, WriteManifest, MoveLocal, DocsDone,
       DocsDirty, DocsEmpty, DocsCommit, DocsPush, DocsOpen, DocsLand, DocsConflict, WriteCard, TellClaim,
       CloseClaims, MergesNext, Does, DocsStep, DocsStarts, Lands
  <2>2. run \in Runs
    BY <2>1 DEF IInv, ProcIs
  <2>3. \/ files' = files \/ \E s : files' = [files EXCEPT ![run] = s]
    BY <1>3 DEF Step, Prepare, AllMerged, CheckHead, TakeAsMerged, MergePr, MergeRefused,
       CopyPart, CopyFiles, FinishCopy, CommentPr, ClosePr, NothingToRecord, WriteManifest, MoveLocal, DocsDone,
       DocsDirty, DocsEmpty, DocsCommit, DocsPush, DocsOpen, DocsLand, DocsConflict, WriteCard, TellClaim,
       CloseClaims, Save, SaveThen, Record, Over
  <2>4. \/ Ends
        \/ \E at : Goes(at)
        \/ \E at, n : proc' = [proc EXCEPT !.at = at, !.pr = n]
        \/ \E at : proc' = [proc EXCEPT !.at = at]
    BY <1>3 DEF Step, Prepare, AllMerged, CheckHead, TakeAsMerged, MergePr, MergeRefused,
       CopyPart, CopyFiles, FinishCopy, CommentPr, ClosePr, NothingToRecord, WriteManifest, MoveLocal, DocsDone,
       DocsDirty, DocsEmpty, DocsCommit, DocsPush, DocsOpen, DocsLand, DocsConflict, WriteCard, TellClaim,
       CloseClaims, Save, SaveThen, Crash, Over, Ends
  <2>5. proc'.at = "idle" \/ run' = run
    BY <2>4, IdleIs DEF Ends, Goes, run, IInv, ProcIs, ProcFields
  <2>6. \A q \in Runs \ {run} : files'[q] = files[q]
    BY <2>3 DEF IInv, FilesAre
  <2> QED  BY <1>3, <2>1, <2>2, <2>5, <2>6
<1>4. CASE Killed
  BY <1>4 DEF Killed, Crash, Ends
<1> QED  BY <1>1, <1>2, <1>3, <1>4 DEF Next

(* One run is under way at a time, as long as runs do not overlap. *)
LEMMA OneRunOn ==
  ASSUME IInv, ~ world.overlap, OneRun, Next
  PROVE  OneRun'
<1>1. CASE UNCHANGED <<files, proc>>
  BY <1>1 DEF OneRun, UnderWay, run
<1>2. CASE \E r \in Runs, release \in Releases : Start(r, release)
  <2>1. PICK r \in Runs, release \in Releases : Start(r, release)
    BY <1>2
  <2>2. files' = files /\ run' = r /\ \A q \in Runs \ {r} : ~ UnderWay(q)
    BY <2>1 DEF Start, run
  <2> QED  BY <2>2 DEF OneRun, UnderWay
<1>3. CASE /\ proc.at # "idle" /\ run \in Runs
           /\ \A q \in Runs \ {run} : files'[q] = files[q]
           /\ proc'.at = "idle" \/ run' = run
  <2>1. ASSUME NEW q \in Runs, UnderWay(q)'
        PROVE  q = run
    BY <1>3, <2>1 DEF OneRun, UnderWay
  <2> QED  BY <1>3, <2>1 DEF OneRun
<1>4. CASE UNCHANGED files /\ proc' = Idle
  BY <1>4, IdleIs DEF OneRun, UnderWay
<1> QED  BY <1>1, <1>2, <1>3, <1>4, FilesWritten

-----------------------------------------------------------------------------
\* What a step leaves true of the state files.

Settled == {"merged", "closed"}
(* What a run goes by is not taken from it: the published files, what became of PRs and of the
   reports on those it has dealt with, and what it has landed from them. *)
Steady(r) ==
  /\ world' = world
  /\ \A m \in DOMAIN manifest : m \in DOMAIN manifest' /\ manifest'[m] = manifest[m]
  /\ \A n \in Prs : status[n] \in Settled => status'[n] \in Settled /\ head'[n] = head[n]
  /\ \A n \in Dealt(r) : UnderWay(r) => report'[n] = report[n]
  /\ \A m \in News(files[r]) : files[r].decided[m].from \in Dealt(r) /\ m \in DOMAIN main =>
        m \in DOMAIN main' /\ main'[m] = main[m]
AllSteady == \A r \in Runs : files[r] # NoFile => Steady(r)

(* What a state file says of main and of the manifest stays true, and becomes true of the PRs
   that are dealt with now. *)
LEMMA CoreOn ==
  ASSUME NEW r \in Runs, CoreTrue(r), files[r] # NoFile, files'[r] # NoFile,
         SamePlan(files[r], files'[r]), Steady(r),
         \A n \in Dealt(r)' : n \in Dealt(r) \/ DealtIs(r, n)'
  PROVE  CoreTrue(r)'
<1>1. /\ files'[r].pulls = files[r].pulls /\ files'[r].decided = files[r].decided
      /\ files'[r].heads = files[r].heads /\ files'[r].own = files[r].own /\ files'[r].hand = files[r].hand
  BY DEF SamePlan
<1>2. UnderWay(r)' <=> UnderWay(r)
  BY <1>1 DEF UnderWay
<1>3. News(files'[r]) = News(files[r])
  BY <1>1 DEF News
<1>4. world' = world
  BY DEF Steady
<1>5. Agreed(r)'
  <2> SUFFICES ASSUME UnderWay(r)'
               PROVE  /\ DOMAIN files'[r].heads.pulls = r
                      /\ \A m \in DOMAIN files'[r].decided : AgreedOn(r, m)'
                      /\ \A n \in r : files'[r].own[n] \cap News(files'[r]) = {}
    BY DEF Agreed
  <2>1. /\ DOMAIN files[r].heads.pulls = r
        /\ \A m \in DOMAIN files[r].decided : AgreedOn(r, m)
        /\ \A n \in r : files[r].own[n] \cap News(files[r]) = {}
    BY <1>2 DEF CoreTrue, Agreed
  <2>2. ASSUME NEW m \in DOMAIN files[r].decided
        PROVE  AgreedOn(r, m)'
    <3>1. AgreedOn(r, m)
      BY <2>1
    <3>2. m \in DOMAIN manifest => m \in DOMAIN manifest' /\ manifest'[m] = manifest[m]
      BY DEF Steady
    <3> QED  BY <1>1, <1>4, <3>1, <3>2 DEF AgreedOn, AgreedIn, AllBring, Content, Delivery, Materials
  <2> QED  BY <1>1, <1>3, <2>1, <2>2
<1>6. DealtWith(r)'
  <2> SUFFICES ASSUME NEW n \in Dealt(r)'
               PROVE  DealtIs(r, n)'
    BY DEF DealtWith
  <2>1. CASE n \in Dealt(r)
    <3>1. DealtIs(r, n)
      BY <2>1 DEF CoreTrue, DealtWith
    <3>2. UnderWay(r) => report'[n] = report[n]
      BY <2>1 DEF Steady
    <3>3. LandedFrom(r, n)'
      <4> SUFFICES ASSUME NEW m \in News(files'[r]), files'[r].decided[m].from = n
                   PROVE  m \in DOMAIN main' /\ main'[m] = Content(n, files[r].pulls[n], m)'
        BY DEF LandedFrom
      <4>1. m \in DOMAIN main /\ main[m] = Content(n, files[r].pulls[n], m)
        BY <1>1, <1>3, <3>1 DEF DealtIs, LandedFrom
      <4>2. m \in DOMAIN main' /\ main'[m] = main[m]
        BY <1>1, <1>3, <2>1, <4>1 DEF Steady
      <4> QED  BY <1>1, <1>4, <4>1, <4>2 DEF Content, Delivery
    <3>4. Materials(n, files[r].pulls[n])' = Materials(n, files[r].pulls[n])
      BY <1>1, <1>4 DEF Materials, Delivery
    <3> QED  BY <1>1, <1>2, <3>1, <3>2, <3>3, <3>4 DEF DealtIs
  <2> QED  BY <2>1
<1>7. HandIs(r)'
  <2>1. r \subseteq Prs
    BY DEF Prs
  <2> QED  BY <1>1, <2>1 DEF CoreTrue, HandIs, Steady, Settled
<1> QED  BY <1>5, <1>6, <1>7 DEF CoreTrue

(* Whether anything is recorded does not change with what main has. *)
LEMMA NothingSame ==
  ASSUME NEW r \in Runs, SamePlan(files[r], files'[r]), world' = world
  PROVE  Nothing(r, files[r])' <=> Nothing(r, files[r])
<1>1. files'[r].pulls = files[r].pulls /\ files'[r].decided = files[r].decided /\ files'[r].own = files[r].own
  BY DEF SamePlan
<1>2. \A n \in r : RecordedOf(r, files[r])'[n] = RecordedOf(r, files[r])[n]
  BY <1>1 DEF RecordedOf, Recorded, Materials, Delivery
<1> QED  BY <1>2 DEF Nothing

(* How far a run is, after a record of what comes after the manifest, or of none of its phases. *)
LEMMA StageOn ==
  ASSUME NEW r \in Runs, StageOf(r), SamePlan(files[r], files'[r]), Steady(r),
         \/ files'[r].done = files[r].done
         \/ /\ "merge" \in files[r].done /\ files[r].done \subseteq files'[r].done
            /\ files'[r].done \subseteq files[r].done \cup {"local", "docs", "card"},
         "merge" \in files[r].done => files'[r].merged = files[r].merged,
         files'[r].started => \/ files[r].started /\ files'[r].original = files[r].original
                              \/ "manifest" \in files[r].done /\ files'[r].original = Main,
         files'[r].sub # {} => files'[r].started
  PROVE  StageOf(r)'
<1>1. /\ files'[r].pulls = files[r].pulls /\ files'[r].decided = files[r].decided
      /\ files'[r].heads = files[r].heads /\ files'[r].own = files[r].own
  BY DEF SamePlan
<1>2. News(files'[r]) = News(files[r])
  BY <1>1 DEF News
<1>3. world' = world /\ DOMAIN manifest \subseteq DOMAIN manifest'
  BY DEF Steady
<1>4. "merge" \in files'[r].done <=> "merge" \in files[r].done
  OBVIOUS
<1>5. "manifest" \in files'[r].done <=> "manifest" \in files[r].done
  OBVIOUS
<1>6. "merge" \notin files'[r].done => files'[r].done = {}
  BY <1>4 DEF StageOf
<1>7. "merge" \in files'[r].done =>
        /\ files'[r].merged = r /\ files'[r].pulls = files'[r].heads.pulls
        /\ DOMAIN files'[r].decided = Brought(world', files'[r].pulls)
  BY <1>1, <1>3, <1>4 DEF StageOf
<1>8. "manifest" \in files'[r].done => News(files'[r]) \subseteq DOMAIN manifest' /\ ~ Nothing(r, files[r])'
  BY <1>2, <1>3, <1>5, NothingSame DEF StageOf
<1>9. files'[r].started => "manifest" \in files'[r].done /\ files'[r].original = Main
  BY <1>5 DEF StageOf
<1> QED  BY <1>6, <1>7, <1>8, <1>9 DEF StageOf

(* A file that is not written stays true. *)
LEMMA FileKept ==
  ASSUME NEW r \in Runs, files[r] # NoFile, files'[r] = files[r], CoreTrue(r), StageOf(r), Steady(r)
  PROVE  CoreTrue(r)' /\ StageOf(r)'
<1>1. SamePlan(files[r], files'[r])
  BY DEF SamePlan
<1>2. Dealt(r)' = Dealt(r)
  BY DEF Dealt, ToDo
<1>3. CoreTrue(r)'
  BY <1>1, <1>2, CoreOn
<1>4. /\ files[r].started => files[r].original = files[r].original
      /\ files[r].sub # {} => files[r].started
  BY DEF StageOf
<1>5. StageOf(r)'
  BY <1>1, <1>4, StageOn
<1> QED  BY <1>3, <1>5

(* A step that writes no file. *)
LEMMA FilesKept ==
  ASSUME FilesTrue, UNCHANGED files, AllSteady
  PROVE  FilesTrue'
BY FileKept DEF FilesTrue, AllSteady

(* A step that writes the file of the run. *)
LEMMA FilesRecorded ==
  ASSUME FilesTrue, AllSteady, \A q \in Runs \ {run} : files'[q] = files[q],
         \A r \in Runs : r = run /\ files'[r] # NoFile => CoreTrue(r)' /\ StageOf(r)'
  PROVE  FilesTrue'
<1> SUFFICES ASSUME NEW r \in Runs, files'[r] # NoFile, r # run
             PROVE  CoreTrue(r)' /\ StageOf(r)'
  BY DEF FilesTrue
<1> QED  BY FileKept DEF FilesTrue, AllSteady

-----------------------------------------------------------------------------
\* Nothing is taken from a run.

(* A merge adds to main. *)
LEMMA MergeAdds ==
  ASSUME NEW c, ~ Clash(c), main' = Overwrite(main, c)
  PROVE  /\ \A m \in DOMAIN main : m \in DOMAIN main' /\ main'[m] = main[m]
         /\ \A m \in DOMAIN c : m \in DOMAIN main' /\ main'[m] = c[m]
BY DEF Clash, Overwrite

(* What a PR of a run brings is decided on while the run merges. *)
LEMMA DecidesAll ==
  ASSUME IInv, proc.at \in Merging, NEW n \in run
  PROVE  /\ run \in Runs /\ st # NoFile /\ FileIs(world, verified, run, st)
         /\ Materials(n, st.pulls[n]) \subseteq DOMAIN st.decided
         /\ DOMAIN st.decided = Brought(world, st.pulls)
         /\ \A m \in News(st) : m \notin DOMAIN manifest
<1>1. /\ run \in Runs /\ st # NoFile /\ FileIs(world, verified, run, st)
      /\ Ready(world, DOMAIN manifest, st)
  BY RunIs DEF IInv, ProcIs, Merging
<1>2. DOMAIN st.pulls = run /\ DOMAIN st.decided = Brought(world, st.pulls)
      /\ \A m \in News(st) : m \notin DOMAIN manifest
  BY <1>1 DEF FileIs, Ready, News
<1>3. Materials(n, st.pulls[n]) \subseteq Brought(world, st.pulls)
  BY <1>2 DEF Brought, Materials, Delivery
<1> QED  BY <1>1, <1>2, <1>3

(* A copy writes what the run publishes from the PR, and nothing else. *)
LEMMA CopyWrites ==
  ASSUME IInv, CopyFiles
  PROVE  /\ \A m \in PubOf(st, proc.pr) :
              /\ m \in News(st) /\ st.decided[m].from = proc.pr
              /\ m \in DOMAIN main' /\ main'[m] = Content(proc.pr, st.pulls[proc.pr], m)
         /\ \A m \in DOMAIN main : m \in DOMAIN main' /\ (m \notin PubOf(st, proc.pr) => main'[m] = main[m])
         /\ run \in Runs /\ proc.pr \in run
<1>1. proc.at \in Merging /\ run \in Runs /\ proc.pr \in run
  BY DEF CopyFiles, Merging, IInv, ProcIs
<1>2. Materials(proc.pr, st.pulls[proc.pr]) \subseteq DOMAIN st.decided
  BY <1>1, DecidesAll
<1>3. \A m \in PubOf(st, proc.pr) :
        m \in Materials(proc.pr, st.pulls[proc.pr]) /\ st.decided[m].from = proc.pr
  BY DEF PubOf, Pub
<1>4. proc.pr # NoPr
  BY <1>1, AcceptAssumption
<1>5. \A m \in PubOf(st, proc.pr) : m \in News(st) /\ st.decided[m].from = proc.pr
  BY <1>2, <1>3, <1>4 DEF News
<1> DEFINE c == Only(Verified, PubOf(st, proc.pr))
<1>6. /\ DOMAIN c = PubOf(st, proc.pr)
      /\ \A m \in PubOf(st, proc.pr) : c[m] = Content(proc.pr, st.pulls[proc.pr], m)
  BY DEF Only, Verified, Content
<1>7. main' = Overwrite(main, c)
  BY DEF CopyFiles
<1> HIDE DEF c
<1>8. /\ DOMAIN main' = DOMAIN main \cup DOMAIN c
      /\ \A m \in DOMAIN main' : main'[m] = IF m \in DOMAIN c THEN c[m] ELSE main[m]
  BY <1>7 DEF Overwrite
<1> QED  BY <1>1, <1>5, <1>6, <1>8

(* What a run has landed of its decisions stays on main as it is. *)
LEMMA LandedStays ==
  ASSUME IInv, OneRun, Next, NEW r \in Runs, files[r] # NoFile, NEW m \in News(files[r]),
         m \in DOMAIN main,
         main[m] = Content(files[r].decided[m].from, files[r].pulls[files[r].decided[m].from], m)
  PROVE  m \in DOMAIN main' /\ main'[m] = main[m]
<1>1. CASE main' = main
  BY <1>1
<1>2. CASE MergePr
  <2>1. ~ Clash(Now) /\ main' = Overwrite(main, Now)
    BY <1>2 DEF MergePr
  <2> QED  BY <2>1, MergeAdds
<1>3. CASE \E k \in Prs : MergeByHand(k)
  <2>1. PICK k \in Prs : MergeByHand(k)
    BY <1>3
  <2>2. ~ Clash(Delivery(k, head[k]).files) /\ main' = Overwrite(main, Delivery(k, head[k]).files)
    BY <2>1 DEF MergeByHand
  <2> QED  BY <2>2, MergeAdds
<1>4. CASE WriteManifest
  BY <1>4 DEF WriteManifest
<1>5. CASE CopyFiles
  <2>1. CASE m \notin PubOf(st, proc.pr)
    BY <1>5, <2>1, CopyWrites
  <2>2. CASE m \in PubOf(st, proc.pr)
    <3>1. /\ m \in News(st) /\ st.decided[m].from = proc.pr /\ run \in Runs
          /\ m \in DOMAIN main' /\ main'[m] = Content(proc.pr, st.pulls[proc.pr], m)
      BY <1>5, <2>2, CopyWrites
    <3>2. UnderWay(r) /\ proc.at # "idle"
      BY <1>5 DEF UnderWay, News, CopyFiles
    <3>3. r = run
      BY <3>2 DEF OneRun
    <3>4. files[r] = st
      BY <3>3 DEF st
    <3> QED  BY <3>1, <3>4
  <2> QED  BY <2>1, <2>2
<1> QED  BY <1>1, <1>2, <1>3, <1>4, <1>5, Writers

(* What the manifest names it goes on to name, with the same content, and main has it so. *)
LEMMA ListedStays ==
  ASSUME IInv, Next, NEW m \in DOMAIN manifest
  PROVE  /\ m \in DOMAIN manifest' /\ manifest'[m] = manifest[m]
         /\ m \in DOMAIN main' /\ main'[m] = main[m]
<1>1. m \in DOMAIN manifest' /\ manifest'[m] = manifest[m]
  <2>1. CASE WriteManifest
    <3>1. manifest' = manifest \/ manifest' = main
      BY <2>1 DEF WriteManifest, ManifestFromHub
    <3> QED  BY <2>1, <3>1, WriteManifestKeeps DEF IInv, PublicTrue
  <2>2. CASE manifest' = manifest
    BY <2>2
  <2>3. CASE MergePr \/ CopyFiles \/ \E n \in Prs : MergeByHand(n)
    <3>1. manifest' = manifest
      BY <2>3 DEF MergePr, CopyFiles, MergeByHand
    <3> QED  BY <3>1
  <2> QED  BY <2>1, <2>2, <2>3, Writers
<1>2. PublicTrue /\ PublicTrue'
  BY NextKeeps DEF IInv
<1> QED  BY <1>1, <1>2 DEF PublicTrue

(* A PR that is not open is not opened again, nor pushed to. *)
LEMMA SettledStays ==
  ASSUME IInv, status = [n \in Prs |-> status[n]], Next, NEW n \in Prs, status[n] # "open"
  PROVE  status'[n] # "open" /\ head'[n] = head[n] /\ (status[n] \in Settled => status'[n] \in Settled)
<1>1. CASE MergePr
  BY <1>1 DEF MergePr, Settled
<1>2. CASE FinishCopy
  <2>1. PICK k : status' = [status EXCEPT ![k] = IF st.copied[k] /\ @ = "open" THEN "closed" ELSE @]
    BY <1>2 DEF FinishCopy
  <2>2. head' = head
    BY <1>2 DEF FinishCopy
  <2> QED  BY <2>1, <2>2 DEF Settled
<1>3. CASE ClosePr
  BY <1>3 DEF ClosePr, Closed, Settled
<1>4. CASE \E k \in Prs : Push(k)
  BY <1>4 DEF Push, Settled, IInv, HeadsAre
<1>5. CASE \E k \in Prs : MergeByHand(k)
  BY <1>5 DEF MergeByHand, Settled
<1> QED  BY <1>1, <1>2, <1>3, <1>4, <1>5, WritersAre

(* Nothing a run goes by is taken from it. *)
LEMMA SteadyIs ==
  ASSUME IInv, ~ world.overlap, OneRun, FilesTrue, status = [n \in Prs |-> status[n]], Next
  PROVE  AllSteady
<1>1. world' = world
  BY WritersAre
<1>2. ASSUME NEW m \in DOMAIN manifest
      PROVE  m \in DOMAIN manifest' /\ manifest'[m] = manifest[m]
  BY ListedStays
<1>3. ASSUME NEW n \in Prs, status[n] \in Settled
      PROVE  status'[n] \in Settled /\ head'[n] = head[n]
  BY <1>3, SettledStays DEF Settled
<1>4. ASSUME NEW r \in Runs, NEW n \in Dealt(r), UnderWay(r)
      PROVE  report'[n] = report[n]
  <2>1. CASE \E k \in Prs : Verify(k)
    <3>1. PICK k \in Prs : Verify(k)
      BY <2>1
    <3>2. n \in r /\ n \notin ToDo(r, files[r]) /\ n \in Prs
      BY DEF Dealt, Prs
    <3>3. k # n
      BY <1>4, <3>1, <3>2 DEF Verify
    <3> QED  BY <3>1, <3>2, <3>3 DEF Verify, IInv, HeadsAre
  <2> QED  BY <2>1, WritersAre
<1>5. ASSUME NEW r \in Runs, files[r] # NoFile, NEW m \in News(files[r]),
             files[r].decided[m].from \in Dealt(r), m \in DOMAIN main
      PROVE  m \in DOMAIN main' /\ main'[m] = main[m]
  <2>1. LandedFrom(r, files[r].decided[m].from)
    BY <1>5 DEF FilesTrue, CoreTrue, DealtWith, DealtIs
  <2>2. main[m] = Content(files[r].decided[m].from, files[r].pulls[files[r].decided[m].from], m)
    BY <1>5, <2>1 DEF LandedFrom
  <2> QED  BY <1>5, <2>2, LandedStays
<1> QED  BY <1>1, <1>2, <1>3, <1>4, <1>5 DEF AllSteady, Steady

-----------------------------------------------------------------------------
\* The files, step by step.

(* What it takes for a PR to be dealt with, once a step has been taken. *)
Deals(n) ==
  /\ Materials(n, st.pulls[n]) # {} => UnderWay(run) /\ report[n].head = st.pulls[n]
  /\ \A m \in News(st) : st.decided[m].from = n =>
       m \in DOMAIN main' /\ main'[m] = Content(n, st.pulls[n], m)

(* A step that records s, or ends before it does. *)
LEMMA SaveFiles ==
  ASSUME FilesAre, FilesTrue, AllSteady, run \in Runs, st # NoFile, UNCHANGED <<world, report>>,
         NEW s, Record(s) \/ files' = files, SamePlan(st, s),
         \A n \in run : n \in s.merged \cup DOMAIN s.copied =>
           n \in st.merged \cup DOMAIN st.copied \/ Deals(n),
         \A r \in Runs : r = run /\ files'[r] = s => StageOf(r)'
  PROVE  FilesTrue'
<1>1. CASE files' = files
  BY <1>1, FilesKept
<1>2. CASE Record(s)
  <2>1. files'[run] = s /\ \A q \in Runs \ {run} : files'[q] = files[q]
    BY <1>2 DEF Record, FilesAre
  <2>2. ASSUME NEW r \in Runs, r = run, files'[r] # NoFile
        PROVE  CoreTrue(r)' /\ StageOf(r)'
    <3>1. files[r] = st /\ files'[r] = s /\ files[r] # NoFile
      BY <2>1, <2>2 DEF st
    <3>2. CoreTrue(r) /\ Steady(r) /\ SamePlan(files[r], files'[r])
      BY <3>1 DEF FilesTrue, AllSteady
    <3>3. ASSUME NEW n \in Dealt(r)'
          PROVE  n \in Dealt(r) \/ DealtIs(r, n)'
      <4>1. n \in r /\ n \in s.merged \cup DOMAIN s.copied
        BY <3>1 DEF Dealt, ToDo
      <4>2. CASE n \in st.merged \cup DOMAIN st.copied
        BY <3>1, <4>1, <4>2 DEF Dealt, ToDo
      <4>3. CASE Deals(n)
        <5>1. s.pulls = st.pulls /\ s.decided = st.decided
          BY DEF SamePlan
        <5>2. UnderWay(run) => UnderWay(r)'
          BY <2>2, <3>1, <5>1 DEF UnderWay, st
        <5>3. News(s) = News(st)
          BY <5>1 DEF News
        <5>4. LandedFrom(r, n)'
          BY <3>1, <4>3, <5>1, <5>3 DEF LandedFrom, Deals, Content, Delivery
        <5>5. Materials(n, files'[r].pulls[n]) # {} => UnderWay(r)' /\ report'[n].head = files'[r].pulls[n]
          BY <3>1, <4>3, <5>1, <5>2 DEF Deals
        <5>6. Materials(n, files[r].pulls[n])' = Materials(n, files'[r].pulls[n])
          BY DEF Materials, Delivery
        <5> QED  BY <5>4, <5>5, <5>6 DEF DealtIs
      <4> QED  BY <2>2, <4>1, <4>2, <4>3
    <3>4. CoreTrue(r)'
      BY <2>2, <3>1, <3>2, <3>3, CoreOn
    <3>5. StageOf(r)'
      BY <2>2, <3>1
    <3> QED  BY <3>4, <3>5
  <2> QED  BY <2>1, <2>2, FilesRecorded
<1> QED  BY <1>1, <1>2

(* Where a run is after most records. *)
LEMMA StageSaved ==
  ASSUME FilesTrue, AllSteady, run \in Runs, st # NoFile, NEW s, SamePlan(st, s),
         \/ s.done = st.done
         \/ /\ "merge" \in st.done /\ st.done \subseteq s.done
            /\ s.done \subseteq st.done \cup {"local", "docs", "card"},
         "merge" \in st.done => s.merged = st.merged,
         s.started => \/ st.started /\ s.original = st.original
                      \/ "manifest" \in st.done /\ s.original = Main,
         s.sub # {} => s.started
  PROVE  \A r \in Runs : r = run /\ files'[r] = s => StageOf(r)'
<1> SUFFICES ASSUME NEW r \in Runs, r = run, files'[r] = s
             PROVE  StageOf(r)'
  OBVIOUS
<1>1. files[r] = st /\ files[r] # NoFile
  BY DEF st
<1>2. StageOf(r) /\ Steady(r) /\ SamePlan(files[r], files'[r])
  BY <1>1 DEF FilesTrue, AllSteady
<1> QED  BY <1>1, <1>2, StageOn

-----------------------------------------------------------------------------
\* The merge step.

(* What holds while a run merges. *)
LEMMA MergingIs ==
  ASSUME IInv, FilesTrue, StepTrue, proc.at \in Merging
  PROVE  /\ run \in Runs /\ st # NoFile /\ FileIs(world, verified, run, st)
         /\ st.done = {} /\ ~ st.started /\ st.sub = {} /\ st.pulls = st.heads.pulls
         /\ \A n \in ToDo(run, st) :
              st.pulls[n] <= head[n] /\ (head[n] = st.pulls[n] => report[n].head = st.pulls[n])
         /\ st.hand \subseteq run
         /\ \A n \in st.hand :
              /\ status[n] \in Settled /\ st.pulls[n] = head[n]
              /\ \A m \in News(st) : st.decided[m].from = n =>
                   m \in DOMAIN main /\ main[m] = Content(n, st.pulls[n], m)
         /\ \A n \in run : Materials(n, st.pulls[n]) # {} => UnderWay(run)
         /\ \A m \in News(st) : /\ st.decided[m].from \in run /\ UnderWay(run)
                                /\ m \in Materials(st.decided[m].from, st.pulls[st.decided[m].from])
<1>1. run \in Runs /\ st # NoFile /\ FileIs(world, verified, run, st)
  BY RunIs DEF IInv, Merging
<1>2. PICK q \in Runs : q = run
  BY <1>1
<1>3. Checked(q) /\ CoreTrue(q) /\ StageOf(q) /\ files[q] = st
  BY <1>1, <1>2 DEF StepTrue, FilesTrue, st
<1>4. st.done = {} /\ st.pulls = st.heads.pulls
  BY <1>3 DEF Checked, StageOf
<1>5. ~ st.started /\ st.sub = {}
  BY <1>3, <1>4 DEF StageOf
<1>6. \A n \in ToDo(run, st) :
        st.pulls[n] <= head[n] /\ (head[n] = st.pulls[n] => report[n].head = st.pulls[n])
  BY <1>2, <1>3 DEF Checked
<1>7. /\ st.hand \subseteq run
      /\ \A n \in st.hand :
           /\ status[n] \in Settled /\ st.pulls[n] = head[n]
           /\ \A m \in News(st) : st.decided[m].from = n =>
                m \in DOMAIN main /\ main[m] = Content(n, st.pulls[n], m)
  BY <1>2, <1>3 DEF Checked, CoreTrue, HandIs, LandedFrom, Settled
<1>8. ASSUME NEW n \in run, Materials(n, st.pulls[n]) # {}
      PROVE  UnderWay(run)
  <2>1. Materials(n, st.pulls[n]) \subseteq DOMAIN st.decided
    BY DecidesAll
  <2> QED  BY <1>1, <1>8, <2>1 DEF UnderWay, st
<1>9. ASSUME NEW m \in News(st)
      PROVE  /\ st.decided[m].from \in run /\ UnderWay(run)
             /\ m \in Materials(st.decided[m].from, st.pulls[st.decided[m].from])
  <2>1. UnderWay(q) /\ UnderWay(run)
    BY <1>1, <1>2, <1>3 DEF UnderWay, News, st
  <2>2. AgreedOn(q, m) /\ st.decided[m].from # NoPr
    BY <1>3, <2>1 DEF CoreTrue, Agreed, News
  <2>3. /\ st.decided[m].from \in q
        /\ m \in Materials(st.decided[m].from, st.heads.pulls[st.decided[m].from])
    BY <1>3, <2>2 DEF AgreedOn, AgreedIn
  <2> QED  BY <1>2, <1>4, <2>1, <2>3
<1> QED  BY <1>1, <1>4, <1>5, <1>6, <1>7, <1>8, <1>9

(* A PR that is commented on or closed is not published from. *)
LEMMA PublishesNone ==
  ASSUME NEW n, NEW ms, NEW decided, NEW own, Action(n, ms, decided, own) \in {"comment", "close"}
  PROVE  Pub(n, ms, decided) = {}
<1> DEFINE pub == Pub(n, ms, decided)
           held == Held(ms, decided)
           rest == Credited(n, ms, decided, own) \cup own
           a == CASE pub # {} /\ held \cup rest = {} -> "merge"
                  [] pub # {} /\ held # {} -> "copy_open"
                  [] pub # {} /\ held = {} /\ rest # {} -> "copy_close"
                  [] pub = {} /\ held # {} -> "comment"
                  [] OTHER -> "close"
<1>1. held \cup Credited(n, ms, decided, own) \cup own = held \cup rest
  OBVIOUS
<1>2. Action(n, ms, decided, own) = a
  BY <1>1 DEF Action
<1> HIDE DEF pub, held, rest
<1>3. SUFFICES ASSUME pub # {}
               PROVE  a \notin {"comment", "close"}
  BY <1>2 DEF pub
<1>4. CASE held # {}
  <2>1. a = "copy_open"
    BY <1>3, <1>4
  <2> QED  BY <2>1
<1>5. CASE held = {} /\ rest # {}
  <2>1. a = "copy_close"
    BY <1>3, <1>5
  <2> QED  BY <2>1
<1>6. CASE held = {} /\ rest = {}
  <2>1. a = "merge"
    BY <1>3, <1>6
  <2> QED  BY <2>1
<1> QED  BY <1>4, <1>5, <1>6

(* A PR whose head is the delivery the run has a report on is dealt with once its files are on
   main. *)
LEMMA DealsIs ==
  ASSUME IInv, FilesTrue, StepTrue, proc.at \in Merging, NEW n \in run,
         n \notin st.merged \cup DOMAIN st.copied => head[n] = st.pulls[n],
         \A m \in News(st) : st.decided[m].from = n =>
           m \in DOMAIN main' /\ main'[m] = Content(n, st.pulls[n], m)
  PROVE  n \in st.merged \cup DOMAIN st.copied \/ Deals(n)
<1> SUFFICES ASSUME n \notin st.merged \cup DOMAIN st.copied
             PROVE  Materials(n, st.pulls[n]) # {} => UnderWay(run) /\ report[n].head = st.pulls[n]
  BY DEF Deals
<1>1. n \in ToDo(run, st)
  BY DEF ToDo
<1> QED  BY <1>1, MergingIs

(* The record of the PRs that need nothing more, or that have got their files on main. *)
LEMMA MergedTrue ==
  ASSUME IInv, FilesTrue, AllSteady, StepTrue, TakeAsMerged \/ MergePr \/ CommentPr \/ ClosePr \/ FinishCopy
  PROVE  FilesTrue'
<1>1. proc.at \in Merging /\ UNCHANGED <<world, report>>
  BY DEF TakeAsMerged, MergePr, CommentPr, ClosePr, FinishCopy, Does, MergesNext, Merging, disk
<1>2. /\ run \in Runs /\ st # NoFile /\ FileIs(world, verified, run, st)
      /\ st.done = {} /\ ~ st.started /\ st.sub = {}
  BY <1>1, MergingIs
<1>3. PICK n \in run : /\ Save(Merged(st, n), "merge")
                       /\ n \in st.merged \cup DOMAIN st.copied \/ Deals(n)
  <2>1. CASE TakeAsMerged
    <3>1. NextPr \in run /\ NextPr \in st.hand /\ main' = main
      BY <1>1, <2>1, NextIs DEF TakeAsMerged, IInv, hub
    <3>2. head[NextPr] = st.pulls[NextPr]
      BY <1>1, <3>1, MergingIs
    <3>3. \A m \in News(st) : st.decided[m].from = NextPr =>
            m \in DOMAIN main' /\ main'[m] = Content(NextPr, st.pulls[NextPr], m)
      BY <1>1, <3>1, MergingIs
    <3>4. NextPr \in st.merged \cup DOMAIN st.copied \/ Deals(NextPr)
      BY <1>1, <3>1, <3>2, <3>3, DealsIs
    <3> QED  BY <2>1, <3>1, <3>4 DEF TakeAsMerged
  <2>2. CASE MergePr \/ CommentPr \/ ClosePr
    <3>1. proc.at = "effect" /\ proc.pr \in run /\ head[proc.pr] = st.pulls[proc.pr]
      BY <2>2 DEF MergePr, CommentPr, ClosePr, Does, IInv, ProcIs, StepTrue
    <3>2. ASSUME NEW m \in News(st), st.decided[m].from = proc.pr
          PROVE  m \in DOMAIN main' /\ main'[m] = Content(proc.pr, st.pulls[proc.pr], m)
      <4>1. m \in Materials(proc.pr, st.pulls[proc.pr])
        BY <1>1, <3>2, MergingIs
      <4>2. CASE MergePr
        <5>1. ~ Clash(Now) /\ main' = Overwrite(main, Now)
          BY <4>2 DEF MergePr
        <5>2. m \in DOMAIN Now /\ Now[m] = Content(proc.pr, st.pulls[proc.pr], m)
          BY <3>1, <4>1 DEF Now, Materials, Content
        <5> QED  BY <5>1, <5>2, MergeAdds
      <4>3. CASE CommentPr \/ ClosePr
        <5>1. ActionOf(st, proc.pr) \in {"comment", "close"}
          BY <4>3 DEF CommentPr, ClosePr, Does
        <5>2. PubOf(st, proc.pr) = {}
          BY <5>1, PublishesNone DEF ActionOf, PubOf
        <5> QED  BY <3>2, <4>1, <5>2 DEF PubOf, Pub
      <4> QED  BY <2>2, <4>2, <4>3
    <3>3. proc.pr \in st.merged \cup DOMAIN st.copied \/ Deals(proc.pr)
      BY <1>1, <3>1, <3>2, DealsIs
    <3> QED  BY <2>2, <3>1, <3>3 DEF MergePr, CommentPr, ClosePr
  <2>3. CASE FinishCopy
    <3> DEFINE k == IF proc.at = "copied" THEN proc.pr ELSE NextPr
    <3>1. Save(Merged(st, k), "merge")
      BY <2>3 DEF FinishCopy
    <3>2. k \in run /\ k \in DOMAIN st.copied
      BY <2>3, NextIs DEF FinishCopy, IInv, ProcIs, StepTrue
    <3> QED  BY <3>1, <3>2
  <2> QED  BY <2>1, <2>2, <2>3
<1> DEFINE s == Merged(st, n)
<1>4. /\ SamePlan(st, s) /\ SameDocs(st, s) /\ s.done = st.done
      /\ s.merged = st.merged \cup {n} /\ s.copied = st.copied
  BY <1>2, MergedRecord DEF FileIs
<1> HIDE DEF s
<1>5. Record(s) \/ files' = files
  BY <1>3 DEF Save, SaveThen, s
<1>6. \A r \in Runs : r = run /\ files'[r] = s => StageOf(r)'
  BY <1>2, <1>4, StageSaved DEF SameDocs
<1>7. \A k \in run : k \in s.merged \cup DOMAIN s.copied =>
        k \in st.merged \cup DOMAIN st.copied \/ Deals(k)
  BY <1>3, <1>4
<1> QED  BY <1>1, <1>2, <1>4, <1>5, <1>6, <1>7, SaveFiles DEF IInv

(* The record of a copy. *)
LEMMA CopiedTrue ==
  ASSUME IInv, FilesTrue, AllSteady, StepTrue, CopyFiles
  PROVE  FilesTrue'
<1>1. proc.at \in Merging /\ UNCHANGED <<world, report>> /\ proc.at = "copy"
  BY DEF CopyFiles, Merging, disk
<1>2. /\ run \in Runs /\ st # NoFile /\ FileIs(world, verified, run, st)
      /\ st.done = {} /\ ~ st.started /\ st.sub = {}
  BY <1>1, MergingIs
<1>3. proc.pr \in run /\ head[proc.pr] = st.pulls[proc.pr]
  BY <1>1 DEF IInv, ProcIs, StepTrue
<1>4. ASSUME NEW m \in News(st), st.decided[m].from = proc.pr
      PROVE  m \in DOMAIN main' /\ main'[m] = Content(proc.pr, st.pulls[proc.pr], m)
  <2>1. m \in Materials(proc.pr, st.pulls[proc.pr])
    BY <1>1, <1>4, MergingIs
  <2>2. m \in PubOf(st, proc.pr)
    BY <1>4, <2>1 DEF PubOf, Pub
  <2> QED  BY <2>2, CopyWrites
<1>5. proc.pr \in st.merged \cup DOMAIN st.copied \/ Deals(proc.pr)
  BY <1>1, <1>3, <1>4, DealsIs
<1> DEFINE c == Overwrite(st.copied, [n \in {proc.pr} |-> ActionOf(st, n) # "copy_open"])
           s == [st EXCEPT !.copied = c]
<1>6. Record(s) \/ files' = files
  BY DEF CopyFiles, SaveThen
<1>7. DOMAIN c = DOMAIN st.copied \cup {proc.pr}
  BY DEF Overwrite
<1> HIDE DEF c
<1>8. /\ SamePlan(st, s) /\ SameDocs(st, s) /\ s.done = st.done
      /\ s.merged = st.merged /\ s.copied = c
  BY <1>2, CopiedRecord DEF FileIs
<1> HIDE DEF s
<1>9. \A r \in Runs : r = run /\ files'[r] = s => StageOf(r)'
  BY <1>2, <1>8, StageSaved DEF SameDocs
<1>10. \A k \in run : k \in s.merged \cup DOMAIN s.copied =>
         k \in st.merged \cup DOMAIN st.copied \/ Deals(k)
  BY <1>5, <1>7, <1>8
<1> QED  BY <1>1, <1>2, <1>6, <1>8, <1>9, <1>10, SaveFiles DEF IInv

(* All PRs are dealt with. *)
LEMMA AllMergedTrue ==
  ASSUME IInv, FilesTrue, AllSteady, StepTrue, AllMerged
  PROVE  FilesTrue'
<1>1. proc.at \in Merging /\ UNCHANGED <<world, report>> /\ st.merged = run
  BY DEF AllMerged, Merging, disk
<1>2. /\ run \in Runs /\ st # NoFile /\ FileIs(world, verified, run, st)
      /\ st.done = {} /\ ~ st.started /\ st.sub = {} /\ st.pulls = st.heads.pulls
  BY <1>1, MergingIs
<1>3. DOMAIN st.decided = Brought(world, st.pulls)
  BY <1>1, RunIs DEF IInv, ProcIs, Ready
<1> DEFINE s == Done(st, "merge")
<1>4. SamePlan(st, s) /\ SameMerge(st, s) /\ SameDocs(st, s) /\ s.done = {"merge"}
  BY <1>2, DoneRecord DEF FileIs
<1>5. Record(s) \/ files' = files
  BY DEF AllMerged, Save, SaveThen
<1> HIDE DEF s
<1>6. ASSUME NEW r \in Runs, r = run, files'[r] = s
      PROVE  StageOf(r)'
  BY <1>1, <1>2, <1>3, <1>4, <1>6 DEF StageOf, SamePlan, SameMerge, SameDocs
<1>7. \A k \in run : k \in s.merged \cup DOMAIN s.copied =>
        k \in st.merged \cup DOMAIN st.copied \/ Deals(k)
  BY <1>4 DEF SameMerge
<1> QED  BY <1>1, <1>2, <1>4, <1>5, <1>6, <1>7, SaveFiles DEF IInv

-----------------------------------------------------------------------------
\* After the merge step.

(* What holds of a run whose PRs are all dealt with: what it publishes is on main. *)
LEMMA LaterIs ==
  ASSUME IInv, FilesTrue, StepTrue, proc.at \in {"credits"} \cup Later
  PROVE  /\ run \in Runs /\ st # NoFile /\ FileIs(world, verified, run, st)
         /\ "merge" \in st.done /\ st.merged = run
         /\ proc.at \in Later => "manifest" \in st.done /\ ~ Nothing(run, st) /\ News(st) \subseteq DOMAIN manifest
         /\ \A m \in News(st) :
              LET n == st.decided[m].from IN
              /\ n \in run /\ UnderWay(run) /\ m \in Materials(n, st.pulls[n])
              /\ m \in DOMAIN main /\ main[m] = Content(n, st.pulls[n], m)
              /\ report[n].head = st.pulls[n]
<1>1. run \in Runs /\ st # NoFile /\ FileIs(world, verified, run, st) /\ "merge" \in st.done
  BY RunIs DEF IInv, StepTrue, Later
<1>2. PICK q \in Runs : q = run
  BY <1>1
<1>3. CoreTrue(q) /\ StageOf(q) /\ files[q] = st
  BY <1>1, <1>2 DEF FilesTrue, st
<1>4. st.merged = run /\ st.pulls = st.heads.pulls
  BY <1>1, <1>2, <1>3 DEF StageOf
<1>5. proc.at \in Later => "manifest" \in st.done /\ ~ Nothing(run, st) /\ News(st) \subseteq DOMAIN manifest
  BY <1>2, <1>3 DEF StageOf, StepTrue
<1>6. ASSUME NEW m \in News(st)
      PROVE  LET n == st.decided[m].from IN
             /\ n \in run /\ UnderWay(run) /\ m \in Materials(n, st.pulls[n])
             /\ m \in DOMAIN main /\ main[m] = Content(n, st.pulls[n], m)
             /\ report[n].head = st.pulls[n]
  <2>1. UnderWay(q) /\ UnderWay(run) /\ m \in DOMAIN st.decided
    BY <1>1, <1>2, <1>3 DEF UnderWay, News, st
  <2>2. AgreedOn(q, m) /\ st.decided[m].from # NoPr
    BY <1>3, <2>1 DEF CoreTrue, Agreed, News
  <2>3. /\ st.decided[m].from \in q
        /\ m \in Materials(st.decided[m].from, st.heads.pulls[st.decided[m].from])
    BY <1>3, <2>2 DEF AgreedOn, AgreedIn
  <2>4. st.decided[m].from \in Dealt(q)
    BY <1>2, <1>3, <1>4, <2>3 DEF Dealt, ToDo
  <2>5. DealtIs(q, st.decided[m].from)
    BY <1>3, <2>4 DEF CoreTrue, DealtWith
  <2>6. m \in DOMAIN main /\ main[m] = Content(st.decided[m].from, st.pulls[st.decided[m].from], m)
    BY <1>3, <2>1, <2>5 DEF DealtIs, LandedFrom
  <2>7. report[st.decided[m].from].head = st.pulls[st.decided[m].from]
    BY <1>3, <1>4, <2>3, <2>5 DEF DealtIs
  <2> QED  BY <1>2, <1>4, <2>1, <2>3, <2>6, <2>7
<1> QED  BY <1>1, <1>4, <1>5, <1>6

(* The docs of a run start from the maintainer's branch. *)
LEMMA StartsOnMain ==
  ASSUME OneRun, BranchIs, proc.at # "idle", ~ st.started
  PROVE  branch = Main
BY DEF OneRun, BranchIs, st

(* The record of the manifest. *)
LEMMA ManifestTrue ==
  ASSUME IInv, FilesTrue, AllSteady, StepTrue, WriteManifest
  PROVE  FilesTrue'
<1>1. /\ proc.at \in {"credits"} \cup Later /\ UNCHANGED <<world, report>>
      /\ ~ Nothing(run, st)
  BY DEF WriteManifest, disk
<1>2. /\ run \in Runs /\ st # NoFile /\ FileIs(world, verified, run, st)
      /\ "merge" \in st.done /\ st.merged = run
  BY <1>1, LaterIs
<1>3. CASE files' = files
  BY <1>3, FilesKept
<1>4. CASE files' # files
  <2> DEFINE s == Done(st, "manifest")
  <2>1. Record(s) /\ manifest' = IF SomePublished THEN main ELSE manifest
    BY <1>4 DEF WriteManifest, ManifestFromHub, Save, SaveThen
  <2>2. SamePlan(st, s) /\ SameMerge(st, s) /\ SameDocs(st, s) /\ s.done = st.done \cup {"manifest"}
    BY <1>2, DoneRecord DEF FileIs
  <2>3. "manifest" \notin st.done
    BY <1>4 DEF WriteManifest
  <2> HIDE DEF s
  <2>4. News(st) \subseteq DOMAIN manifest'
    <3> SUFFICES ASSUME NEW m \in News(st)
                 PROVE  m \in DOMAIN manifest'
      OBVIOUS
    <3> DEFINE n == st.decided[m].from
    <3>1. n \in run /\ m \in Materials(n, st.pulls[n]) /\ m \in DOMAIN main
      BY <1>1, LaterIs
    <3>2. m \in PublishedNow[n]
      BY <3>1 DEF PublishedNow, Published, PubOf, Pub
    <3>3. SomePublished
      BY <3>1, <3>2 DEF SomePublished
    <3> QED  BY <2>1, <3>1, <3>3
  <2>5. ASSUME NEW r \in Runs, r = run, files'[r] = s
        PROVE  StageOf(r)'
    <3>1. files[r] = st /\ files[r] # NoFile
      BY <1>2, <2>5 DEF st
    <3>2. StageOf(r) /\ SamePlan(files[r], files'[r])
      BY <2>2, <2>5, <3>1 DEF FilesTrue
    <3>3. ~ Nothing(r, files[r])'
      BY <1>1, <2>5, <3>1, <3>2, NothingSame
    <3>4. News(files'[r]) = News(st)
      BY <3>1, <3>2 DEF News, SamePlan
    <3>5. /\ ~ st.started /\ st.sub = {} /\ st.pulls = st.heads.pulls
          /\ DOMAIN st.decided = Brought(world, st.pulls)
      BY <1>2, <2>3, <3>1, <3>2 DEF StageOf
    <3> QED  BY <1>1, <1>2, <2>2, <2>4, <2>5, <3>3, <3>4, <3>5 DEF StageOf, SamePlan, SameMerge, SameDocs
  <2>6. \A k \in run : k \in s.merged \cup DOMAIN s.copied =>
          k \in st.merged \cup DOMAIN st.copied \/ Deals(k)
    BY <2>2 DEF SameMerge
  <2> QED  BY <1>1, <1>2, <2>1, <2>2, <2>5, <2>6, SaveFiles DEF IInv
<1> QED  BY <1>3, <1>4

(* A record of a later phase. *)
LEMMA PhaseSaved ==
  ASSUME IInv, FilesTrue, AllSteady, StepTrue, proc.at \in Later, UNCHANGED <<world, report>>,
         NEW s, Record(s) \/ files' = files, SamePlan(st, s), SameMerge(st, s),
         st.done \subseteq s.done, s.done \subseteq st.done \cup {"local", "docs", "card"},
         s.started => (st.started /\ s.original = st.original) \/ s.original = Main,
         s.sub # {} => s.started
  PROVE  FilesTrue'
<1>1. /\ run \in Runs /\ st # NoFile /\ FileIs(world, verified, run, st)
      /\ "merge" \in st.done /\ "manifest" \in st.done
  BY LaterIs
<1>2. \A r \in Runs : r = run /\ files'[r] = s => StageOf(r)'
  BY <1>1, StageSaved DEF SameMerge
<1>3. \A k \in run : k \in s.merged \cup DOMAIN s.copied =>
        k \in st.merged \cup DOMAIN st.copied \/ Deals(k)
  BY DEF SameMerge
<1> QED  BY <1>1, <1>2, <1>3, SaveFiles DEF IInv

(* The corpus, the card and the comments on claims. *)
LEMMA PhasesTrue ==
  ASSUME IInv, FilesTrue, AllSteady, StepTrue, MoveLocal \/ WriteCard \/ TellClaim
  PROVE  FilesTrue'
<1>1. proc.at \in Later /\ UNCHANGED <<world, report>>
  BY DEF MoveLocal, WriteCard, TellClaim, Later, disk
<1>2. /\ run \in Runs /\ st # NoFile /\ FileIs(world, verified, run, st)
      /\ st.sub # {} => st.started
  <2>1. run \in Runs /\ st # NoFile /\ FileIs(world, verified, run, st)
    BY <1>1, LaterIs
  <2> QED  BY <2>1 DEF FilesTrue, StageOf, st
<1>3. CASE files' = files
  BY <1>3, FilesKept
<1>4. CASE MoveLocal \/ WriteCard
  <2>1. PICK x \in {"local", "card"} : Record(Done(st, x)) \/ files' = files
    BY <1>4 DEF MoveLocal, WriteCard, Save, SaveThen
  <2> DEFINE s == Done(st, x)
  <2>2. SamePlan(st, s) /\ SameMerge(st, s) /\ SameDocs(st, s) /\ s.done = st.done \cup {x}
    BY <1>2, DoneRecord DEF FileIs
  <2>3. Record(s) \/ files' = files
    BY <2>1
  <2> HIDE DEF s
  <2>4. /\ st.done \subseteq s.done /\ s.done \subseteq st.done \cup {"local", "docs", "card"}
        /\ s.started => (st.started /\ s.original = st.original) \/ s.original = Main
        /\ s.sub # {} => s.started
    BY <1>2, <2>2 DEF SameDocs
  <2> QED  BY <1>1, <2>2, <2>3, <2>4, PhaseSaved
<1>5. CASE TellClaim
  <2> DEFINE c == st.commented \cup {MinOf(ToTell)}
             s == [st EXCEPT !.commented = c]
  <2>1. Record(s) \/ files' = files
    BY <1>5 DEF TellClaim, Save, SaveThen
  <2> HIDE DEF c
  <2>2. SamePlan(st, s) /\ SameMerge(st, s) /\ SameDocs(st, s) /\ s.done = st.done
    BY <1>2, CommentedRecord DEF FileIs
  <2> HIDE DEF s
  <2>3. /\ st.done \subseteq s.done /\ s.done \subseteq st.done \cup {"local", "docs", "card"}
        /\ s.started => (st.started /\ s.original = st.original) \/ s.original = Main
        /\ s.sub # {} => s.started
    BY <1>2, <2>2 DEF SameDocs
  <2> QED  BY <1>1, <2>1, <2>2, <2>3, PhaseSaved
<1> QED  BY <1>4, <1>5

(* The docs PR. *)
LEMMA DocsTrueOn ==
  ASSUME IInv, FilesTrue, AllSteady, StepTrue, OneRun, BranchIs,
         DocsEmpty \/ DocsCommit \/ DocsPush \/ DocsOpen \/ DocsLand \/ DocsConflict
  PROVE  FilesTrue'
<1>1. proc.at \in Later /\ proc.at # "idle" /\ UNCHANGED <<world, report>>
  BY DEF DocsEmpty, DocsCommit, DocsPush, DocsOpen, DocsLand, DocsConflict, DocsStarts, DocsStep, Lands, Later, disk
<1>2. /\ run \in Runs /\ st # NoFile /\ FileIs(world, verified, run, st)
      /\ st = [f \in FileFields |-> st[f]]
      /\ st.sub # {} => st.started
  <2>1. run \in Runs /\ st # NoFile /\ FileIs(world, verified, run, st)
    BY <1>1, LaterIs
  <2> QED  BY <2>1 DEF FilesTrue, StageOf, st, FileIs
<1>3. ~ st.started => branch = Main
  BY <1>1, StartsOnMain
<1> DEFINE t == Started(st)
<1>4. /\ SamePlan(st, t) /\ SameMerge(st, t) /\ t.done = st.done /\ t.sub = st.sub
      /\ t.started /\ t.original = IF st.started THEN st.original ELSE branch
      /\ t = [f \in FileFields |-> t[f]]
  BY <1>2, StartedRecord
<1>5. (st.started /\ t.original = st.original) \/ t.original = Main
  BY <1>3, <1>4
<1>6. CASE DocsEmpty
  <2> DEFINE e == [t EXCEPT !.empty = TRUE]
             s == Done(e, "docs")
  <2>1. Record(s) \/ files' = files
    BY <1>6 DEF DocsEmpty, Save, SaveThen
  <2> HIDE DEF t
  <2>2. /\ SamePlan(t, e) /\ SameMerge(t, e) /\ SameDocs(t, e) /\ e.done = t.done
        /\ e = [f \in FileFields |-> e[f]]
    BY <1>4, EmptyRecord
  <2> HIDE DEF e
  <2>3. SamePlan(e, s) /\ SameMerge(e, s) /\ SameDocs(e, s) /\ s.done = e.done \cup {"docs"}
    BY <2>2, DoneRecord
  <2> HIDE DEF s
  <2>4. SamePlan(st, s) /\ SameMerge(st, s)
    BY <1>4, <2>2, <2>3 DEF SamePlan, SameMerge
  <2>5. /\ st.done \subseteq s.done /\ s.done \subseteq st.done \cup {"local", "docs", "card"}
        /\ s.started => (st.started /\ s.original = st.original) \/ s.original = Main
        /\ s.sub # {} => s.started
    BY <1>4, <1>5, <2>2, <2>3 DEF SameDocs
  <2> QED  BY <1>1, <2>1, <2>4, <2>5, PhaseSaved
<1>7. CASE DocsCommit
  <2> DEFINE s == [t EXCEPT !.sub = {"committed"}]
  <2>1. Record(s) \/ Record(t)
    BY <1>7 DEF DocsCommit
  <2> HIDE DEF t
  <2>2. CASE Record(t)
    BY <1>1, <1>2, <1>4, <1>5, <2>2, PhaseSaved
  <2>3. CASE Record(s)
    <3>1. /\ SamePlan(t, s) /\ SameMerge(t, s) /\ s.done = t.done /\ s.started = t.started
          /\ s.original = t.original
      BY <1>4, SubRecord
    <3> HIDE DEF s
    <3>2. SamePlan(st, s) /\ SameMerge(st, s)
      BY <1>4, <3>1 DEF SamePlan, SameMerge
    <3>3. /\ st.done \subseteq s.done /\ s.done \subseteq st.done \cup {"local", "docs", "card"}
          /\ s.started => (st.started /\ s.original = st.original) \/ s.original = Main
          /\ s.started
      BY <1>4, <1>5, <3>1
    <3> QED  BY <1>1, <2>3, <3>2, <3>3, PhaseSaved
  <2> QED  BY <2>1, <2>2, <2>3
<1>8. CASE DocsPush \/ DocsOpen \/ DocsConflict
  <2>1. PICK s : /\ Record(s) \/ files' = files
                 /\ SamePlan(st, s) /\ SameMerge(st, s) /\ s.done = st.done /\ s.started = st.started
                 /\ s.original = st.original /\ (s.sub = {} \/ st.sub # {})
    <3>1. CASE DocsPush
      <4> DEFINE x == st.sub \cup {"pushed"}
                 s == [st EXCEPT !.sub = x]
      <4>1. Record(s) \/ files' = files
        BY <3>1 DEF DocsPush, Save, SaveThen
      <4>2. st.sub # {}
        BY <3>1 DEF DocsPush
      <4> HIDE DEF x
      <4>3. /\ SamePlan(st, s) /\ SameMerge(st, s) /\ s.done = st.done /\ s.started = st.started
            /\ s.original = st.original
        BY <1>2, SubRecord
      <4> QED  BY <4>1, <4>2, <4>3
    <3>2. CASE DocsOpen
      <4> DEFINE s == [st EXCEPT !.docsPr = TRUE]
      <4>1. Record(s) \/ files' = files
        BY <3>2 DEF DocsOpen, Save, SaveThen
      <4>2. st.sub # {}
        BY <3>2 DEF DocsOpen
      <4>3. /\ SamePlan(st, s) /\ SameMerge(st, s) /\ s.done = st.done /\ s.started = st.started
            /\ s.original = st.original
        BY <1>2, OpenRecord
      <4> QED  BY <4>1, <4>2, <4>3
    <3>3. CASE DocsConflict
      <4> DEFINE s == [st EXCEPT !.retried = TRUE, !.sub = {}, !.docsPr = FALSE]
      <4>1. Record(s) \/ files' = files
        BY <3>3 DEF DocsConflict, Save, SaveThen
      <4>3. /\ SamePlan(st, s) /\ SameMerge(st, s) /\ s.done = st.done /\ s.started = st.started
            /\ s.original = st.original /\ s.sub = {}
        BY <1>2, RedoneRecord
      <4> QED  BY <4>1, <4>3
    <3> QED  BY <1>8, <3>1, <3>2, <3>3
  <2> QED  BY <1>1, <1>2, <2>1, PhaseSaved
<1>9. CASE DocsLand
  <2> DEFINE s == Done(st, "docs")
  <2>1. Record(s) \/ files' = files
    BY <1>9 DEF DocsLand, Save, SaveThen
  <2>2. SamePlan(st, s) /\ SameMerge(st, s) /\ SameDocs(st, s) /\ s.done = st.done \cup {"docs"}
    BY <1>2, DoneRecord
  <2> HIDE DEF s
  <2>3. /\ st.done \subseteq s.done /\ s.done \subseteq st.done \cup {"local", "docs", "card"}
        /\ s.started => (st.started /\ s.original = st.original) \/ s.original = Main
        /\ s.sub # {} => s.started
    BY <1>2, <2>2 DEF SameDocs
  <2> QED  BY <1>1, <2>1, <2>2, <2>3, PhaseSaved
<1> QED  BY <1>6, <1>7, <1>8, <1>9

(* Every step but Prepare keeps the state files true. *)
LEMMA FilesTrueOn ==
  ASSUME IInv, FilesTrue, AllSteady, StepTrue, OneRun, BranchIs, Next, ~ Prepare
  PROVE  FilesTrue'
<1>1. CASE UNCHANGED files
  BY <1>1, FilesKept
<1>2. CASE NothingToRecord \/ CloseClaims
  <2>1. proc.at \in {"credits"} \cup Later
    BY <1>2 DEF NothingToRecord, CloseClaims, Later
  <2>2. run \in Runs
    BY <2>1, LaterIs
  <2>3. files' = [files EXCEPT ![run] = NoFile] \/ files' = files
    BY <1>2 DEF NothingToRecord, CloseClaims, Over
  <2>4. CASE files' = [files EXCEPT ![run] = NoFile]
    <3>1. files'[run] = NoFile /\ \A q \in Runs \ {run} : files'[q] = files[q]
      BY <2>2, <2>4 DEF IInv, FilesAre
    <3> QED  BY <3>1, FilesRecorded
  <2> QED  BY <1>1, <2>3, <2>4
<1>3. CASE CheckHead \/ MergeRefused \/ CopyPart \/ DocsDone \/ DocsDirty \/ Killed
  BY <1>1, <1>3 DEF CheckHead, MergeRefused, CopyPart, DocsDone, DocsDirty, Killed
<1> QED  BY <1>1, <1>2, <1>3, FilesWritten, MergedTrue, CopiedTrue, AllMergedTrue, ManifestTrue, PhasesTrue,
            DocsTrueOn DEF Step

-----------------------------------------------------------------------------
\* Prepare: what the run decides is sound.

\* A run's state before its merge step: what it says of its decisions and of its PRs.
SoundPlan(r, s) ==
  DOMAIN s.decided # {} =>
    /\ DOMAIN s.heads.pulls = r
    /\ \A m \in DOMAIN s.decided : AgreedIn(r, s, m)
    /\ \A n \in r : s.own[n] \cap News(s) = {}
LandedIn(s, n) ==
  \A m \in News(s) : s.decided[m].from = n => m \in DOMAIN main /\ main[m] = Content(n, s.pulls[n], m)
SoundDealt(r, s) ==
  \A n \in r \ ToDo(r, s) :
    /\ Materials(n, s.pulls[n]) # {} => DOMAIN s.decided # {} /\ report[n].head = s.pulls[n]
    /\ LandedIn(s, n)
SoundHand(r, s) ==
  s.hand \subseteq r /\ \A n \in s.hand : status[n] \in Settled /\ s.pulls[n] = head[n]
Sound(r, s) ==
  /\ s # NoFile /\ SoundPlan(r, s) /\ SoundDealt(r, s) /\ SoundHand(r, s)
  /\ s.done = {} /\ ~ s.started /\ s.sub = {}

\* A run that is about to merge does so with deliveries it has a report on.
CheckedIn(r, s) ==
  /\ s.pulls = s.heads.pulls
  /\ \A n \in ToDo(r, s) : s.pulls[n] = head[n] /\ report[n].head = head[n]
  /\ \A n \in s.hand : LandedIn(s, n)
BegunIn(s) == s.merged # {} \/ DOMAIN s.copied # {} \/ News(s) \cap DOMAIN main # {}

(* A head is the number of a delivery. *)
LEMMA HeadNumber ==
  ASSUME IInv, NEW n \in Prs
  PROVE  head[n] \in Nat
<1>1. head[n] \in DOMAIN world.heads[n] /\ world \in Worlds /\ n \in UNION Runs
  BY DEF IInv, HeadsAre, Prs
<1>2. DOMAIN world.heads[n] = 1 .. Len(world.heads[n]) /\ Len(world.heads[n]) \in Nat
  BY <1>1, AcceptAssumption
<1> QED  BY <1>1, <1>2

(* A sound state is true once it is recorded. *)
LEMMA SoundIs ==
  ASSUME UNCHANGED <<world, status, head, main, manifest, report>>, NEW s, Sound(run, s)
  PROVE  \A r \in Runs : r = run /\ files'[r] = s => CoreTrue(r)' /\ StageOf(r)'
<1> SUFFICES ASSUME NEW r \in Runs, r = run, files'[r] = s
             PROVE  CoreTrue(r)' /\ StageOf(r)'
  OBVIOUS
<1>1. Sound(r, s) /\ (UnderWay(r)' <=> DOMAIN s.decided # {})
  BY DEF UnderWay, Sound
<1>2. Agreed(r)'
  <2> SUFFICES ASSUME UnderWay(r)'
               PROVE  /\ DOMAIN files'[r].heads.pulls = r
                      /\ \A m \in DOMAIN files'[r].decided : AgreedOn(r, m)'
                      /\ \A n \in r : files'[r].own[n] \cap News(files'[r]) = {}
    BY DEF Agreed
  <2>1. /\ DOMAIN s.heads.pulls = r
        /\ \A m \in DOMAIN s.decided : AgreedIn(r, s, m)
        /\ \A n \in r : s.own[n] \cap News(s) = {}
    BY <1>1 DEF Sound, SoundPlan
  <2>2. ASSUME NEW m \in DOMAIN s.decided
        PROVE  AgreedOn(r, m)'
    <3>1. AgreedIn(r, s, m)
      BY <2>1
    <3> QED  BY <3>1 DEF AgreedOn, AgreedIn, AllBring, Content, Delivery, Materials
  <2> QED  BY <2>1, <2>2
<1>3. DealtWith(r)'
  <2> SUFFICES ASSUME NEW n \in Dealt(r)'
               PROVE  DealtIs(r, n)'
    BY DEF DealtWith
  <2>1. n \in r \ ToDo(r, s)
    BY DEF Dealt, ToDo
  <2>2. /\ Materials(n, s.pulls[n]) # {} => DOMAIN s.decided # {} /\ report[n].head = s.pulls[n]
        /\ LandedIn(s, n)
    BY <1>1, <2>1 DEF Sound, SoundDealt
  <2>3. LandedFrom(r, n)'
    BY <2>2 DEF LandedFrom, LandedIn, News, Content, Delivery
  <2>4. Materials(n, files[r].pulls[n])' = Materials(n, s.pulls[n])
    BY DEF Materials, Delivery
  <2> QED  BY <1>1, <2>2, <2>3, <2>4 DEF DealtIs
<1>4. HandIs(r)'
  BY <1>1 DEF HandIs, Sound, SoundHand, Settled
<1>5. StageOf(r)'
  BY <1>1 DEF StageOf, Sound
<1> QED  BY <1>2, <1>3, <1>4, <1>5 DEF CoreTrue

(* What a run starts to prepare from is sound. *)
LEMMA PriorSound ==
  ASSUME IInv, FilesTrue, StepTrue, proc.at = "prepare"
  PROVE  /\ run \in Runs /\ PriorIs(world, verified, run, Prior(run)) /\ Sound(run, Prior(run))
         /\ (Prior(run) = st /\ st # NoFile) \/ (Prior(run) = Fresh /\ st = NoFile)
<1>1. run \in Runs /\ "merge" \notin Prior(run).done
  BY DEF IInv, ProcIs, StepTrue
<1>2. PriorIs(world, verified, run, Prior(run))
  BY <1>1, PriorHolds DEF IInv
<1>3. CASE st = NoFile
  <2>1. Prior(run) = Fresh
    BY <1>3 DEF Prior, st
  <2>2. ToDo(run, Fresh) = run /\ DOMAIN Fresh.decided = {} /\ Fresh # NoFile
    BY FreshIs, FileIsSome
  <2>3. Fresh.hand = {} /\ Fresh.done = {} /\ Fresh.started = FALSE /\ Fresh.sub = {}
    BY DEF Fresh
  <2>4. Sound(run, Fresh)
    BY <2>2, <2>3 DEF Sound, SoundPlan, SoundDealt, SoundHand
  <2> QED  BY <1>1, <1>2, <1>3, <2>1, <2>4
<1>4. CASE st # NoFile
  <2>1. PICK r \in Runs : r = run
    BY <1>1
  <2>2. Prior(run) = st /\ files[r] = st
    BY <1>4, <2>1 DEF Prior, st
  <2>3. CoreTrue(r) /\ StageOf(r)
    BY <1>4, <2>2 DEF FilesTrue
  <2>4. st.done = {} /\ ~ st.started /\ st.sub = {}
    BY <1>1, <2>2, <2>3 DEF StageOf
  <2>5. UnderWay(r) <=> DOMAIN st.decided # {}
    BY <1>4, <2>2 DEF UnderWay
  <2>6. SoundPlan(r, st)
    BY <2>2, <2>3, <2>5 DEF CoreTrue, Agreed, SoundPlan, AgreedOn
  <2>7. SoundDealt(r, st)
    BY <2>2, <2>3, <2>5 DEF CoreTrue, DealtWith, DealtIs, Dealt, LandedFrom, LandedIn, SoundDealt
  <2>8. SoundHand(r, st)
    BY <2>2, <2>3 DEF CoreTrue, HandIs, SoundHand, Settled
  <2> QED  BY <1>1, <1>2, <1>4, <2>1, <2>2, <2>4, <2>6, <2>7, <2>8 DEF Sound
<1> QED  BY <1>3, <1>4

(* What Known changes of a state, and what not. *)
LEMMA KnownRecord ==
  ASSUME NEW r, NEW s, s = [f \in FileFields |-> s[f]]
  PROVE  LET t == Known(r, s)
         IN  /\ t = [f \in FileFields |-> t[f]] /\ t.pulls = Pulls(r, s)
             /\ t.decided = s.decided /\ t.heads = s.heads /\ t.sub = s.sub /\ t.own = s.own
             /\ t.merged = s.merged /\ t.copied = s.copied /\ t.done = s.done /\ t.started = s.started
             /\ t.hand = s.hand \cup {n \in ToDo(r, s) : status[n] = "merged"}
<1> DEFINE t == Known(r, s)
           hand == s.hand \cup {n \in ToDo(r, s) : status[n] = "merged"}
<1>1. t = [s EXCEPT !.pulls = Pulls(r, s), !.who = WhoIs(r, s), !.hand = hand]
  BY DEF Known
<1> HIDE DEF t, hand
<1>2. /\ t = [f \in FileFields |-> t[f]] /\ t.pulls = Pulls(r, s)
      /\ t.decided = s.decided /\ t.heads = s.heads /\ t.sub = s.sub /\ t.own = s.own
      /\ t.merged = s.merged /\ t.copied = s.copied /\ t.done = s.done /\ t.started = s.started
      /\ t.hand = hand
  BY <1>1 DEF FileFields
<1> QED  BY <1>2 DEF t, hand

(* What a run knows of its PRs is sound, if what it starts from is. *)
LEMMA KnownSound ==
  ASSUME NEW r \in Runs, NEW p, p = [f \in FileFields |-> p[f]], Sound(r, p)
  PROVE  Sound(r, Known(r, p)) /\ ToDo(r, Known(r, p)) = ToDo(r, p)
<1> DEFINE t == Known(r, p)
           h == {n \in ToDo(r, p) : status[n] = "merged"}
<1>1. /\ t = [f \in FileFields |-> t[f]] /\ t.pulls = Pulls(r, p)
      /\ t.decided = p.decided /\ t.heads = p.heads /\ t.sub = p.sub /\ t.own = p.own
      /\ t.merged = p.merged /\ t.copied = p.copied /\ t.done = p.done /\ t.started = p.started
      /\ t.hand = p.hand \cup h
  BY KnownRecord
<1>2. \A n \in r : t.pulls[n] = IF n \in ToDo(r, p) THEN head[n] ELSE p.pulls[n]
  BY <1>1 DEF Pulls
<1> HIDE DEF t
<1>3. ToDo(r, t) = ToDo(r, p) /\ t # NoFile
  BY <1>1, FileIsSome DEF ToDo
<1>4. SoundPlan(r, t)
  <2> SUFFICES ASSUME DOMAIN p.decided # {}
               PROVE  /\ DOMAIN p.heads.pulls = r
                      /\ \A m \in DOMAIN p.decided : AgreedIn(r, t, m)
                      /\ \A n \in r : p.own[n] \cap News(t) = {}
    BY <1>1 DEF SoundPlan
  <2>1. /\ DOMAIN p.heads.pulls = r
        /\ \A m \in DOMAIN p.decided : AgreedIn(r, p, m)
        /\ \A n \in r : p.own[n] \cap News(p) = {}
    BY DEF Sound, SoundPlan
  <2>2. ASSUME NEW m \in DOMAIN p.decided
        PROVE  AgreedIn(r, t, m)
    <3>1. AgreedIn(r, p, m)
      BY <2>1
    <3> QED  BY <1>1, <3>1 DEF AgreedIn, AllBring
  <2>3. News(t) = News(p)
    BY <1>1 DEF News
  <2> QED  BY <2>1, <2>2, <2>3
<1>5. SoundDealt(r, t)
  <2> SUFFICES ASSUME NEW n \in r \ ToDo(r, t)
               PROVE  /\ Materials(n, t.pulls[n]) # {} =>
                           DOMAIN t.decided # {} /\ report[n].head = t.pulls[n]
                      /\ LandedIn(t, n)
    BY DEF SoundDealt
  <2>1. n \notin ToDo(r, p) /\ t.pulls[n] = p.pulls[n]
    BY <1>2, <1>3
  <2>2. /\ Materials(n, p.pulls[n]) # {} => DOMAIN p.decided # {} /\ report[n].head = p.pulls[n]
        /\ LandedIn(p, n)
    BY <2>1 DEF Sound, SoundDealt
  <2>3. LandedIn(t, n)
    BY <1>1, <2>1, <2>2 DEF LandedIn, News
  <2> QED  BY <1>1, <2>1, <2>2, <2>3
<1>6. h \subseteq r /\ \A n \in h : n \in ToDo(r, p) /\ status[n] \in Settled
  BY DEF ToDo, Settled
<1> HIDE DEF h
<1>7. SoundHand(r, t)
  BY <1>1, <1>2, <1>6 DEF Sound, SoundHand
<1>8. Sound(r, t)
  BY <1>1, <1>3, <1>4, <1>5, <1>7 DEF Sound
<1> QED  BY <1>3, <1>8 DEF t

\* What is decided for a material whose deliveries ns do not conflict.
DecisionIs(d, ns, m, pays, published, hashes) ==
  \/ /\ d.kind = "reproduction" /\ d.from = NoPr /\ m \in published
     /\ \A n \in ns : pays[n][m] = hashes[m] /\ pays[n][m] # None
  \/ d.kind = "held" /\ d.from = NoPr
  \/ /\ d.kind = "new" /\ d.from \in ns
     /\ \A n, k \in ns : n # k => pays[n][m] = pays[k][m] /\ pays[n][m] # None

(* What _decide_one returns for a material that does not conflict. *)
LEMMA DecideOneIs ==
  ASSUME NEW ns \in SUBSET Nat, ns # {}, NEW m, NEW pays, NEW published, NEW hashes, NEW index,
         NEW logins, NEW release, NEW d,
         d = DecideOne(ns, m, pays, published, hashes, index, logins, release), d.kind # "conflict"
  PROVE  DecisionIs(d, ns, m, pays, published, hashes)
<1> DEFINE u == DecideUnpublished(ns, ClaimFor(index, m), logins, m \in release)
           bad == Incomparable(ns, m, pays, published)
           same == Decision("reproduction", NoPr, ns, NoNumber)
<1>1. d = CASE bad -> Conflict
            [] m \in published /\ ~ bad -> IF \A n \in ns : pays[n][m] = hashes[m] THEN same ELSE Conflict
            [] OTHER -> IF \E n, k \in ns : pays[n][m] # pays[k][m] THEN Conflict ELSE u
  BY DEF DecideOne
<1>2. Conflict.kind = "conflict" /\ same.kind = "reproduction" /\ same.from = NoPr
  BY DEF Conflict, Decision
<1>3. (u.kind = "held" /\ u.from = NoPr) \/ (u.kind = "new" /\ u.from \in ns)
  <2> DEFINE claim == ClaimFor(index, m)
             holders == ByHolder(ns, claim, logins)
             late == Decision("held", NoPr, {}, claim.issue)
             from == MinOf(IF holders # {} THEN holders ELSE ns)
             new == Decision("new", from, ns, NoNumber)
  <2>1. u = late \/ u = new
    BY DEF DecideUnpublished
  <2>2. late.kind = "held" /\ late.from = NoPr /\ new.kind = "new" /\ new.from = from
    BY DEF Decision
  <2>3. holders \subseteq ns
    BY DEF ByHolder
  <2>4. from \in ns
    <3> HIDE DEF holders
    <3>1. holders # {} => MinOf(holders) \in holders
      BY <2>3, MinOfIn
    <3>2. MinOf(ns) \in ns
      BY MinOfIn
    <3> QED  BY <2>3, <3>1, <3>2
  <2> QED  BY <2>1, <2>2, <2>4
<1>4. ~ bad /\ m \in published => \A n \in ns : pays[n][m] # None
  BY DEF Incomparable
<1>5. ~ bad => \A n, k \in ns : n # k => pays[n][m] # None
  BY DEF Incomparable
<1> HIDE DEF u, bad, same
<1>6. CASE bad
  BY <1>1, <1>2, <1>6
<1>7. CASE ~ bad /\ m \in published
  <2>1. d = IF \A n \in ns : pays[n][m] = hashes[m] THEN same ELSE Conflict
    BY <1>1, <1>7
  <2> QED  BY <1>2, <1>4, <1>7, <2>1 DEF DecisionIs
<1>8. CASE ~ bad /\ m \notin published
  <2>1. d = IF \E n, k \in ns : pays[n][m] # pays[k][m] THEN Conflict ELSE u
    BY <1>1, <1>8
  <2> QED  BY <1>2, <1>3, <1>5, <1>8, <2>1 DEF DecisionIs
<1> QED  BY <1>6, <1>7, <1>8

(* Decisions made anew: what is published is what everybody who brings it has delivered. *)
LEMMA DecidesSound ==
  ASSUME IInv, TablesAre, RegistriesAre, BranchIs, NEW r \in Runs, NEW p,
         PriorIs(world, verified, r, p), Sound(r, p), ~ Refuses(r, p), NEW release,
         NEW d, d = Decided(r, p, release),
         DOMAIN p.decided = {} \/ release # {} \/ p.heads # HeadsOf(r, p),
         Conflicts(d) = {}
  PROVE  /\ SoundPlan(r, d)
         /\ d.pulls = Pulls(r, p) /\ d.heads.pulls = Pulls(r, p)
         /\ d.merged = p.merged /\ d.copied = p.copied /\ d.done = p.done /\ d.started = p.started
         /\ d.sub = p.sub /\ d.hand = Known(r, p).hand
<1> DEFINE known == Known(r, p)
           mats == Mats(known.pulls)
           pays == Payloads(mats)
           logins == [n \in r |-> known.who[n].github]
           dec == DecideAll(mats, pays, DOMAIN manifest, tables, claims, logins, release)
           own == [n \in r |-> OwnDeliveries({registry, local[branch].registry}, n, mats[n])]
           h == HeadsOf(r, p)
           v == Pulls(r, p)
<1>1. p = [f \in FileFields |-> p[f]]
  BY DEF PriorIs
<1>2. /\ known = [f \in FileFields |-> known[f]] /\ known.pulls = v
      /\ known.merged = p.merged /\ known.copied = p.copied /\ known.done = p.done
      /\ known.started = p.started /\ known.sub = p.sub
  BY <1>1, KnownRecord
<1>3. d = [known EXCEPT !.decided = dec, !.own = own, !.heads = h]
  BY DEF Decided
<1>4. /\ FileIs(world, verified, r, d) /\ Ready(world, DOMAIN manifest, d)
  BY DecidedIs DEF IInv
<1>5. /\ DOMAIN v = r /\ DOMAIN mats = r
      /\ \A n \in r : mats[n] = Materials(n, v[n])
  BY <1>2 DEF Pulls, Mats
<1>6. DOMAIN dec = Delivered(mats)
      /\ \A m \in DOMAIN dec :
           dec[m] = DecideOne(DeliveriesOf(mats, m), m, pays, DOMAIN manifest, tables, claims, logins, release)
  BY DEF DecideAll
<1>7. \A n \in r : \A m \in mats[n] : pays[n][m] =
         IF report[n].hashed /\ m \in Materials(n, report[n].head) THEN Content(n, report[n].head, m) ELSE None
  BY <1>5 DEF Payloads, Content
<1>8. \A n \in r : own[n] = OwnDeliveries({registry, local[branch].registry}, n, mats[n])
  OBVIOUS
<1>9. h.pulls = v
  BY DEF HeadsOf
<1> HIDE DEF known, mats, pays, logins, dec, own, h, v
<1>10. /\ d.pulls = v /\ d.decided = dec /\ d.own = own /\ d.heads = h
       /\ d.merged = p.merged /\ d.copied = p.copied /\ d.done = p.done /\ d.started = p.started
       /\ d.sub = p.sub /\ d.hand = known.hand
  BY <1>2, <1>3 DEF FileFields
<1>11. ASSUME NEW n \in r, Materials(n, v[n]) # {}
       PROVE  report[n].head = v[n]
  <2>1. CASE n \in ToDo(r, p)
    <3>1. v[n] = head[n]
      BY <2>1 DEF v, Pulls
    <3>2. Acceptable(n)
      BY <2>1 DEF Refuses
    <3> QED  BY <3>1, <3>2 DEF Acceptable
  <2>2. CASE n \notin ToDo(r, p)
    <3>1. v[n] = p.pulls[n]
      BY <2>2 DEF v, Pulls
    <3> QED  BY <1>11, <2>2, <3>1 DEF Sound, SoundDealt
  <2> QED  BY <2>1, <2>2
<1>12. ASSUME NEW n \in r, NEW m \in mats[n], pays[n][m] # None
       PROVE  pays[n][m] = Content(n, v[n], m)
  <2>1. Materials(n, v[n]) # {}
    BY <1>5
  <2> QED  BY <1>7, <1>11, <1>12, <2>1
<1>13. \A m : DeliveriesOf(mats, m) = {n \in r : m \in Materials(n, v[n])}
  BY <1>5 DEF DeliveriesOf
<1>14. ASSUME NEW m \in DOMAIN d.decided
       PROVE  AgreedIn(r, d, m)
  <2> DEFINE ns == DeliveriesOf(mats, m)
  <2>1. ns \in SUBSET Nat /\ ns \subseteq r
    BY <1>13, AcceptAssumption
  <2>2. ns # {}
    BY <1>6, <1>10 DEF Delivered, DeliveriesOf
  <2>3. dec[m] = DecideOne(ns, m, pays, DOMAIN manifest, tables, claims, logins, release)
    BY <1>6, <1>10
  <2>4. dec[m].kind # "conflict"
    BY <1>10 DEF Conflicts
  <2>5. \A n \in ns : n \in r /\ m \in mats[n] /\ (pays[n][m] # None => pays[n][m] = Content(n, v[n], m))
    BY <1>5, <1>12, <1>13
  <2>6. \A n \in r : m \in Materials(n, v[n]) => n \in ns
    BY <1>13
  <2>7. DOMAIN manifest \subseteq DOMAIN tables
    BY DEF Refuses, Incomplete
  <2> HIDE DEF ns
  <2>8. \/ /\ dec[m].kind = "reproduction" /\ dec[m].from = NoPr /\ m \in DOMAIN manifest
           /\ \A n \in ns : pays[n][m] = tables[m] /\ pays[n][m] # None
        \/ dec[m].kind = "held" /\ dec[m].from = NoPr
        \/ /\ dec[m].kind = "new" /\ dec[m].from \in ns
           /\ \A n, k \in ns : n # k => pays[n][m] = pays[k][m] /\ pays[n][m] # None
    <3>1. DecisionIs(dec[m], ns, m, pays, DOMAIN manifest, tables)
      BY <2>1, <2>2, <2>3, <2>4, DecideOneIs
    <3> QED  BY <3>1 DEF DecisionIs
  <2>9. CASE dec[m].kind = "held" /\ dec[m].from = NoPr
    BY <1>10, <2>9 DEF AgreedIn
  <2>10. CASE /\ dec[m].kind = "reproduction" /\ dec[m].from = NoPr /\ m \in DOMAIN manifest
              /\ \A n \in ns : pays[n][m] = tables[m] /\ pays[n][m] # None
    <3>1. tables[m] = manifest[m]
      BY <2>7, <2>10 DEF TablesAre
    <3>2. \A n \in r : m \in Materials(n, v[n]) => Content(n, v[n], m) = manifest[m]
      BY <2>5, <2>6, <2>10, <3>1
    <3>3. AllBring(r, d, m, manifest[m])
      BY <1>9, <1>10, <3>2 DEF AllBring
    <3> QED  BY <1>10, <2>10, <3>3 DEF AgreedIn
  <2>11. CASE /\ dec[m].kind = "new" /\ dec[m].from \in ns
              /\ \A n, k \in ns : n # k => pays[n][m] = pays[k][m] /\ pays[n][m] # None
    <3> DEFINE k == dec[m].from
    <3>1. k \in r /\ m \in Materials(k, v[k])
      BY <2>11, <1>13 DEF ns
    <3>2. ASSUME NEW n \in r, m \in Materials(n, v[n])
          PROVE  Content(n, v[n], m) = Content(k, v[k], m)
      <4>1. CASE n # k
        <5>1. n \in ns /\ k \in ns
          BY <2>6, <2>11, <3>2
        <5>2. pays[n][m] = pays[k][m] /\ pays[n][m] # None
          BY <2>11, <4>1, <5>1
        <5> QED  BY <2>5, <5>1, <5>2
      <4> QED  BY <4>1
    <3>3. AllBring(r, d, m, Content(k, v[k], m))
      BY <1>9, <1>10, <3>2 DEF AllBring
    <3> QED  BY <1>9, <1>10, <2>11, <3>1, <3>3 DEF AgreedIn
  <2> QED  BY <2>8, <2>9, <2>10, <2>11
<1>15. ASSUME NEW n \in r
       PROVE  d.own[n] \cap News(d) = {}
  <2> SUFFICES ASSUME NEW m \in own[n], m \in News(d)
               PROVE  FALSE
    BY <1>10
  <2>1. m \notin DOMAIN manifest
    BY <1>4 DEF Ready, News
  <2>2. branch \in DOMAIN local
    BY DEF BranchIs, IInv, Branches
  <2>3. TrueReg(registry) /\ TrueReg(local[branch].registry)
    BY <2>2 DEF RegistriesAre
  <2>4. PICK reg \in {registry, local[branch].registry} :
          <<m, n>> \in reg.from \/ \E f \in reg.by : f[1] = m /\ f[3] = n
    BY <1>8 DEF OwnDeliveries
  <2>5. Delivers(m, n)
    <3>1. CASE <<m, n>> \in reg.from
      <4>1. <<m, n>>[1] = m /\ <<m, n>>[2] = n
        OBVIOUS
      <4> QED  BY <2>3, <3>1, <4>1 DEF TrueReg
    <3>2. CASE \E f \in reg.by : f[1] = m /\ f[3] = n
      BY <2>3, <3>2 DEF TrueReg
    <3> QED  BY <2>4, <3>1, <3>2
  <2>6. n # NoPr
    BY AcceptAssumption
  <2> QED  BY <2>1, <2>5, <2>6 DEF Delivers
<1>16. SoundPlan(r, d)
  BY <1>5, <1>9, <1>10, <1>14, <1>15 DEF SoundPlan
<1> QED  BY <1>9, <1>10, <1>16 DEF v, known

(* A run that goes on to merge has sound decisions, and they are not made anew once something
   of them is done. *)
LEMMA DecidedSound ==
  ASSUME IInv, TablesAre, RegistriesAre, BranchIs, MergedAre, NEW r \in Runs, NEW p,
         PriorIs(world, verified, r, p), Sound(r, p), ~ Refuses(r, p), NEW release,
         NEW d, d = Decided(r, p, release), Conflicts(d) = {},
         DOMAIN p.decided # {} /\ BegunIn(p) => d.decided = p.decided,
         \A q \in Runs : UnderWay(q) => files[q] = p
  PROVE  Sound(r, d) /\ CheckedIn(r, d)
<1> DEFINE again == DOMAIN p.decided = {} \/ release # {} \/ p.heads # HeadsOf(r, p)
           known == Known(r, p)
<1>1. p = [f \in FileFields |-> p[f]]
  BY DEF PriorIs
<1>2. Sound(r, known) /\ ToDo(r, known) = ToDo(r, p)
  BY <1>1, KnownSound
<1>3. /\ known.pulls = Pulls(r, p) /\ known.heads = p.heads
      /\ known.merged = p.merged /\ known.copied = p.copied
  BY <1>1, KnownRecord
<1>4. ~ again => d = known /\ p.heads.pulls = Pulls(r, p)
  BY DEF Decided, HeadsOf
<1>5. again => /\ SoundPlan(r, d)
               /\ d.pulls = Pulls(r, p) /\ d.heads.pulls = Pulls(r, p)
               /\ d.merged = p.merged /\ d.copied = p.copied /\ d.done = p.done /\ d.started = p.started
               /\ d.sub = p.sub /\ d.hand = known.hand
  BY DecidesSound
<1>6. FileIs(world, verified, r, d) /\ Ready(world, DOMAIN manifest, d)
  BY DecidedIs DEF IInv
<1> HIDE DEF again, known
<1>7. d.pulls = Pulls(r, p) /\ d.heads.pulls = Pulls(r, p) /\ ToDo(r, d) = ToDo(r, p) /\ SoundPlan(r, d)
  BY <1>2, <1>3, <1>4, <1>5 DEF ToDo, Sound
<1>8. \A n \in r : d.pulls[n] = IF n \in ToDo(r, p) THEN head[n] ELSE p.pulls[n]
  BY <1>7 DEF Pulls
<1>9. ASSUME NEW m \in News(d)
      PROVE  LET n == d.decided[m].from IN n \in r /\ m \in Materials(n, d.pulls[n]) /\ m \notin DOMAIN manifest
  <2>1. m \in DOMAIN d.decided /\ d.decided[m].from # NoPr
    BY DEF News
  <2>2. AgreedIn(r, d, m)
    BY <1>7, <2>1 DEF SoundPlan
  <2> QED  BY <1>6, <1>7, <2>1, <2>2 DEF AgreedIn, Ready
<1>10. Sound(r, d)
  <2>1. CASE ~ again
    BY <1>2, <1>4, <2>1
  <2>2. CASE again
    <3>1. ASSUME NEW n \in r \ ToDo(r, d)
          PROVE  /\ Materials(n, d.pulls[n]) # {} => DOMAIN d.decided # {} /\ report[n].head = d.pulls[n]
                 /\ LandedIn(d, n)
      <4>1. n \notin ToDo(r, p) /\ d.pulls[n] = p.pulls[n]
        BY <1>7, <1>8
      <4>2. /\ Materials(n, p.pulls[n]) # {} => DOMAIN p.decided # {} /\ report[n].head = p.pulls[n]
            /\ LandedIn(p, n)
        BY <4>1 DEF Sound, SoundDealt
      <4>3. BegunIn(p)
        BY <4>1 DEF BegunIn, ToDo
      <4>4. CASE DOMAIN p.decided # {}
        <5>1. d.decided = p.decided
          BY <4>3, <4>4
        <5> QED  BY <4>1, <4>2, <5>1 DEF LandedIn, News
      <4>5. CASE Materials(n, p.pulls[n]) = {}
        BY <1>9, <4>1, <4>5 DEF LandedIn
      <4> QED  BY <4>2, <4>4, <4>5
    <3>2. SoundHand(r, d)
      BY <1>2, <1>3, <1>5, <1>7, <2>2 DEF Sound, SoundHand
    <3>3. d # NoFile
      BY <1>6, FileIsSome DEF FileIs
    <3> QED  BY <1>5, <1>7, <2>2, <3>1, <3>2, <3>3 DEF Sound, SoundDealt
  <2> QED  BY <2>1, <2>2
<1>11. ASSUME NEW n \in ToDo(r, d)
       PROVE  d.pulls[n] = head[n] /\ Acceptable(n)
  BY <1>7, <1>8 DEF Refuses, ToDo
<1>12. ASSUME NEW n \in d.hand
       PROVE  LandedIn(d, n)
  <2>1. n \in r /\ status[n] \in Settled /\ d.pulls[n] = head[n]
    BY <1>10 DEF Sound, SoundHand
  <2>2. CASE n \notin ToDo(r, d)
    BY <1>10, <2>1, <2>2 DEF Sound, SoundDealt
  <2>3. CASE n \in ToDo(r, d)
    <3> SUFFICES ASSUME NEW m \in News(d), d.decided[m].from = n
                 PROVE  m \in DOMAIN main /\ main[m] = Content(n, d.pulls[n], m)
      BY DEF LandedIn
    <3>1. status[n] = "merged" /\ n \in Prs
      BY <1>11, <2>1, <2>3 DEF Acceptable, Settled, Prs
    <3>2. m \in Materials(n, head[n]) /\ m \notin DOMAIN manifest
      BY <1>9, <2>1
    <3>3. /\ m \in DOMAIN main
          /\ \/ main[m] = Content(n, head[n], m)
             \/ \E q \in Runs : UnderWay(q) /\ m \in News(files[q]) /\ files[q].decided[m].from # n
      BY <3>1, <3>2 DEF MergedAre
    <3>4. ASSUME NEW q \in Runs, UnderWay(q), m \in News(files[q]), files[q].decided[m].from # n
          PROVE  FALSE
      <4>1. files[q] = p /\ DOMAIN p.decided # {}
        BY <3>4 DEF UnderWay
      <4>2. BegunIn(p)
        BY <3>3, <3>4, <4>1 DEF BegunIn
      <4> QED  BY <3>4, <4>1, <4>2
    <3> QED  BY <2>1, <3>3, <3>4
  <2> QED  BY <2>2, <2>3
<1> QED  BY <1>7, <1>10, <1>11, <1>12 DEF CheckedIn, Acceptable

(* Prepare keeps the state files true, and whoever goes on to merge has sound decisions. *)
LEMMA PrepareTrue ==
  ASSUME IInv, OneRun, TablesAre, RegistriesAre, BranchIs, MergedAre, FilesTrue, StepTrue, AllSteady,
         KeepsDecisions, Prepare
  PROVE  /\ FilesTrue'
         /\ \/ proc'.at = "idle"
            \/ /\ proc'.at = "merge" /\ run' = run
               /\ \A r \in Runs : r = run => Checked(r)'
<1> DEFINE p == Prior(run)
           k == Known(run, p)
           d == Decided(run, p, proc.release)
<1>1. /\ run \in Runs /\ PriorIs(world, verified, run, p) /\ Sound(run, p)
      /\ (p = st /\ st # NoFile) \/ (p = Fresh /\ st = NoFile)
  BY PriorSound DEF Prepare
<1>2. p = [f \in FileFields |-> p[f]]
  BY <1>1 DEF PriorIs
<1>3. UNCHANGED <<world, status, head, main, manifest, report>> /\ proc.at = "prepare"
  BY DEF Prepare, hub, disk
<1>4. \/ Ends /\ UNCHANGED files
      \/ ~ Refuses(run, p) /\ Record(k) /\ Ends
      \/ ~ Refuses(run, p) /\ Conflicts(d) = {} /\ Save(d, "merge")
  BY DEF Prepare
<1> HIDE DEF p, k, d
<1>5. \A s : Record(s) => files'[run] = s /\ \A q \in Runs \ {run} : files'[q] = files[q]
  BY <1>1 DEF Record, IInv, FilesAre
<1>6. ASSUME NEW s, Sound(run, s), Record(s)
      PROVE  FilesTrue'
  <2>1. \A r \in Runs : r = run /\ files'[r] = s => CoreTrue(r)' /\ StageOf(r)'
    BY <1>3, <1>6, SoundIs
  <2>2. files'[run] = s /\ \A q \in Runs \ {run} : files'[q] = files[q]
    BY <1>5, <1>6
  <2> QED  BY <2>1, <2>2, FilesRecorded
<1>7. CASE Ends /\ UNCHANGED files
  BY <1>7, FilesKept, IdleIs DEF Ends
<1>8. CASE ~ Refuses(run, p) /\ Record(k) /\ Ends
  <2>1. Sound(run, k)
    BY <1>1, <1>2, KnownSound DEF k
  <2> QED  BY <1>6, <1>8, <2>1, IdleIs DEF Ends
<1>9. CASE ~ Refuses(run, p) /\ Conflicts(d) = {} /\ Save(d, "merge")
  <2>1. CASE UNCHANGED files /\ Ends
    BY <2>1, FilesKept, IdleIs DEF Ends
  <2>2. CASE Record(d) /\ Goes("merge")
    <3>1. files'[run] = d
      BY <1>5, <2>2
    <3>2. FileIs(world, verified, run, d)
      BY <1>1, <1>9, DecidedIs DEF d, IInv
    <3>3. d # NoFile
      BY <3>2, FileIsSome DEF FileIs
    <3>4. ASSUME DOMAIN p.decided # {}, BegunIn(p)
          PROVE  d.decided = p.decided
      <4>1. p = st /\ st # NoFile
        BY <1>1, <3>4, FreshIs
      <4>2. PICK r \in Runs : r = run
        BY <1>1
      <4>3. UnderWay(r) /\ Begun(r) /\ files'[r] = d /\ files[r] = p
        BY <3>1, <3>4, <4>1, <4>2 DEF UnderWay, Begun, BegunIn, st
      <4> QED  BY <3>3, <4>3 DEF KeepsDecisions
    <3>5. ASSUME NEW q \in Runs, UnderWay(q)
          PROVE  files[q] = p
      <4>1. q = run
        BY <1>3, <3>5 DEF OneRun
      <4>2. files[q] = st /\ st # NoFile
        BY <3>5, <4>1 DEF UnderWay, st
      <4> QED  BY <1>1, <4>2
    <3>6. Sound(run, d) /\ CheckedIn(run, d)
      BY <1>1, <1>9, <3>4, <3>5, DecidedSound DEF d
    <3>7. ASSUME NEW r \in Runs, r = run
          PROVE  Checked(r)'
      <4>1. files'[r] = d /\ "merge" \notin d.done /\ d.pulls = d.heads.pulls
        BY <3>1, <3>6, <3>7 DEF Sound, CheckedIn
      <4>2. ASSUME NEW n \in ToDo(r, d)
            PROVE  d.pulls[n] <= head[n] /\ report[n].head = d.pulls[n]
        <5>1. d.pulls[n] = head[n] /\ report[n].head = head[n]
          BY <3>6, <3>7, <4>2 DEF CheckedIn
        <5>2. n \in Prs
          BY DEF ToDo, Prs
        <5>3. head[n] \in Nat
          BY <5>2, HeadNumber
        <5> QED  BY <5>1, <5>3
      <4>3. ASSUME NEW n \in d.hand
            PROVE  LandedFrom(r, n)'
        <5>1. LandedIn(d, n)
          BY <3>6, <4>3 DEF CheckedIn
        <5> QED  BY <1>3, <4>1, <5>1 DEF LandedFrom, LandedIn, News, Content, Delivery
      <4>4. \A n \in ToDo(r, files'[r]) :
              LET v == files'[r].pulls[n] IN v <= head'[n] /\ (head'[n] = v => report'[n].head = v)
        BY <1>3, <4>1, <4>2
      <4>5. ToDo(r, files[r])' = ToDo(r, files'[r])
        BY DEF ToDo
      <4> QED  BY <4>1, <4>3, <4>4, <4>5 DEF Checked
    <3>8. proc'.at = "merge" /\ run' = run
      BY <2>2, GoesIs DEF IInv, ProcIs, run
    <3> QED  BY <1>6, <2>2, <3>6, <3>7, <3>8
  <2> QED  BY <1>9, <2>1, <2>2 DEF Save, SaveThen, Crash
<1> QED  BY <1>4, <1>7, <1>8, <1>9

-----------------------------------------------------------------------------
\* Where the process is.

\* A record of the merge step keeps the plan and adds to what is dealt with.
Grows(s, t) ==
  /\ SamePlan(s, t) /\ t.done = s.done /\ s.merged \subseteq t.merged
  /\ DOMAIN s.copied \subseteq DOMAIN t.copied

(* A step that records and goes on has done both, or the process has ended. *)
LEMMA SavesTo ==
  ASSUME IInv, run \in Runs, NEW s, NEW at, Save(s, at)
  PROVE  proc'.at = "idle" \/ (run' = run /\ proc'.at = at /\ files'[run] = s)
<1>1. CASE Record(s) /\ Goes(at)
  <2>1. files'[run] = s
    BY <1>1 DEF Record, IInv, FilesAre
  <2>2. run' = run /\ proc'.at = at
    BY <1>1, GoesIs DEF IInv, ProcIs, run
  <2> QED  BY <2>1, <2>2
<1>2. CASE Crash
  BY <1>2, IdleIs DEF Crash, Ends
<1> QED  BY <1>1, <1>2 DEF Save, SaveThen

(* A run that merges goes by what it has checked until it is through. *)
LEMMA CheckedOn ==
  ASSUME IInv, OneRun, Next, NEW r \in Runs, files[r] # NoFile, Checked(r), HandIs(r), AllSteady,
         Grows(files[r], files'[r])
  PROVE  Checked(r)'
<1>1. /\ files'[r].pulls = files[r].pulls /\ files'[r].decided = files[r].decided
      /\ files'[r].heads = files[r].heads /\ files'[r].hand = files[r].hand
      /\ files'[r].done = files[r].done
      /\ ToDo(r, files'[r]) \subseteq ToDo(r, files[r])
  BY DEF Grows, SamePlan, ToDo
<1>2. "merge" \notin files'[r].done /\ files'[r].pulls = files'[r].heads.pulls
  BY <1>1 DEF Checked
<1>3. ASSUME NEW n \in ToDo(r, files'[r])
      PROVE  LET v == files'[r].pulls[n] IN v <= head'[n] /\ (head'[n] = v => report'[n].head = v)
  <2> DEFINE v == files[r].pulls[n]
  <2>1. n \in Prs
    BY DEF ToDo, Prs
  <2>2. v <= head[n] /\ (head[n] = v => report[n].head = v)
    BY <1>1, <1>3 DEF Checked
  <2>3. head[n] \in Nat /\ v \in Nat
    <3>1. FileIs(world, verified, r, files[r]) /\ n \in r
      BY DEF IInv, FilesAre, ToDo
    <3>2. v \in verified[n]
      BY <3>1 DEF FileIs
    <3>3. v \in DOMAIN world.heads[n] /\ world \in Worlds /\ n \in UNION Runs
      BY <2>1, <3>2 DEF IInv, HeadsAre, Prs
    <3>4. DOMAIN world.heads[n] = 1 .. Len(world.heads[n]) /\ Len(world.heads[n]) \in Nat
      BY <3>3, AcceptAssumption
    <3> HIDE DEF v
    <3> QED  BY <2>1, <3>3, <3>4, HeadNumber
  <2> HIDE DEF v
  <2>4. CASE \E k \in Prs : Push(k)
    <3>1. PICK k \in Prs : Push(k)
      BY <2>4
    <3>2. report' = report /\ head' = [head EXCEPT ![k] = @ + 1]
      BY <3>1 DEF Push, disk
    <3>3. head' = [j \in Prs |-> IF j = k THEN head[k] + 1 ELSE head[j]]
      BY <3>2 DEF IInv, HeadsAre
    <3>4. head'[n] = head[n] \/ head'[n] = head[n] + 1
      BY <2>1, <3>3
    <3> QED  BY <1>1, <2>2, <2>3, <3>2, <3>4 DEF v
  <2>5. CASE \E k \in Prs : Verify(k)
    <3>1. PICK k \in Prs : Verify(k)
      BY <2>5
    <3>2. /\ head' = head
          /\ report' = [report EXCEPT ![k] = Report(head[k], Delivery(k, head[k]).good, TRUE)]
      BY <3>1 DEF Verify, hub
    <3>3. report'[n].head = report[n].head \/ report'[n].head = head[n]
      BY <2>1, <3>2 DEF IInv, HeadsAre, Report
    <3> QED  BY <1>1, <2>2, <3>2, <3>3 DEF v
  <2>6. CASE head' = head /\ report' = report
    BY <1>1, <2>2, <2>6 DEF v
  <2>7. head' = head \/ \E k \in Prs : Push(k)
    <3>1. CASE MergePr \/ FinishCopy \/ ClosePr \/ \E k \in Prs : MergeByHand(k)
      BY <3>1 DEF MergePr, FinishCopy, ClosePr, MergeByHand
    <3> QED  BY <3>1, WritersAre
  <2> QED  BY <2>4, <2>5, <2>6, <2>7, WritersAre
<1>4. ASSUME NEW n \in files'[r].hand
      PROVE  LandedFrom(r, n)'
  <2> SUFFICES ASSUME NEW m \in News(files'[r]), files'[r].decided[m].from = n
               PROVE  m \in DOMAIN main' /\ main'[m] = Content(n, files[r].pulls[n], m)'
    BY DEF LandedFrom
  <2>1. m \in News(files[r]) /\ files[r].decided[m].from = n /\ LandedFrom(r, n)
    BY <1>1, <1>4 DEF News, Checked
  <2>2. m \in DOMAIN main /\ main[m] = Content(n, files[r].pulls[n], m)
    BY <2>1 DEF LandedFrom
  <2>3. m \in DOMAIN main' /\ main'[m] = main[m]
    BY <2>1, <2>2, LandedStays
  <2>4. world' = world
    BY WritersAre
  <2> QED  BY <1>1, <2>2, <2>3, <2>4 DEF Content, Delivery
<1> QED  BY <1>2, <1>3, <1>4 DEF Checked

(* The records of the merge step. *)
LEMMA MergeGrows ==
  ASSUME IInv, FilesTrue, StepTrue, proc.at \in Merging, Step
  PROVE  \/ proc'.at \in {"idle", "credits"}
         \/ run' = run /\ proc'.at \in Merging /\ Grows(st, files'[run])
<1>1. /\ run \in Runs /\ st # NoFile /\ FileIs(world, verified, run, st)
      /\ st = [f \in FileFields |-> st[f]] /\ proc = [f \in ProcFields |-> proc[f]]
  BY MergingIs DEF FileIs, IInv, ProcIs
<1>2. Grows(st, st)
  BY DEF Grows, SamePlan
<1>3. files' = files => files'[run] = st
  BY DEF st
<1>4. CASE CheckHead \/ MergeRefused \/ CopyPart
  <2>1. files' = files
    BY <1>4 DEF CheckHead, MergeRefused, CopyPart
  <2>2. \/ proc' = Idle \/ proc' = [proc EXCEPT !.at = "copy"]
        \/ \E n : proc' = [proc EXCEPT !.at = "effect", !.pr = n]
    BY <1>4 DEF CheckHead, MergeRefused, CopyPart
  <2>3. proc'.at = "idle" \/ (run' = run /\ proc'.at \in Merging)
    BY <1>1, <2>2, IdleIs DEF ProcFields, Merging, run
  <2> QED  BY <1>2, <1>3, <2>1, <2>3
<1>5. CASE AllMerged
  <2>1. Save(Done(st, "merge"), "credits")
    BY <1>5 DEF AllMerged
  <2> QED  BY <1>1, <2>1, SavesTo
<1>6. CASE TakeAsMerged \/ MergePr \/ FinishCopy \/ CommentPr \/ ClosePr
  <2>1. PICK n : Save(Merged(st, n), "merge")
    BY <1>6 DEF TakeAsMerged, MergePr, FinishCopy, CommentPr, ClosePr
  <2>2. Grows(st, Merged(st, n))
    <3> DEFINE t == Merged(st, n)
    <3>1. /\ SamePlan(st, t) /\ t.done = st.done
          /\ t.merged = st.merged \cup {n} /\ t.copied = st.copied
      BY <1>1, MergedRecord
    <3> HIDE DEF t
    <3>2. Grows(st, t)
      BY <3>1 DEF Grows
    <3> QED  BY <3>2 DEF t
  <2> QED  BY <1>1, <2>1, <2>2, SavesTo DEF Merging
<1>7. CASE CopyFiles
  <2> DEFINE c == Overwrite(st.copied, [n \in {proc.pr} |-> ActionOf(st, n) # "copy_open"])
             t == [st EXCEPT !.copied = c]
  <2>1. \/ Record(t) /\ proc' = [proc EXCEPT !.at = "copied"]
        \/ Crash
    BY <1>7 DEF CopyFiles, SaveThen
  <2>2. DOMAIN c = DOMAIN st.copied \cup {proc.pr}
    BY DEF Overwrite
  <2> HIDE DEF c
  <2>3. SamePlan(st, t) /\ t.done = st.done /\ t.merged = st.merged /\ t.copied = c
    BY <1>1, CopiedRecord
  <2> HIDE DEF t
  <2>4. Grows(st, t)
    BY <2>2, <2>3 DEF Grows
  <2>5. CASE Record(t) /\ proc' = [proc EXCEPT !.at = "copied"]
    <3>1. files'[run] = t
      BY <1>1, <2>5 DEF Record, IInv, FilesAre
    <3>2. run' = run /\ proc'.at \in Merging
      BY <1>1, <2>5 DEF ProcFields, Merging, run
    <3> QED  BY <2>4, <3>1, <3>2
  <2>6. CASE Crash
    BY <2>6, IdleIs DEF Crash, Ends
  <2> QED  BY <2>1, <2>5, <2>6
<1>8. CASE Prepare \/ NothingToRecord \/ WriteManifest \/ MoveLocal \/ WriteCard \/ TellClaim \/ CloseClaims
  BY <1>8 DEF Prepare, NothingToRecord, WriteManifest, MoveLocal, WriteCard, TellClaim, CloseClaims, Merging
<1>9. CASE DocsDone \/ DocsDirty \/ DocsEmpty \/ DocsCommit \/ DocsPush \/ DocsOpen \/ DocsLand \/ DocsConflict
  BY <1>9 DEF DocsDone, DocsDirty, DocsEmpty, DocsCommit, DocsPush, DocsOpen, DocsLand, DocsConflict,
     DocsStarts, DocsStep, Lands, Merging
<1> QED  BY <1>4, <1>5, <1>6, <1>7, <1>8, <1>9 DEF Step

(* Of a process that has ended nothing is said. *)
LEMMA IdleTrue ==
  ASSUME proc'.at = "idle"
  PROVE  StepTrue'
BY DEF StepTrue, Merging, Later

(* From one step of the merge to the next. *)
LEMMA MergingStep ==
  ASSUME IInv, OneRun, FilesTrue, StepTrue, AllSteady, Next, proc.at \in Merging, Step
  PROVE  StepTrue'
<1>1. /\ run \in Runs /\ st # NoFile /\ FileIs(world, verified, run, st)
      /\ st = [f \in FileFields |-> st[f]] /\ proc = [f \in ProcFields |-> proc[f]]
  BY MergingIs DEF FileIs, IInv, ProcIs
<1>2. CASE proc'.at = "idle"
  BY <1>2, IdleTrue
<1>3. CASE AllMerged
  <2>1. Save(Done(st, "merge"), "credits")
    BY <1>3 DEF AllMerged
  <2>2. "merge" \in Done(st, "merge").done
    BY <1>1, DoneRecord
  <2>3. CASE run' = run /\ proc'.at = "credits" /\ files'[run] = Done(st, "merge")
    <3>1. "merge" \in st'.done
      BY <2>2, <2>3 DEF st
    <3> QED  BY <2>3, <3>1 DEF StepTrue, Merging, Later
  <2> QED  BY <1>1, <1>2, <2>1, <2>3, SavesTo
<1>4. CASE ~ AllMerged /\ proc'.at # "idle"
  <2>1. run' = run /\ proc'.at \in Merging /\ Grows(st, files'[run])
    <3>1. proc'.at # "credits"
      <4>1. CASE CheckHead
        BY <4>1, <1>1, IdleIs DEF CheckHead, ProcFields
      <4>2. CASE MergeRefused \/ CopyPart
        BY <4>2, <1>1, IdleIs DEF MergeRefused, CopyPart, ProcFields
      <4>3. CASE TakeAsMerged \/ MergePr \/ FinishCopy \/ CommentPr \/ ClosePr
        <5>1. PICK n : Save(Merged(st, n), "merge")
          BY <4>3 DEF TakeAsMerged, MergePr, FinishCopy, CommentPr, ClosePr
        <5> QED  BY <1>1, <5>1, SavesTo
      <4>4. CASE CopyFiles
        BY <4>4, <1>1, IdleIs DEF CopyFiles, SaveThen, Crash, Ends, ProcFields
      <4>5. CASE Prepare \/ NothingToRecord \/ WriteManifest \/ MoveLocal \/ WriteCard \/ TellClaim \/ CloseClaims
        BY <4>5 DEF Prepare, NothingToRecord, WriteManifest, MoveLocal, WriteCard, TellClaim, CloseClaims, Merging
      <4>6. CASE DocsDone \/ DocsDirty \/ DocsEmpty \/ DocsCommit \/ DocsPush \/ DocsOpen \/ DocsLand \/ DocsConflict
        BY <4>6 DEF DocsDone, DocsDirty, DocsEmpty, DocsCommit, DocsPush, DocsOpen, DocsLand, DocsConflict,
           DocsStarts, DocsStep, Lands, Merging
      <4> QED  BY <1>4, <4>1, <4>2, <4>3, <4>4, <4>5, <4>6 DEF Step
    <3> QED  BY <1>4, <3>1, MergeGrows
  <2>2. ASSUME NEW r \in Runs, r = run'
        PROVE  Checked(r)'
    <3>1. r = run /\ files[r] = st
      BY <2>1, <2>2 DEF st
    <3>2. Checked(r) /\ HandIs(r) /\ files[r] # NoFile /\ Grows(files[r], files'[r])
      BY <1>1, <2>1, <3>1 DEF StepTrue, FilesTrue, CoreTrue
    <3> QED  BY <3>2, CheckedOn
  <2>3. st' = files'[run] /\ st'.pulls = st.pulls /\ DOMAIN st.copied \subseteq DOMAIN st'.copied
    BY <2>1 DEF st, Grows, SamePlan
  <2>4. proc'.at \in {"effect", "copy"} => head'[proc'.pr] = st'.pulls[proc'.pr]
    <3>1. CASE CheckHead
      <4>1. proc' = [proc EXCEPT !.at = "effect", !.pr = NextPr] /\ head[NextPr] = st.pulls[NextPr]
        BY <1>4, <3>1, IdleIs DEF CheckHead
      <4>2. proc'.pr = NextPr
        BY <1>1, <4>1 DEF ProcFields
      <4>3. head' = head
        BY <3>1 DEF CheckHead, hub
      <4> QED  BY <2>3, <4>1, <4>2, <4>3
    <3>2. CASE MergeRefused \/ CopyPart
      <4>1. proc' = [proc EXCEPT !.at = "copy"] /\ proc.at = "effect" /\ head' = head
        BY <1>4, <3>2, IdleIs DEF MergeRefused, CopyPart, Does, hub
      <4>2. proc'.pr = proc.pr
        BY <1>1, <4>1 DEF ProcFields
      <4> QED  BY <2>3, <4>1, <4>2 DEF StepTrue
    <3>3. CASE TakeAsMerged \/ MergePr \/ FinishCopy \/ CommentPr \/ ClosePr
      <4>1. PICK n : Save(Merged(st, n), "merge")
        BY <3>3 DEF TakeAsMerged, MergePr, FinishCopy, CommentPr, ClosePr
      <4> QED  BY <1>1, <1>4, <4>1, SavesTo
    <3>4. CASE CopyFiles
      BY <3>4, <1>1, IdleIs DEF CopyFiles, SaveThen, Crash, Ends, ProcFields
    <3>5. CASE Prepare \/ NothingToRecord \/ WriteManifest \/ MoveLocal \/ WriteCard \/ TellClaim \/ CloseClaims
      BY <3>5 DEF Prepare, NothingToRecord, WriteManifest, MoveLocal, WriteCard, TellClaim, CloseClaims, Merging
    <3>6. CASE DocsDone \/ DocsDirty \/ DocsEmpty \/ DocsCommit \/ DocsPush \/ DocsOpen \/ DocsLand \/ DocsConflict
      BY <3>6 DEF DocsDone, DocsDirty, DocsEmpty, DocsCommit, DocsPush, DocsOpen, DocsLand, DocsConflict,
         DocsStarts, DocsStep, Lands, Merging
    <3> QED  BY <1>4, <3>1, <3>2, <3>3, <3>4, <3>5, <3>6 DEF Step
  <2>5. proc'.at = "copied" => proc'.pr \in DOMAIN st'.copied
    <3>1. CASE CopyFiles
      <4> DEFINE c == Overwrite(st.copied, [n \in {proc.pr} |-> ActionOf(st, n) # "copy_open"])
      <4>1. Record([st EXCEPT !.copied = c]) /\ proc' = [proc EXCEPT !.at = "copied"]
        BY <1>4, <3>1, IdleIs DEF CopyFiles, SaveThen, Crash, Ends
      <4>2. proc.pr \in DOMAIN c
        BY DEF Overwrite
      <4> HIDE DEF c
      <4>3. files'[run].copied = c
        <5>1. [st EXCEPT !.copied = c].copied = c
          BY <1>1, CopiedRecord
        <5> QED  BY <1>1, <4>1, <5>1 DEF Record, IInv, FilesAre
      <4>4. proc'.pr = proc.pr
        BY <1>1, <4>1 DEF ProcFields
      <4> QED  BY <2>3, <4>2, <4>3, <4>4
    <3>2. CASE CheckHead \/ MergeRefused \/ CopyPart
      BY <3>2, <1>1, IdleIs DEF CheckHead, MergeRefused, CopyPart, ProcFields
    <3>3. CASE TakeAsMerged \/ MergePr \/ FinishCopy \/ CommentPr \/ ClosePr
      <4>1. PICK n : Save(Merged(st, n), "merge")
        BY <3>3 DEF TakeAsMerged, MergePr, FinishCopy, CommentPr, ClosePr
      <4> QED  BY <1>1, <1>4, <4>1, SavesTo
    <3>5. CASE Prepare \/ NothingToRecord \/ WriteManifest \/ MoveLocal \/ WriteCard \/ TellClaim \/ CloseClaims
      BY <3>5 DEF Prepare, NothingToRecord, WriteManifest, MoveLocal, WriteCard, TellClaim, CloseClaims, Merging
    <3>6. CASE DocsDone \/ DocsDirty \/ DocsEmpty \/ DocsCommit \/ DocsPush \/ DocsOpen \/ DocsLand \/ DocsConflict
      BY <3>6 DEF DocsDone, DocsDirty, DocsEmpty, DocsCommit, DocsPush, DocsOpen, DocsLand, DocsConflict,
         DocsStarts, DocsStep, Lands, Merging
    <3> QED  BY <1>4, <3>1, <3>2, <3>3, <3>5, <3>6 DEF Step
  <2> QED  BY <2>1, <2>2, <2>4, <2>5 DEF StepTrue, Merging, Later
<1> QED  BY <1>2, <1>3, <1>4

(* A step of a later phase goes on with what is done, or the process has ended. *)
LEMMA LaterGoes ==
  ASSUME IInv, FilesTrue, StepTrue, proc.at \in {"credits"} \cup Later, Step
  PROVE  \/ proc'.at = "idle"
         \/ /\ run' = run /\ proc'.at \in Later
            /\ "merge" \in files'[run].done /\ "manifest" \in files'[run].done
            /\ proc'.at \in {"card", "claims"} => "docs" \in files'[run].done
<1>1. /\ run \in Runs /\ st # NoFile /\ FileIs(world, verified, run, st) /\ "merge" \in st.done
      /\ proc.at \in Later => "manifest" \in st.done
      /\ proc.at \in {"card", "claims"} => "docs" \in st.done
  BY LaterIs DEF StepTrue
<1>2. st = [f \in FileFields |-> st[f]]
  BY <1>1 DEF FileIs
<1>3. \A at : Goes(at) => run' = run /\ proc'.at = at
  BY GoesIs DEF IInv, ProcIs, run
<1>4. files' = files => files'[run] = st
  BY DEF st
<1>5. \A x : Done(st, x).done = st.done \cup {x}
  BY <1>2, DoneRecord
<1>6. Ends => proc'.at = "idle"
  BY IdleIs DEF Ends
<1>7. CASE NothingToRecord \/ CloseClaims \/ DocsDirty
  BY <1>6, <1>7 DEF NothingToRecord, CloseClaims, DocsDirty, Over, Crash
<1>8. CASE WriteManifest
  <2>1. ("manifest" \in st.done /\ Goes("local") /\ files' = files) \/ Save(Done(st, "manifest"), "local")
    BY <1>8 DEF WriteManifest
  <2> QED  BY <1>1, <1>3, <1>4, <1>5, <2>1, SavesTo DEF Later
<1>9. CASE MoveLocal
  <2>1. proc.at \in Later /\ ((Goes("docs") /\ files' = files) \/ Save(Done(st, "local"), "docs"))
    BY <1>9 DEF MoveLocal, Later
  <2> QED  BY <1>1, <1>3, <1>4, <1>5, <2>1, SavesTo DEF Later
<1>10. CASE WriteCard
  <2>1. proc.at = "card" /\ ((Goes("claims") /\ files' = files) \/ Save(Done(st, "card"), "claims"))
    BY <1>10 DEF WriteCard
  <2> QED  BY <1>1, <1>3, <1>4, <1>5, <2>1, SavesTo DEF Later
<1>11. CASE TellClaim
  <2> DEFINE c == st.commented \cup {MinOf(ToTell)}
  <2>1. proc.at = "claims" /\ Save([st EXCEPT !.commented = c], "claims")
    BY <1>11 DEF TellClaim
  <2> HIDE DEF c
  <2>2. [st EXCEPT !.commented = c].done = st.done
    BY <1>2, CommentedRecord
  <2> QED  BY <1>1, <2>1, <2>2, SavesTo DEF Later
<1>12. CASE DocsDone
  <2>1. "docs" \in st.done /\ Goes("card") /\ files' = files /\ proc.at \in Later
    BY <1>12 DEF DocsDone, Later
  <2> QED  BY <1>1, <1>3, <1>4, <2>1 DEF Later
<1>13. CASE DocsEmpty \/ DocsCommit
  <2> DEFINE t == Started(st)
  <2>1. proc.at \in Later
    BY <1>13 DEF DocsEmpty, DocsCommit, DocsStarts, DocsStep, Later
  <2>2. t.done = st.done /\ t = [f \in FileFields |-> t[f]]
    BY <1>2, StartedRecord
  <2>3. CASE DocsEmpty
    <3> DEFINE e == [t EXCEPT !.empty = TRUE]
    <3>1. Save(Done(e, "docs"), "card")
      BY <2>3 DEF DocsEmpty
    <3> HIDE DEF t
    <3>2. e.done = t.done /\ e = [f \in FileFields |-> e[f]]
      BY <2>2, EmptyRecord
    <3> HIDE DEF e
    <3>3. Done(e, "docs").done = e.done \cup {"docs"}
      BY <3>2, DoneRecord
    <3> QED  BY <1>1, <2>1, <2>2, <3>1, <3>2, <3>3, SavesTo DEF Later
  <2>4. CASE DocsCommit
    <3> DEFINE u == [t EXCEPT !.sub = {"committed"}]
    <3>1. Ends \/ (Goes("docs") /\ Record(u))
      BY <2>4 DEF DocsCommit, Crash
    <3> HIDE DEF t
    <3>2. u.done = t.done
      BY <2>2, SubRecord
    <3> HIDE DEF u
    <3>3. Record(u) => files'[run] = u
      BY <1>1 DEF Record, IInv, FilesAre
    <3> QED  BY <1>1, <1>3, <1>6, <2>1, <2>2, <3>1, <3>2, <3>3 DEF Later
  <2> QED  BY <1>13, <2>3, <2>4
<1>14. CASE DocsPush \/ DocsOpen \/ DocsConflict
  <2>1. proc.at \in Later
    BY <1>14 DEF DocsPush, DocsOpen, DocsConflict, DocsStep, Lands, Later
  <2>2. Ends \/ \E s : Save(s, "docs") /\ s.done = st.done
    <3>1. CASE DocsPush
      <4> DEFINE x == st.sub \cup {"pushed"}
      <4>1. Save([st EXCEPT !.sub = x], "docs")
        BY <3>1 DEF DocsPush
      <4> HIDE DEF x
      <4>2. [st EXCEPT !.sub = x].done = st.done
        BY <1>2, SubRecord
      <4> QED  BY <4>1, <4>2
    <3>2. CASE DocsOpen
      <4>1. Save([st EXCEPT !.docsPr = TRUE], "docs")
        BY <3>2 DEF DocsOpen
      <4>2. [st EXCEPT !.docsPr = TRUE].done = st.done
        BY <1>2, OpenRecord
      <4> QED  BY <4>1, <4>2
    <3>3. CASE DocsConflict
      <4>1. Ends \/ Save([st EXCEPT !.retried = TRUE, !.sub = {}, !.docsPr = FALSE], "docs")
        BY <3>3 DEF DocsConflict
      <4>2. [st EXCEPT !.retried = TRUE, !.sub = {}, !.docsPr = FALSE].done = st.done
        BY <1>2, RedoneRecord
      <4> QED  BY <4>1, <4>2
    <3> QED  BY <1>14, <3>1, <3>2, <3>3
  <2> QED  BY <1>1, <1>6, <2>1, <2>2, SavesTo DEF Later
<1>15. CASE DocsLand
  <2>1. proc.at \in Later /\ Save(Done(st, "docs"), "card")
    BY <1>15 DEF DocsLand, DocsStep, Lands, Later
  <2> QED  BY <1>1, <1>5, <2>1, SavesTo DEF Later
<1>16. CASE Prepare
  BY <1>16 DEF Prepare, Later
<1>17. CASE AllMerged \/ CheckHead \/ TakeAsMerged \/ MergePr \/ MergeRefused \/ CopyPart \/ CopyFiles
            \/ FinishCopy \/ CommentPr \/ ClosePr
  BY <1>17 DEF AllMerged, CheckHead, TakeAsMerged, MergePr, MergeRefused, CopyPart, CopyFiles, FinishCopy,
     CommentPr, ClosePr, MergesNext, Does, Later
<1> QED  BY <1>7, <1>8, <1>9, <1>10, <1>11, <1>12, <1>13, <1>14, <1>15, <1>16, <1>17 DEF Step

(* What holds of the process holds after every step. *)
LEMMA StepTrueOn ==
  ASSUME ~ Window, IInv, OneRun, TablesAre, RegistriesAre, BranchIs, MergedAre, FilesTrue, StepTrue,
         AllSteady, KeepsDecisions, Next
  PROVE  StepTrue'
<1>1. CASE proc'.at = "idle"
  BY <1>1, IdleTrue
<1>2. CASE UNCHANGED <<files, proc>> /\ Outside
  <2>1. st' = st /\ run' = run /\ proc' = proc
    BY <1>2 DEF st, run
  <2>2. ASSUME proc.at \in Merging, NEW r \in Runs, r = run
        PROVE  Checked(r)'
    <3>1. st # NoFile
      BY <2>2, MergingIs
    <3>2. files[r] = st /\ files'[r] = st
      BY <1>2, <2>2 DEF st
    <3>3. Checked(r) /\ HandIs(r)
      BY <2>2, <3>1, <3>2 DEF StepTrue, FilesTrue, CoreTrue
    <3>4. Grows(files[r], files'[r])
      BY <3>2 DEF Grows, SamePlan
    <3> QED  BY <3>1, <3>2, <3>3, <3>4, CheckedOn
  <2>3. proc.at \in {"effect", "copy"} => head' = head
    BY <1>2 DEF Outside, Push, Verify, MergeByHand, WithdrawClaim, ResolveDocs, CloseDocs, PlanAccept, OtherCommit,
       Pull, PullTables, Edit, CleanUp, hub
  <2>4. Prior(run)' = Prior(run)
    BY <1>2, <2>1 DEF Prior, run
  <2> QED  BY <1>2, <2>1, <2>2, <2>3, <2>4 DEF StepTrue
<1>3. CASE \E r \in Runs, release \in Releases : Start(r, release)
  <2>1. PICK r \in Runs, release \in Releases : Start(r, release)
    BY <1>3
  <2> DEFINE s == Prior(r)
  <2>2. /\ proc'.at = IF "merge" \in s.done THEN "credits" ELSE "prepare"
        /\ run' = r /\ files' = files
    BY <2>1 DEF Start, Prior, run
  <2>3. Prior(run)' = s
    BY <2>2 DEF Prior, run
  <2>4. "merge" \in s.done => st' = s
    BY <2>2 DEF Prior, Fresh, st
  <2> QED  BY <2>2, <2>3, <2>4 DEF StepTrue, Merging, Later
<1>4. CASE Step
  <2>1. CASE Prepare
    <3>1. CASE /\ proc'.at = "merge" /\ run' = run
               /\ \A r \in Runs : r = run => Checked(r)'
      BY <3>1 DEF StepTrue, Merging, Later
    <3> QED  BY <1>1, <2>1, <3>1, PrepareTrue
  <2>2. CASE proc.at \in Merging
    BY <1>4, <2>2, MergingStep
  <2>3. CASE proc.at \in {"credits"} \cup Later
    <3>1. CASE /\ run' = run /\ proc'.at \in Later
               /\ "merge" \in files'[run].done /\ "manifest" \in files'[run].done
               /\ proc'.at \in {"card", "claims"} => "docs" \in files'[run].done
      <4>1. st' = files'[run]
        BY <3>1 DEF st
      <4> QED  BY <3>1, <4>1 DEF StepTrue, Merging, Later
    <3> QED  BY <1>1, <1>4, <2>3, <3>1, LaterGoes
  <2>4. Prepare \/ proc.at \in Merging \/ proc.at \in {"credits"} \cup Later
    BY <1>4 DEF Step, AllMerged, CheckHead, TakeAsMerged, MergePr, MergeRefused,
       CopyPart, CopyFiles, FinishCopy, CommentPr, ClosePr, NothingToRecord, WriteManifest, MoveLocal, DocsDone,
       DocsDirty, DocsEmpty, DocsCommit, DocsPush, DocsOpen, DocsLand, DocsConflict, WriteCard, TellClaim,
       CloseClaims, MergesNext, Does, DocsStep, DocsStarts, Lands, Merging, Later
  <2> QED  BY <2>1, <2>2, <2>3, <2>4
<1> QED  BY <1>1, <1>2, <1>3, <1>4, FilesWritten, IdleIs

-----------------------------------------------------------------------------
\* Staging, the corpus directory, what is merged, and the branch.

(* What a PR has staged stays what its report is about. *)
LEMMA StagedOn ==
  ASSUME IInv, StagedAre, Next
  PROVE  StagedAre'
<1>1. world' = world
  BY WritersAre
<1>2. \A n \in Prs : \A m \in DOMAIN staged[n] :
        /\ m \in Materials(n, report[n].head) /\ staged[n][m] = Content(n, report[n].head, m)
  BY DEF StagedAre
<1>3. CASE \E k \in Prs : Verify(k)
  <2>1. PICK k \in Prs : Verify(k)
    BY <1>3
  <2> DEFINE d == Delivery(k, head[k])
             e == Report(head[k], d.good, TRUE)
  <2>2. report' = [report EXCEPT ![k] = e] /\ staged' = [staged EXCEPT ![k] = d.files]
    BY <2>1 DEF Verify
  <2>3. e.head = head[k]
    BY DEF Report
  <2>4. \A m \in DOMAIN d.files : m \in Materials(k, head[k]) /\ d.files[m] = Content(k, head[k], m)
    BY DEF Materials, Content
  <2> HIDE DEF d, e
  <2>5. /\ staged' = [n \in Prs |-> IF n = k THEN d.files ELSE staged[n]]
        /\ report' = [n \in Prs |-> IF n = k THEN e ELSE report[n]]
    BY <2>2 DEF StagedAre, IInv, HeadsAre
  <2>6. \A n \in Prs : \A m \in DOMAIN staged'[n] :
          /\ m \in Materials(n, report'[n].head) /\ staged'[n][m] = Content(n, report'[n].head, m)
    BY <1>2, <2>3, <2>4, <2>5
  <2> QED  BY <1>1, <2>5, <2>6, ZenonT(30) DEF StagedAre, Materials, Content, Delivery
<1>4. CASE MoveLocal
  <2>1. report' = report
    BY <1>4 DEF MoveLocal
  <2>2. /\ staged' = [n \in Prs |-> staged'[n]]
        /\ \A n \in Prs : DOMAIN staged'[n] \subseteq DOMAIN staged[n]
        /\ \A n \in Prs : \A m \in DOMAIN staged'[n] : staged'[n][m] = staged[n][m]
    <3>1. CASE staged' = staged
      BY <3>1 DEF StagedAre
    <3>2. CASE "local" \notin st.done
      <4> DEFINE moves(n) == PublishedNow[n] \cap DOMAIN staged[n]
                 moved == {n \in run : moves(n) # {}}
      <4>1. staged' = [n \in Prs |-> IF n \in moved
                         THEN Only(staged[n], DOMAIN staged[n] \ moves(n)) ELSE staged[n]]
        BY <1>4, <3>2 DEF MoveLocal
      <4> QED  BY <4>1 DEF Only
    <3> QED  BY <1>4, <3>1, <3>2 DEF MoveLocal
  <2>3. \A n \in Prs : \A m \in DOMAIN staged'[n] :
          /\ m \in Materials(n, report'[n].head) /\ staged'[n][m] = Content(n, report'[n].head, m)
    BY <1>2, <2>1, <2>2
  <2> QED  BY <1>1, <2>2, <2>3 DEF StagedAre, Materials, Content, Delivery
<1>5. CASE staged' = staged /\ report' = report
  BY <1>1, <1>5 DEF StagedAre, Materials, Content, Delivery
<1> QED  BY <1>3, <1>4, <1>5, WritersAre

(* The corpus directory has what the manifest names. *)
LEMMA TablesOn ==
  ASSUME IInv, FilesTrue, StepTrue, StagedAre, TablesAre, Next,
         \A m \in DOMAIN manifest : m \in DOMAIN manifest' /\ manifest'[m] = manifest[m]
  PROVE  TablesAre'
<1>1. CASE tables' = tables
  BY <1>1 DEF TablesAre
<1>2. CASE PullTables
  <2>1. tables' = Overwrite(tables, manifest)
    BY <1>2 DEF PullTables
  <2> QED  BY <2>1 DEF TablesAre, Overwrite
<1>3. CASE MoveLocal /\ "local" \notin st.done
  <2> DEFINE moves(n) == PublishedNow[n] \cap DOMAIN staged[n]
             moved == {n \in run : moves(n) # {}}
             From(m) == CHOOSE n \in moved : m \in moves(n)
             c == [m \in UNION {moves(n) : n \in moved} |-> staged[From(m)][m]]
  <2>1. tables' = Overwrite(tables, c)
    BY <1>3 DEF MoveLocal
  <2>2. ASSUME NEW m \in DOMAIN c
        PROVE  m \in DOMAIN manifest /\ c[m] = manifest[m]
    <3> DEFINE n == From(m)
    <3>1. \E k \in moved : m \in moves(k)
      OBVIOUS
    <3>2. n \in moved /\ m \in moves(n)
      BY <3>1
    <3>3. c[m] = staged[n][m]
      OBVIOUS
    <3> HIDE DEF n, c
    <3>4. n \in run /\ m \in PubOf(st, n) /\ m \in DOMAIN staged[n]
      BY <3>2 DEF PublishedNow, Published
    <3>5. proc.at \in {"credits"} \cup Later /\ proc.at \in Later
      BY <1>3 DEF MoveLocal, Later
    <3>6. run \in Runs /\ FileIs(world, verified, run, st) /\ News(st) \subseteq DOMAIN manifest
      BY <3>5, LaterIs
    <3>7. m \in Materials(n, st.pulls[n]) /\ st.decided[m].from = n /\ n # NoPr
      BY <3>4, <3>6, AcceptAssumption DEF PubOf, Pub
    <3>8. m \in DOMAIN st.decided
      <4> PICK q \in Runs : q = run
        BY <3>6
      <4>1. files[q] = st /\ st # NoFile /\ "merge" \in st.done
        BY <3>5, LaterIs DEF st
      <4>2. DOMAIN st.decided = Brought(world, st.pulls)
        BY <4>1 DEF FilesTrue, StageOf
      <4>3. DOMAIN st.pulls = run
        BY <3>6 DEF FileIs
      <4> QED  BY <3>4, <3>7, <4>2, <4>3 DEF Brought, Materials, Delivery
    <3>9. m \in News(st)
      BY <3>7, <3>8 DEF News
    <3>10. /\ m \in DOMAIN main /\ main[m] = Content(n, st.pulls[n], m)
           /\ report[n].head = st.pulls[n]
      BY <3>5, <3>7, <3>9, LaterIs
    <3>11. staged[n][m] = Content(n, st.pulls[n], m)
      <4>1. n \in Prs
        BY <3>4, <3>6 DEF Prs
      <4> QED  BY <3>4, <3>10, <4>1 DEF StagedAre
    <3> QED  BY <3>3, <3>6, <3>9, <3>10, <3>11 DEF IInv, PublicTrue
  <2> HIDE DEF c
  <2> QED  BY <2>1, <2>2 DEF TablesAre, Overwrite
<1> QED  BY <1>1, <1>2, <1>3, WritersAre DEF MoveLocal

(* Only the end of a run forgets its file. *)
LEMMA Forgotten ==
  ASSUME IInv, Next, NEW r \in Runs, files[r] # NoFile, files'[r] = NoFile
  PROVE  r = run /\ (NothingToRecord \/ CloseClaims)
<1>1. Step /\ r = run /\ run \in Runs
  BY FilesWritten
<1>2. \A s : Record(s) => files'[run] = s
  BY <1>1 DEF Record, IInv, FilesAre
<1>3. ASSUME NEW s, DOMAIN s = FileFields
      PROVE  ~ Record(s)
  <2>1. DOMAIN NoFile = {"done"} /\ "merged" \in FileFields
    BY DEF NoFile, FileFields
  <2> QED  BY <1>1, <1>2, <1>3, <2>1
<1>4. CASE Prepare
  <2> DEFINE p == Prior(run)
             k == Known(run, p)
             d == Decided(run, p, proc.release)
  <2>1. \/ files' = files
        \/ Record(k)
        \/ ~ Refuses(run, p) /\ Record(d)
    BY <1>4 DEF Prepare, Save, SaveThen
  <2>2. PriorIs(world, verified, run, p)
    BY <1>1, PriorHolds DEF IInv
  <2> HIDE DEF p
  <2>3. p = [f \in FileFields |-> p[f]]
    BY <2>2 DEF PriorIs
  <2>4. k = [f \in FileFields |-> k[f]]
    BY <2>3, KnownIs
  <2>5. ~ Refuses(run, p) => FileIs(world, verified, run, d)
    BY <1>1, <2>2, DecidedIs DEF IInv
  <2> HIDE DEF k, d
  <2>6. k # NoFile /\ (~ Refuses(run, p) => d # NoFile)
    BY <2>4, <2>5, FileIsSome DEF FileIs
  <2> QED  BY <1>1, <1>2, <2>1, <2>6
<1>5. CASE ~ Prepare
  <2>1. proc.at \notin {"idle", "prepare"}
    BY <1>1, <1>5 DEF Step, AllMerged, CheckHead, TakeAsMerged, MergePr, MergeRefused,
       CopyPart, CopyFiles, FinishCopy, CommentPr, ClosePr, NothingToRecord, WriteManifest, MoveLocal, DocsDone,
       DocsDirty, DocsEmpty, DocsCommit, DocsPush, DocsOpen, DocsLand, DocsConflict, WriteCard, TellClaim,
       CloseClaims, MergesNext, Does, DocsStep, DocsStarts, Lands
  <2>2. DOMAIN st = FileFields
    <3>1. FileIs(world, verified, run, st)
      BY <2>1, RunIs DEF IInv
    <3> QED  BY <3>1 DEF FileIs
  <2>3. \A n, x, c : /\ DOMAIN Merged(st, n) = FileFields /\ DOMAIN Done(st, x) = FileFields
                     /\ DOMAIN [st EXCEPT !.copied = c] = FileFields
                     /\ DOMAIN [st EXCEPT !.commented = c] = FileFields
                     /\ DOMAIN [st EXCEPT !.sub = c] = FileFields
    BY <2>2 DEF Merged, Done
  <2>4. /\ DOMAIN Started(st) = FileFields
        /\ DOMAIN [Started(st) EXCEPT !.sub = {"committed"}] = FileFields
        /\ DOMAIN Done([Started(st) EXCEPT !.empty = TRUE], "docs") = FileFields
        /\ DOMAIN [st EXCEPT !.docsPr = TRUE] = FileFields
        /\ DOMAIN [st EXCEPT !.retried = TRUE, !.sub = {}, !.docsPr = FALSE] = FileFields
    BY <2>2 DEF Started, Done
  <2>5. ~ AllMerged /\ ~ CheckHead /\ ~ TakeAsMerged /\ ~ MergePr /\ ~ MergeRefused /\ ~ CopyPart
    BY <1>1, <1>3, <2>3 DEF AllMerged, CheckHead, TakeAsMerged, MergePr, MergeRefused, CopyPart, Save, SaveThen
  <2>6. ~ CopyFiles /\ ~ FinishCopy /\ ~ CommentPr /\ ~ ClosePr
    BY <1>1, <1>3, <2>3 DEF CopyFiles, FinishCopy, CommentPr, ClosePr, Save, SaveThen
  <2>7. ~ WriteManifest /\ ~ MoveLocal /\ ~ WriteCard /\ ~ TellClaim
    BY <1>1, <1>3, <2>3 DEF WriteManifest, MoveLocal, WriteCard, TellClaim, Save, SaveThen
  <2>8. ~ DocsDone /\ ~ DocsDirty /\ ~ DocsEmpty /\ ~ DocsCommit
    BY <1>1, <1>3, <2>4 DEF DocsDone, DocsDirty, DocsEmpty, DocsCommit, Save, SaveThen
  <2>9. ~ DocsPush /\ ~ DocsOpen /\ ~ DocsLand /\ ~ DocsConflict
    BY <1>1, <1>3, <2>3, <2>4 DEF DocsPush, DocsOpen, DocsLand, DocsConflict, Save, SaveThen
  <2> QED  BY <1>1, <1>5, <2>5, <2>6, <2>7, <2>8, <2>9 DEF Step
<1> QED  BY <1>4, <1>5

(* The decisions of a run that has begun stay until it is over, and then what it publishes is in
   the manifest. *)
LEMMA PlanStays ==
  ASSUME IInv, FilesTrue, StepTrue, KeepsDecisions, Next, NEW r \in Runs, UnderWay(r), Begun(r),
         NEW m \in News(files[r])
  PROVE  \/ UnderWay(r)' /\ m \in News(files'[r]) /\ files'[r].decided[m] = files[r].decided[m]
         \/ CloseClaims /\ r = run /\ m \in DOMAIN manifest
<1>1. CASE files'[r] # NoFile
  <2>1. files'[r].decided = files[r].decided
    BY <1>1 DEF KeepsDecisions
  <2> QED  BY <1>1, <2>1 DEF UnderWay, News
<1>2. CASE files'[r] = NoFile
  <2>1. files[r] # NoFile
    BY DEF UnderWay
  <2>2. r = run /\ (NothingToRecord \/ CloseClaims)
    BY <1>2, <2>1, Forgotten
  <2>3. files[r] = st
    BY <2>2 DEF st
  <2>4. CASE CloseClaims
    <3>1. proc.at \in Later
      BY <2>4 DEF CloseClaims, Later
    <3> QED  BY <2>2, <2>3, <2>4, <3>1, LaterIs
  <2>5. CASE NothingToRecord
    <3> DEFINE n == st.decided[m].from
    <3>1. proc.at \in {"credits"} \cup Later /\ RecordedOf(run, st) [n] = {}
      <4>1. proc.at \in {"credits"} \cup Later /\ Nothing(run, st)
        BY <2>5 DEF NothingToRecord
      <4>2. n \in run
        BY <2>3, <4>1, LaterIs
      <4> QED  BY <4>1, <4>2 DEF Nothing
    <3>2. n \in run /\ m \in Materials(n, st.pulls[n]) /\ m \in DOMAIN st.decided /\ n # NoPr
      BY <2>3, <3>1, LaterIs DEF News
    <3>3. Agreed(r)
      BY <2>1 DEF FilesTrue, CoreTrue
    <3>4. m \notin st.own[n] /\ AgreedOn(r, m)
      BY <2>2, <2>3, <3>2, <3>3 DEF Agreed
    <3>5. st.decided[m].kind = "new"
      BY <2>3, <3>2, <3>4 DEF AgreedOn, AgreedIn
    <3> QED  BY <3>1, <3>2, <3>4, <3>5 DEF RecordedOf, Recorded
  <2> QED  BY <2>2, <2>4, <2>5
<1> QED  BY <1>1, <1>2

-----------------------------------------------------------------------------
\* What is merged.

(* main keeps what it has, but for what a copy replaces by decision. *)
LEMMA MainGrows ==
  ASSUME IInv, Next, NEW m \in DOMAIN main
  PROVE  /\ m \in DOMAIN main'
         /\ main'[m] = main[m] \/ (CopyFiles /\ m \in PubOf(st, proc.pr))
<1>1. CASE main' = main
  BY <1>1
<1>2. CASE MergePr
  <2>1. ~ Clash(Now) /\ main' = Overwrite(main, Now)
    BY <1>2 DEF MergePr
  <2> QED  BY <2>1, MergeAdds
<1>3. CASE \E k \in Prs : MergeByHand(k)
  <2>1. PICK k \in Prs : MergeByHand(k)
    BY <1>3
  <2>2. ~ Clash(Delivery(k, head[k]).files) /\ main' = Overwrite(main, Delivery(k, head[k]).files)
    BY <2>1 DEF MergeByHand
  <2> QED  BY <2>2, MergeAdds
<1>4. CASE WriteManifest
  BY <1>4 DEF WriteManifest
<1>5. CASE CopyFiles
  BY <1>5, CopyWrites
<1> QED  BY <1>1, <1>2, <1>3, <1>4, <1>5, Writers

\* What MergedAre says of one material of a merged PR.
MergedIn(n, m) ==
  /\ m \in DOMAIN main
  /\ \/ main[m] = Content(n, head[n], m) \/ m \in DOMAIN manifest
     \/ \E r \in Runs : UnderWay(r) /\ m \in News(files[r]) /\ files[r].decided[m].from # n

(* What a merged PR brought stays on main, unless a copy replaces it. *)
LEMMA MergedStays ==
  ASSUME IInv, FilesTrue, StepTrue, KeepsDecisions, Next, NEW n \in Prs, NEW m, MergedIn(n, m),
         head'[n] = head[n]
  PROVE  MergedIn(n, m)'
<1>1. m \in DOMAIN main /\ m \in DOMAIN main' /\ world' = world
  BY MainGrows, WritersAre DEF MergedIn
<1>2. CASE m \in DOMAIN manifest
  BY <1>1, <1>2, ListedStays DEF MergedIn
<1>3. CASE \E r \in Runs : UnderWay(r) /\ m \in News(files[r]) /\ files[r].decided[m].from # n
  <2>1. PICK r \in Runs : UnderWay(r) /\ m \in News(files[r]) /\ files[r].decided[m].from # n
    BY <1>3
  <2>2. Begun(r)
    BY <1>1, <2>1 DEF Begun
  <2>3. \/ UnderWay(r)' /\ m \in News(files'[r]) /\ files'[r].decided[m] = files[r].decided[m]
        \/ m \in DOMAIN manifest
    BY <2>1, <2>2, PlanStays
  <2> QED  BY <1>1, <1>2, <2>1, <2>3 DEF MergedIn
<1>4. CASE main[m] = Content(n, head[n], m) /\ main'[m] = main[m]
  BY <1>1, <1>4 DEF MergedIn, Content, Delivery
<1>5. CASE main[m] = Content(n, head[n], m) /\ CopyFiles /\ m \in PubOf(st, proc.pr)
  <2>1. /\ m \in News(st) /\ st.decided[m].from = proc.pr /\ run \in Runs
        /\ main'[m] = Content(proc.pr, st.pulls[proc.pr], m)
    BY <1>5, CopyWrites
  <2>2. CASE proc.pr = n
    <3>1. head[n] = st.pulls[n]
      BY <1>5, <2>2 DEF StepTrue, CopyFiles
    <3> QED  BY <1>1, <2>1, <2>2, <3>1 DEF MergedIn, Content, Delivery
  <2>3. CASE proc.pr # n
    <3>1. files'[run] # NoFile
      <4>1. ~ NothingToRecord /\ ~ CloseClaims /\ st # NoFile
        <5>1. proc.at = "copy"
          BY <1>5 DEF CopyFiles
        <5> QED  BY <5>1, RunIs DEF NothingToRecord, CloseClaims, IInv
      <4>2. PICK r \in Runs : r = run
        BY <2>1
      <4> QED  BY <4>1, <4>2, Forgotten DEF st
    <3>2. PICK r \in Runs : r = run
      BY <2>1
    <3>3. UnderWay(r) /\ m \in News(files[r]) /\ files[r] = st
      <4>1. proc.at \notin {"idle", "prepare"}
        BY <1>5 DEF CopyFiles
      <4>2. st # NoFile
        BY <4>1, RunIs DEF IInv
      <4> QED  BY <2>1, <3>2, <4>2 DEF UnderWay, News, st
    <3>4. \/ UnderWay(r)' /\ m \in News(files'[r]) /\ files'[r].decided[m] = files[r].decided[m]
          \/ m \in DOMAIN manifest
      BY <1>1, <3>3, PlanStays DEF Begun
    <3> QED  BY <1>1, <1>2, <2>1, <2>3, <3>3, <3>4 DEF MergedIn
  <2> QED  BY <2>2, <2>3
<1> QED  BY <1>2, <1>3, <1>4, <1>5, MainGrows DEF MergedIn

(* What is merged is on main as it was brought, or is another PR's by decision. *)
LEMMA MergedOn ==
  ASSUME IInv, FilesTrue, StepTrue, MergedAre, KeepsDecisions, Next
  PROVE  MergedAre'
<1>1. status' = [n \in Prs |-> status'[n]]
  <2>1. status = [n \in Prs |-> status[n]]
    BY DEF MergedAre
  <2> QED  BY <2>1, WritersAre DEF MergePr, FinishCopy, ClosePr, Closed, Push, MergeByHand
<1>2. ASSUME NEW n \in Prs, NEW m \in Materials(n, head'[n]), status[n] = "merged", head'[n] = head[n]
      PROVE  MergedIn(n, m)'
  <2>1. MergedIn(n, m)
    BY <1>2 DEF MergedAre, MergedIn
  <2> QED  BY <1>2, <2>1, MergedStays
<1>3. ASSUME NEW n \in Prs, status'[n] = "merged", NEW c, main' = Overwrite(main, c), ~ Clash(c),
             c = Delivery(n, head[n]).files, head' = head
      PROVE  \A m \in Materials(n, head'[n]) : MergedIn(n, m)'
  <2>1. \A m \in Materials(n, head[n]) : m \in DOMAIN main' /\ main'[m] = Content(n, head[n], m)
    BY <1>3, MergeAdds DEF Materials, Content
  <2> QED  BY <1>3, <2>1, WritersAre DEF MergedIn, Content, Delivery
<1>4. ASSUME NEW n \in Prs, status'[n] = "merged"
      PROVE  \A m \in Materials(n, head'[n]) : MergedIn(n, m)'
  <2>1. CASE status[n] = "merged" /\ head'[n] = head[n]
    BY <1>2, <2>1
  <2>2. CASE MergePr
    <3>1. /\ main' = Overwrite(main, Now) /\ ~ Clash(Now) /\ head' = head
          /\ status' = [status EXCEPT ![proc.pr] = "merged"]
      BY <2>2 DEF MergePr
    <3>2. CASE n = proc.pr
      BY <1>3, <1>4, <3>1, <3>2 DEF Now
    <3>3. CASE n # proc.pr
      BY <1>4, <2>1, <3>1, <3>3 DEF MergedAre
    <3> QED  BY <3>2, <3>3
  <2>3. CASE \E k \in Prs : MergeByHand(k)
    <3>1. PICK k \in Prs : MergeByHand(k)
      BY <2>3
    <3> DEFINE c == Delivery(k, head[k]).files
    <3>2. /\ main' = Overwrite(main, c) /\ ~ Clash(c) /\ head' = head
          /\ status' = [status EXCEPT ![k] = "merged"]
      BY <3>1 DEF MergeByHand
    <3>3. CASE n = k
      BY <1>3, <1>4, <3>2, <3>3
    <3>4. CASE n # k
      BY <1>4, <2>1, <3>2, <3>4 DEF MergedAre
    <3> QED  BY <3>3, <3>4
  <2>4. CASE UNCHANGED <<status, head>>
    BY <1>4, <2>1, <2>4
  <2>5. CASE FinishCopy
    <3>1. PICK k : status' = [status EXCEPT ![k] = IF st.copied[k] /\ @ = "open" THEN "closed" ELSE @]
      BY <2>5 DEF FinishCopy
    <3>2. head' = head
      BY <2>5 DEF FinishCopy
    <3> QED  BY <1>4, <2>1, <3>1, <3>2 DEF MergedAre
  <2>6. CASE ClosePr
    <3>1. head' = head /\ status' = [status EXCEPT ![proc.pr] = "closed"]
      BY <2>6 DEF ClosePr, Closed
    <3> QED  BY <1>4, <2>1, <3>1 DEF MergedAre
  <2>7. CASE \E k \in Prs : Push(k)
    <3>1. PICK k \in Prs : Push(k)
      BY <2>7
    <3>2. status' = status /\ status[k] = "open" /\ head' = [head EXCEPT ![k] = @ + 1]
      BY <3>1 DEF Push
    <3> QED  BY <1>4, <2>1, <3>2 DEF IInv, HeadsAre
  <2> QED  BY <2>2, <2>3, <2>4, <2>5, <2>6, <2>7, WritersAre
<1>5. \A n \in Prs : status'[n] = "merged" => \A m \in Materials(n, head[n])' : MergedIn(n, m)'
  <2>1. \A n \in Prs : Materials(n, head[n])' = Materials(n, head'[n])
    BY WritersAre DEF Materials, Delivery
  <2> QED  BY <1>4, <2>1
<1> QED  BY <1>1, <1>5 DEF MergedAre, MergedIn

-----------------------------------------------------------------------------
\* The branch checked out.

(* A run past the manifest has something to record, and so it is under way. *)
LEMMA ManifestUnderWay ==
  ASSUME IInv, FilesTrue, NEW r \in Runs, files[r] # NoFile, "manifest" \in files[r].done
  PROVE  UnderWay(r)
<1> DEFINE s == files[r]
<1>1. FileIs(world, verified, r, s) /\ StageOf(r)
  BY DEF IInv, FilesAre, FilesTrue
<1>2. ~ Nothing(r, s) /\ DOMAIN s.decided = Brought(world, s.pulls)
  BY <1>1 DEF StageOf
<1> HIDE DEF s
<1>3. PICK n \in r : RecordedOf(r, s)[n] # {}
  BY <1>2 DEF Nothing
<1>4. PICK m : m \in Materials(n, s.pulls[n])
  BY <1>3 DEF RecordedOf, Recorded
<1>5. DOMAIN s.pulls = r
  BY <1>1 DEF FileIs
<1>6. m \in DOMAIN s.decided
  BY <1>2, <1>3, <1>4, <1>5 DEF Brought, Materials, Delivery
<1> QED  BY <1>6 DEF UnderWay, s

(* So is the run of a process past it. *)
LEMMA LaterUnderWay ==
  ASSUME IInv, FilesTrue, StepTrue, proc.at \in Later
  PROVE  DOMAIN st.decided # {}
<1>1. run \in Runs /\ st # NoFile /\ "manifest" \in st.done
  BY LaterIs
<1>2. PICK q \in Runs : q = run
  BY <1>1
<1>3. UnderWay(q)
  BY <1>1, <1>2, ManifestUnderWay DEF st
<1> QED  BY <1>2, <1>3 DEF UnderWay, st

(* What the docs of a run go back to is the maintainer's branch. *)
LEMMA GoesBack ==
  ASSUME IInv, OneRun, BranchIs, FilesTrue, StepTrue, proc.at = "docs"
  PROVE  Started(st).original = Main /\ (st.sub # {} => st.original = Main)
<1>1. /\ run \in Runs /\ st # NoFile /\ FileIs(world, verified, run, st)
  BY LaterIs DEF Later
<1>2. PICK q \in Runs : q = run
  BY <1>1
<1>3. (st.started => st.original = Main) /\ (st.sub # {} => st.started)
  BY <1>1, <1>2 DEF FilesTrue, StageOf, st
<1>4. Started(st).original = IF st.started THEN st.original ELSE branch
  BY <1>1, StartedRecord DEF FileIs
<1> QED  BY <1>3, <1>4, StartsOnMain

(* While a run's branch is checked out its file stays where it is in the docs phase. *)
LEMMA OffMainStays ==
  ASSUME IInv, OneRun, FilesTrue, StepTrue, NEW r \in Runs, UnderWay(r), files[r].started,
         "docs" \notin files[r].done, Next, ~ DocsEmpty, ~ DocsCommit, ~ DocsLand, ~ DocsConflict
  PROVE  UnderWay(r)' /\ files'[r].started /\ "docs" \notin files'[r].done
<1>1. CASE files'[r] = files[r]
  BY <1>1 DEF UnderWay
<1>2. CASE Step /\ proc.at # "idle" /\ files'[r] # files[r]
  <2>1. r = run /\ files[r] = st /\ st # NoFile
    BY <1>2 DEF OneRun, UnderWay, st
  <2>2. "manifest" \in st.done /\ "merge" \in st.done /\ ~ Nothing(run, st)
    BY <2>1 DEF FilesTrue, StageOf
  <2>3. proc.at # "prepare" /\ proc.at \notin Merging /\ proc.at \notin {"card", "claims"}
    BY <2>1, <2>2 DEF StepTrue, Prior, Checked
  <2>4. FileIs(world, verified, run, st)
    BY <2>1 DEF IInv, FilesAre
  <2>5. st = [f \in FileFields |-> st[f]]
    BY <2>4 DEF FileIs
  <2>6. MoveLocal \/ DocsPush \/ DocsOpen
    <3>1. ~ AllMerged /\ ~ CheckHead /\ ~ TakeAsMerged /\ ~ MergePr /\ ~ MergeRefused /\ ~ CopyPart /\ ~ CopyFiles
          /\ ~ FinishCopy /\ ~ CommentPr /\ ~ ClosePr
      BY <2>3 DEF AllMerged, CheckHead, TakeAsMerged, MergePr, MergeRefused, CopyPart, CopyFiles, FinishCopy,
         CommentPr, ClosePr, MergesNext, Does, Merging
    <3>2. ~ Prepare /\ ~ NothingToRecord /\ ~ WriteManifest /\ ~ DocsDone /\ ~ DocsDirty
      BY <1>2, <2>1, <2>2, <2>3 DEF Prepare, NothingToRecord, WriteManifest, DocsDone, DocsDirty
    <3>3. ~ WriteCard /\ ~ TellClaim /\ ~ CloseClaims
      BY <2>3 DEF WriteCard, TellClaim, CloseClaims
    <3> QED  BY <1>2, <3>1, <3>2, <3>3 DEF Step
  <2>7. \A s : Record(s) => files'[r] = s
    BY <2>1 DEF Record, IInv, FilesAre
  <2>8. CASE MoveLocal
    <3>1. Record(Done(st, "local"))
      BY <1>2, <2>8 DEF MoveLocal, Save, SaveThen
    <3> DEFINE t == Done(st, "local")
    <3>2. SamePlan(st, t) /\ SameDocs(st, t) /\ t.done = st.done \cup {"local"}
      BY <2>5, DoneRecord
    <3>3. t # NoFile
      BY <2>4, DoneIs, FileIsSome DEF FileIs
    <3>4. files'[r] = t
      BY <2>7, <3>1
    <3> HIDE DEF t
    <3> QED  BY <2>1, <3>2, <3>3, <3>4 DEF UnderWay, SamePlan, SameDocs
  <2>9. CASE DocsPush
    <3> DEFINE x == st.sub \cup {"pushed"}
               t == [st EXCEPT !.sub = x]
    <3>1. Record(t)
      BY <1>2, <2>9 DEF DocsPush, Save, SaveThen
    <3>2. DOMAIN t = DOMAIN st
      OBVIOUS
    <3> HIDE DEF x
    <3>3. SamePlan(st, t) /\ t.started = st.started /\ t.done = st.done
      BY <2>5, SubRecord
    <3>4. files'[r] = t /\ files'[r] # NoFile
      <4>1. files'[r] = t
        BY <2>7, <3>1
      <4>2. ~ NothingToRecord /\ ~ CloseClaims
        BY <2>9 DEF DocsPush, DocsStep, NothingToRecord, CloseClaims
      <4> QED  BY <2>1, <4>1, <4>2, Forgotten
    <3> HIDE DEF t
    <3> QED  BY <2>1, <3>3, <3>4 DEF UnderWay, SamePlan
  <2>10. CASE DocsOpen
    <3> DEFINE t == [st EXCEPT !.docsPr = TRUE]
    <3>1. Record(t)
      BY <1>2, <2>10 DEF DocsOpen, Save, SaveThen
    <3>3. SamePlan(st, t) /\ t.started = st.started /\ t.done = st.done
      BY <2>5, OpenRecord
    <3>4. files'[r] = t /\ files'[r] # NoFile
      <4>1. files'[r] = t
        BY <2>7, <3>1
      <4>2. ~ NothingToRecord /\ ~ CloseClaims
        BY <2>10 DEF DocsOpen, DocsStep, NothingToRecord, CloseClaims
      <4> QED  BY <2>1, <4>1, <4>2, Forgotten
    <3> HIDE DEF t
    <3> QED  BY <2>1, <3>3, <3>4 DEF UnderWay, SamePlan
  <2> QED  BY <2>6, <2>8, <2>9, <2>10
<1> QED  BY <1>1, <1>2, FilesWritten

(* Off the maintainer's branch is only the run that has started its docs. *)
LEMMA BranchOn ==
  ASSUME IInv, OneRun, BranchIs, FilesTrue, StepTrue, Next
  PROVE  BranchIs'
<1>1. CASE DocsEmpty
  <2>1. proc.at = "docs" /\ branch' = Started(st).original
    BY <1>1 DEF DocsEmpty, DocsStarts, DocsStep
  <2> QED  BY <2>1, GoesBack DEF BranchIs, Main
<1>2. CASE DocsLand \/ DocsConflict
  <2>1. proc.at = "docs" /\ st.docsPr /\ branch' = st.original
    BY <1>2 DEF DocsLand, DocsConflict, Lands, DocsStep
  <2>2. st.sub # {}
    <3>1. FileIs(world, verified, run, st)
      BY <2>1, LaterIs DEF Later
    <3> QED  BY <2>1, <3>1 DEF FileIs, InOrder
  <2> QED  BY <2>1, <2>2, GoesBack DEF BranchIs, Main
<1>3. CASE DocsCommit
  <2>1. proc.at = "docs" /\ "docs" \notin st.done /\ branch' = run /\ OnBranch(After)
    BY <1>3 DEF DocsCommit, DocsStarts, DocsStep
  <2>2. /\ run \in Runs /\ st # NoFile /\ FileIs(world, verified, run, st) /\ DOMAIN st.decided # {}
    BY <2>1, LaterIs, LaterUnderWay DEF Later
  <2>3. run \in DOMAIN local'
    BY <2>1 DEF OnBranch, Overwrite
  <2> DEFINE t == Started(st)
             u == [t EXCEPT !.sub = {"committed"}]
  <2>4. Record(t) \/ Record(u)
    BY <1>3 DEF DocsCommit
  <2>5. /\ t.started /\ t.done = st.done /\ t = [f \in FileFields |-> t[f]]
        /\ SamePlan(st, t)
    BY <2>2, StartedRecord DEF FileIs
  <2> HIDE DEF t
  <2>6. u.started = t.started /\ u.done = t.done /\ SamePlan(t, u)
    BY <2>5, SubRecord
  <2> HIDE DEF u
  <2>7. PICK r \in Runs : r = run
    BY <2>2
  <2>8. files'[r].started /\ "docs" \notin files'[r].done /\ DOMAIN files'[r].decided # {}
    <3>1. \A s : Record(s) => files'[r] = s
      BY <2>7 DEF Record, IInv, FilesAre
    <3> QED  BY <2>1, <2>2, <2>4, <2>5, <2>6, <3>1 DEF SamePlan
  <2>9. files'[r] # NoFile
    <3>1. ~ NothingToRecord /\ ~ CloseClaims
      BY <2>1 DEF NothingToRecord, CloseClaims
    <3> QED  BY <2>2, <2>7, <3>1, Forgotten DEF st
  <2>10. branch' = r
    BY <2>1, <2>7
  <2> QED  BY <2>3, <2>7, <2>8, <2>9, <2>10 DEF BranchIs, UnderWay
<1>4. CASE branch' = branch /\ ~ DocsEmpty /\ ~ DocsCommit /\ ~ DocsLand /\ ~ DocsConflict
  <2> SUFFICES ASSUME branch # Main
               PROVE  BranchIs'
    BY <1>4 DEF BranchIs, Main
  <2>1. PICK r \in Runs : branch = r
    BY DEF BranchIs
  <2>2. r \in DOMAIN local /\ UnderWay(r) /\ files[r].started /\ "docs" \notin files[r].done
    BY <2>1 DEF BranchIs
  <2>3. UnderWay(r)' /\ files'[r].started /\ "docs" \notin files'[r].done
    BY <1>4, <2>2, OffMainStays
  <2>4. r \in DOMAIN local'
    BY <1>4, <2>2, WritersAre DEF Pull
  <2>5. branch' = r
    BY <1>4, <2>1
  <2> QED  BY <2>3, <2>4, <2>5 DEF BranchIs, UnderWay
<1> QED  BY <1>1, <1>2, <1>3, <1>4, WritersAre

-----------------------------------------------------------------------------
\* The registries.

(* Who has delivered what is published has, after every step. *)
LEMMA DeliversOn ==
  ASSUME IInv, Next, NEW m, NEW n, Delivers(m, n)
  PROVE  Delivers(m, n)'
<1>1. CASE n = NoPr
  BY <1>1 DEF Delivers
<1>2. CASE n # NoPr
  <2>1. m \in DOMAIN manifest /\ n \in Prs /\ Matches(m, n)
    BY <1>2 DEF Delivers
  <2>2. world' = world /\ m \in DOMAIN manifest' /\ main'[m] = main[m]
    BY <2>1, ListedStays, WritersAre
  <2>3. verified[n] \subseteq verified'[n]
    <3>1. verified' = verified \/ \E k \in Prs : Verify(k)
      BY DEF Next, Step, Prepare, AllMerged, CheckHead, TakeAsMerged, MergePr, MergeRefused,
         CopyPart, CopyFiles, FinishCopy, CommentPr, ClosePr, NothingToRecord, WriteManifest, MoveLocal, DocsDone,
         DocsDirty, DocsEmpty, DocsCommit, DocsPush, DocsOpen, DocsLand, DocsConflict, WriteCard, TellClaim,
         CloseClaims, Killed, Start, Outside, Push, MergeByHand, WithdrawClaim, ResolveDocs, CloseDocs,
         PlanAccept, OtherCommit, Pull, PullTables, Edit, CleanUp, history
    <3>2. ASSUME NEW k \in Prs, Verify(k)
          PROVE  verified[n] \subseteq verified'[n]
      <4>1. PICK x : verified' = [verified EXCEPT ![k] = IF x THEN @ \cup {head[k]} ELSE @]
        BY <3>2 DEF Verify
      <4> QED  BY <2>1, <4>1 DEF IInv, HeadsAre
    <3> QED  BY <3>1, <3>2
  <2>4. Matches(m, n)'
    <3>1. PICK v \in verified[n] : m \in Materials(n, v) /\ Delivery(n, v).files[m] = main[m]
      BY <2>1 DEF Matches
    <3>2. v \in verified'[n] /\ m \in Materials(n, v)' /\ Delivery(n, v)'.files[m] = main'[m]
      BY <2>2, <2>3, <3>1 DEF Materials, Delivery
    <3> QED  BY <3>2 DEF Matches, Delivery, Materials
  <2> QED  BY <2>1, <2>2, <2>4 DEF Delivers
<1> QED  BY <1>1, <1>2

(* What somebody merged by hand stays so. *)
LEMMA OwnOn ==
  ASSUME IInv, MergedAre, KnownAre, Next, NEW m, Own(m)
  PROVE  Own(m)'
<1>1. world' = world
  BY WritersAre
<1>2. CASE ByHand(m)
  <2>1. PICK n \in byHand : m \in Materials(n, head[n])
    BY <1>2 DEF ByHand
  <2>2. n \in Prs /\ status[n] # "open" /\ status = [k \in Prs |-> status[k]]
    BY DEF KnownAre, MergedAre
  <2>3. head'[n] = head[n]
    BY <2>2, SettledStays
  <2>4. byHand \subseteq byHand'
    BY DEF Next, Step, Prepare, AllMerged, CheckHead, TakeAsMerged, MergePr, MergeRefused,
       CopyPart, CopyFiles, FinishCopy, CommentPr, ClosePr, NothingToRecord, WriteManifest, MoveLocal, DocsDone,
       DocsDirty, DocsEmpty, DocsCommit, DocsPush, DocsOpen, DocsLand, DocsConflict, WriteCard, TellClaim,
       CloseClaims, Killed, Start, Outside, Push, Verify, MergeByHand, WithdrawClaim, ResolveDocs, CloseDocs,
       PlanAccept, OtherCommit, Pull, PullTables, Edit, CleanUp, history
  <2> QED  BY <1>1, <2>1, <2>3, <2>4 DEF Own, ByHand, Materials, Delivery
<1> QED  BY <1>1, <1>2 DEF Own

(* Whom a run credits has delivered what is published. *)
LEMMA RunDelivers ==
  ASSUME IInv, FilesTrue, StepTrue, proc.at \in Later, NEW n \in run
  PROVE  /\ \A m \in PubOf(st, n) : Delivers(m, n)
         /\ \A m \in RecordedOf(run, st)[n] : Delivers(m, n)
<1>1. /\ run \in Runs /\ st # NoFile /\ FileIs(world, verified, run, st) /\ "merge" \in st.done
      /\ News(st) \subseteq DOMAIN manifest
  BY LaterIs
<1>2. PICK q \in Runs : q = run
  BY <1>1
<1>3. CoreTrue(q) /\ StageOf(q) /\ files[q] = st
  BY <1>1, <1>2 DEF FilesTrue, st
<1>4. st.pulls = st.heads.pulls /\ DOMAIN st.decided = Brought(world, st.pulls)
  BY <1>1, <1>3 DEF StageOf
<1>5. DOMAIN st.pulls = run /\ st.pulls[n] \in verified[n] /\ n \in Prs
  BY <1>1, <1>2 DEF FileIs, Prs
<1>6. Materials(n, st.pulls[n]) \subseteq DOMAIN st.decided
  BY <1>4, <1>5 DEF Brought, Materials, Delivery
<1>7. ASSUME NEW m \in Materials(n, st.pulls[n]), m \in DOMAIN manifest, Content(n, st.pulls[n], m) = main[m]
      PROVE  Delivers(m, n)
  BY <1>5, <1>7 DEF Delivers, Matches, Content
<1>8. \A m \in PubOf(st, n) : Delivers(m, n)
  <2> SUFFICES ASSUME NEW m \in PubOf(st, n)
               PROVE  Delivers(m, n)
    OBVIOUS
  <2>1. m \in Materials(n, st.pulls[n]) /\ st.decided[m].from = n
    BY DEF PubOf, Pub
  <2>2. n # NoPr
    BY <1>1, AcceptAssumption
  <2>3. m \in News(st)
    BY <1>6, <2>1, <2>2 DEF News
  <2>4. main[m] = Content(n, st.pulls[n], m)
    BY <2>1, <2>3, LaterIs
  <2> QED  BY <1>1, <1>7, <2>1, <2>3, <2>4
<1>9. \A m \in RecordedOf(run, st)[n] : Delivers(m, n)
  <2> SUFFICES ASSUME NEW m \in RecordedOf(run, st)[n]
               PROVE  Delivers(m, n)
    OBVIOUS
  <2>1. m \in Materials(n, st.pulls[n]) /\ st.decided[m].kind \in {"new", "reproduction"}
    BY DEF RecordedOf, Recorded
  <2>2. m \in DOMAIN st.decided
    BY <1>6, <2>1
  <2>3. AgreedOn(q, m)
    BY <1>1, <1>3, <2>2 DEF CoreTrue, Agreed, UnderWay
  <2>4. AgreedIn(run, st, m)
    BY <1>2, <1>3, <2>3 DEF AgreedOn
  <2>5. CASE st.decided[m].kind = "new"
    <3> DEFINE d == st.decided[m]
    <3>1. d.from \in run /\ AllBring(run, st, m, Content(d.from, st.pulls[d.from], m))
      BY <1>4, <2>4, <2>5 DEF AgreedIn
    <3>2. d.from # NoPr
      BY <1>1, <3>1, AcceptAssumption
    <3>3. m \in News(st)
      BY <2>2, <3>2 DEF News
    <3>4. main[m] = Content(d.from, st.pulls[d.from], m)
      BY <3>3, LaterIs
    <3>5. Content(n, st.pulls[n], m) = main[m]
      BY <1>4, <2>1, <3>1, <3>4 DEF AllBring
    <3> QED  BY <1>1, <1>7, <2>1, <3>3, <3>5
  <2>6. CASE st.decided[m].kind = "reproduction"
    <3>1. m \in DOMAIN manifest /\ AllBring(run, st, m, manifest[m])
      BY <2>4, <2>6 DEF AgreedIn
    <3>2. Content(n, st.pulls[n], m) = manifest[m]
      BY <1>4, <2>1, <3>1 DEF AllBring
    <3>3. manifest[m] = main[m]
      BY <3>1 DEF IInv, PublicTrue
    <3> QED  BY <1>7, <2>1, <3>1, <3>2, <3>3
  <2> QED  BY <2>1, <2>5, <2>6
<1> QED  BY <1>8, <1>9

(* Crediting a run credits nobody else. *)
LEMMA CreditIs ==
  ASSUME NEW reg, NEW prs, NEW who, NEW published, NEW recorded, TrueReg(reg),
         \A n \in prs : \A m \in published[n] : Delivers(m, n),
         \A n \in prs : \A m \in recorded[n] : Delivers(m, n),
         NoPr \notin prs, \A m \in Unknown(reg, prs, published, recorded) : Own(m)
  PROVE  TrueReg(Credit(reg, prs, who, published, recorded))
<1> DEFINE c == Credit(reg, prs, who, published, recorded)
           theirs == Unknown(reg, prs, published, recorded)
<1>1. /\ c.from \subseteq reg.from \cup FilesOf(prs, published) \cup theirs \X {NoPr}
      /\ c.by = reg.by \cup CreditsOf(prs, who, recorded) \cup {<<m, Maintainer, NoPr>> : m \in theirs}
  BY DEF Credit
<1>2. \A f \in FilesOf(prs, published) : Delivers(f[1], f[2])
  BY DEF FilesOf
<1>3. \A g \in CreditsOf(prs, who, recorded) : Delivers(g[1], g[3])
  BY DEF CreditsOf
<1>4. \A m : Delivers(m, NoPr)
  BY DEF Delivers
<1>7. \A g \in CreditsOf(prs, who, recorded) : g[3] # NoPr
  BY DEF CreditsOf
<1> HIDE DEF c, theirs
<1>5. \A f \in c.from : Delivers(f[1], f[2])
  BY <1>1, <1>2, <1>4 DEF TrueReg
<1>6. \A g \in c.by : Delivers(g[1], g[3])
  BY <1>1, <1>3, <1>4 DEF TrueReg
<1>8. OwnReg(c)
  BY <1>1, <1>7 DEF TrueReg, OwnReg, theirs
<1> QED  BY <1>5, <1>6, <1>8 DEF TrueReg, c

(* What a run takes for the maintainer's own is not what it publishes, nor another run. *)
LEMMA TakenForOwn ==
  ASSUME IInv, OneRun, KnownAre, FilesTrue, StepTrue, proc.at \in Later,
         NEW n \in run, NEW m \in RecordedOf(run, st)[n],
         \A k \in run : m \notin PubOf(st, k), m \notin Tables(registry)
  PROVE  Own(m)
<1>1. /\ run \in Runs /\ st # NoFile /\ FileIs(world, verified, run, st) /\ "merge" \in st.done
      /\ proc.at # "idle"
  BY LaterIs DEF Later
<1>2. PICK q \in Runs : q = run
  BY <1>1
<1>3. CoreTrue(q) /\ StageOf(q) /\ files[q] = st
  BY <1>1, <1>2 DEF FilesTrue, st
<1>4. st.pulls = st.heads.pulls /\ DOMAIN st.decided = Brought(world, st.pulls)
  BY <1>1, <1>3 DEF StageOf
<1>5. m \in Materials(n, st.pulls[n]) /\ st.decided[m].kind \in {"new", "reproduction"}
  BY DEF RecordedOf, Recorded
<1>6. m \in DOMAIN st.decided
  BY <1>1, <1>4, <1>5 DEF FileIs, Brought, Materials, Delivery
<1>7. AgreedIn(run, st, m)
  <2>1. AgreedOn(q, m)
    BY <1>1, <1>3, <1>6 DEF CoreTrue, Agreed, UnderWay
  <2> QED  BY <1>2, <1>3, <2>1 DEF AgreedOn
<1>8. st.decided[m].kind # "new"
  <2> SUFFICES ASSUME st.decided[m].kind = "new"
               PROVE  FALSE
    OBVIOUS
  <2> DEFINE k == st.decided[m].from
  <2>1. k \in run /\ m \in Materials(k, st.pulls[k])
    BY <1>4, <1>7 DEF AgreedIn
  <2> QED  BY <2>1 DEF PubOf, Pub
<1>9. st.decided[m].from = NoPr /\ m \in DOMAIN manifest
  BY <1>5, <1>7, <1>8 DEF AgreedIn
<1>10. m \in DOMAIN main
  BY <1>9 DEF IInv, PublicTrue
<1>11. ASSUME NEW r \in Runs, UnderWay(r)
       PROVE  m \notin News(files[r])
  <2>1. r = run
    BY <1>1, <1>11 DEF OneRun
  <2> QED  BY <1>9, <2>1 DEF News, st
<1> QED  BY <1>10, <1>11 DEF KnownAre

(* So the registry a run commits is true if origin/main's is. *)
LEMMA AfterIs ==
  ASSUME IInv, OneRun, KnownAre, FilesTrue, StepTrue, proc.at \in Later, TrueReg(registry)
  PROVE  TrueReg(After)
<1> DEFINE p == Published(run, st)  c == RecordedOf(run, st)
<1>1. \A n \in run : p[n] = PubOf(st, n)
  BY DEF Published
<1>2. \A n \in run : \A m \in p[n] : Delivers(m, n)
  BY <1>1, RunDelivers
<1>3. \A n \in run : \A m \in c[n] : Delivers(m, n)
  BY RunDelivers
<1>5. \A m \in Unknown(registry, run, p, c) : Own(m)
  <2> SUFFICES ASSUME NEW m \in Unknown(registry, run, p, c)
               PROVE  Own(m)
    OBVIOUS
  <2>1. PICK n \in run : m \in c[n]
    BY DEF Unknown
  <2>2. m \notin Tables(registry) /\ \A k \in run : m \notin p[k]
    BY DEF Unknown
  <2> QED  BY <1>1, <2>1, <2>2, TakenForOwn
<1>6. NoPr \notin run
  <2>1. run \in Runs
    BY LaterIs
  <2> QED  BY <2>1, AcceptAssumption
<1> HIDE DEF p, c
<1>4. TrueReg(Credit(registry, run, st.who, p, c))
  BY <1>2, <1>3, <1>5, <1>6, CreditIs
<1> QED  BY <1>4 DEF After, Credited2, p, c

(* And git adds nothing to two true registries. *)
LEMMA ThreeWayIs ==
  ASSUME NEW base, NEW reg, NEW other, TrueReg(reg), TrueReg(other)
  PROVE  TrueReg(ThreeWay(base, reg, other))
<1> DEFINE t == ThreeWay(base, reg, other)
<1>1. t.from \subseteq reg.from \cup other.from /\ t.by \subseteq reg.by \cup other.by
  BY DEF ThreeWay
<1> HIDE DEF t
<1> QED  BY <1>1 DEF TrueReg, OwnReg, t

\* What is true of a registry before a step is true of it after it.
TrueAfter(reg) ==
  /\ \A f \in reg.from : Delivers(f[1], f[2])'
  /\ \A g \in reg.by : Delivers(g[1], g[3])'
  /\ \A g \in reg.by : g[2] = Maintainer /\ g[3] = NoPr => Own(g[1])'

(* The registries go on crediting whoever delivered what is published. *)
LEMMA RegistriesOn ==
  ASSUME IInv, OneRun, MergedAre, KnownAre, FilesTrue, StepTrue, RegistriesAre, Next
  PROVE  RegistriesAre'
<1>1. (\A m, n : Delivers(m, n) => Delivers(m, n)') /\ (\A m : Own(m) => Own(m)')
  BY DeliversOn, OwnOn
<1>2. /\ TrueReg(registry) /\ \A b \in DOMAIN local : TrueReg(local[b].registry)
      /\ \A r \in Runs : TrueReg(docs[r].pushed.registry)
  BY DEF RegistriesAre
<1>3. TrueReg(registry')
  <2>1. CASE registry' = registry
    BY <1>2, <2>1
  <2>2. ASSUME NEW r \in Runs,
               registry' = ThreeWay(docs[r].pushed.base, registry, docs[r].pushed.registry)
        PROVE  TrueReg(registry')
    BY <1>2, <2>2, ThreeWayIs
  <2>3. CASE DocsLand
    <3>1. proc.at = "docs" /\ (Landed \/ registry' = registry)
      BY <2>3 DEF DocsLand, Lands, DocsStep
    <3>2. run \in Runs
      BY <3>1, LaterIs DEF Later
    <3> QED  BY <2>1, <2>2, <3>1, <3>2 DEF Landed
  <2>4. CASE \E r \in Runs : ResolveDocs(r)
    BY <2>2, <2>4 DEF ResolveDocs
  <2> QED  BY <2>1, <2>3, <2>4, WritersAre
<1>4. \A b \in DOMAIN local' : TrueReg(local'[b].registry)
  <2>1. CASE local' = local
    BY <1>2, <2>1
  <2>2. ASSUME NEW reg, TrueReg(reg), OnBranch(reg)
        PROVE  \A b \in DOMAIN local' : TrueReg(local'[b].registry)
    BY <1>2, <2>2 DEF OnBranch, Overwrite, AtRev
  <2>3. CASE DocsEmpty
    <3>1. OnBranch(registry)
      BY <2>3 DEF DocsEmpty
    <3> QED  BY <1>2, <2>2, <3>1
  <2>4. CASE DocsCommit
    <3>1. proc.at \in Later /\ OnBranch(After)
      BY <2>4 DEF DocsCommit, DocsStarts, DocsStep, Later
    <3>2. TrueReg(After)
      BY <1>2, <3>1, AfterIs
    <3> QED  BY <2>2, <3>1, <3>2
  <2>5. CASE DocsLand
    <3>1. local' = Only(local, DOMAIN local \ {run})
      BY <2>5 DEF DocsLand
    <3> QED  BY <1>2, <3>1 DEF Only
  <2>6. CASE Pull
    <3>1. local' = [local EXCEPT ![Main].registry = registry]
      BY <2>6 DEF Pull
    <3>2. Main \in DOMAIN local /\ local[Main] = [f \in BranchFields |-> local[Main][f]]
      BY DEF IInv, Branches, Keeps
    <3>3. DOMAIN local' = DOMAIN local /\ local'[Main].registry = registry
          /\ \A b \in DOMAIN local \ {Main} : local'[b] = local[b]
      BY <3>1, <3>2 DEF BranchFields
    <3> QED  BY <1>2, <3>3
  <2> QED  BY <2>1, <2>3, <2>4, <2>5, <2>6, WritersAre
<1>5. \A r \in Runs : TrueReg(docs'[r].pushed.registry)
  <2>1. ASSUME \A r \in Runs : docs'[r].pushed = docs[r].pushed
        PROVE  \A r \in Runs : TrueReg(docs'[r].pushed.registry)
    BY <1>2, <2>1
  <2>2. ASSUME NEW r \in Runs, NEW x, docs' = [docs EXCEPT ![r].status = x]
        PROVE  \A q \in Runs : docs'[q].pushed = docs[q].pushed
    BY <2>2 DEF IInv, DocsAre
  <2>3. proc.at \in {"credits"} \cup Later => run \in Runs
    BY LaterIs
  <2>4. CASE DocsPush
    <3>1. /\ proc.at = "docs" /\ st.sub = {"committed"}
          /\ docs' = [docs EXCEPT ![run].pushed = local[run]]
      BY <2>4 DEF DocsPush, DocsStep
    <3>2. run \in Runs /\ st # NoFile
      BY <3>1, LaterIs DEF Later
    <3>3. run \in DOMAIN local
      BY <3>1, <3>2 DEF IInv, Pushable, st
    <3>4. \A r \in Runs : docs'[r].pushed = IF r = run THEN local[run] ELSE docs[r].pushed
      BY <3>1, <3>2 DEF IInv, DocsAre
    <3> QED  BY <1>2, <3>3, <3>4
  <2>5. CASE DocsOpen \/ DocsLand \/ DocsConflict
    <3>1. proc.at \in Later /\ (docs' = docs \/ \E x : docs' = [docs EXCEPT ![run].status = x])
      BY <2>5 DEF DocsOpen, DocsLand, DocsConflict, Lands, DocsStep, Later
    <3> QED  BY <2>1, <2>2, <2>3, <3>1
  <2>6. CASE \E r \in Runs : ResolveDocs(r) \/ CloseDocs(r)
    <3>1. PICK r \in Runs : \E x : docs' = [docs EXCEPT ![r].status = x]
      BY <2>6 DEF ResolveDocs, CloseDocs
    <3> QED  BY <2>1, <2>2, <3>1
  <2> QED  BY <2>1, <2>4, <2>5, <2>6, WritersAre
<1>6. /\ TrueAfter(registry') /\ \A b \in DOMAIN local' : TrueAfter(local'[b].registry)
      /\ \A r \in Runs : TrueAfter(docs'[r].pushed.registry)
  BY <1>1, <1>3, <1>4, <1>5 DEF TrueReg, OwnReg, TrueAfter
<1> QED  BY <1>6 DEF RegistriesAre, TrueReg, OwnReg, TrueAfter

-----------------------------------------------------------------------------
\* The docs of a run: whatever it publishes gets credited.

(* A run that is not under way has no docs. *)
LEMMA NoDocsYet ==
  ASSUME IInv, FilesTrue, NEW r \in Runs, files[r] # NoFile, ~ UnderWay(r)
  PROVE  News(files[r]) = {} /\ files[r].sub = {} /\ files[r].docsPr # TRUE
<1>1. "manifest" \notin files[r].done
  BY ManifestUnderWay
<1>2. files[r].sub = {}
  BY <1>1 DEF FilesTrue, StageOf
<1>3. FileIs(world, verified, r, files[r])
  BY DEF IInv, FilesAre
<1> QED  BY <1>2, <1>3 DEF UnderWay, News, FileIs, InOrder

(* A step that is another run's leaves the docs of a run that is not under way. *)
LEMMA OtherDocs ==
  ASSUME IInv, FilesTrue, DocsTrue, NEW r \in Runs, ~ UnderWay(r), files'[r] = files[r],
         docs'[r] = docs[r]
  PROVE  /\ files'[r] # NoFile => DocsOf(r, files[r])'
         /\ docs'[r].status # "open"
<1>1. docs[r].status # "open"
  BY DEF DocsTrue
<1>2. ASSUME files[r] # NoFile
      PROVE  DocsOf(r, files[r])'
  <2>1. News(files'[r]) = {} /\ files'[r].sub = {} /\ files'[r].docsPr # TRUE
    BY <1>2, NoDocsYet
  <2> QED  BY <1>1, <2>1 DEF DocsOf
<1> QED  BY <1>1, <1>2

(* The docs of a run while nothing of them is written. *)
LEMMA DocsStay ==
  ASSUME NEW r \in Runs, files[r] # NoFile, DocsOf(r, files[r]), registry' = registry,
         docs'[r] = docs[r], files[r].sub = {"committed"} => local'[r] = local[r],
         files'[r].decided = files[r].decided, files'[r].sub = files[r].sub,
         files'[r].docsPr = files[r].docsPr,
         files'[r].done \subseteq files[r].done \cup {"merge", "manifest", "local", "card"}
  PROVE  DocsOf(r, files[r])'
<1>1. News(files'[r]) = News(files[r])
  BY DEF News
<1>2. Tables(registry)' = Tables(registry)
  BY DEF Tables
<1> QED  BY <1>1, <1>2 DEF DocsOf, Adds

(* So they stay while no file, no docs PR and no registry but the maintainer's is written, *)
LEMMA DocsUntouched ==
  ASSUME IInv, DocsTrue, UNCHANGED <<files, docs, registry>>, local' = local \/ Pull
  PROVE  DocsTrue'
<1>1. ASSUME NEW r \in Runs, files[r] # NoFile, files[r].sub = {"committed"}
      PROVE  local'[r] = local[r]
  <2>1. r # Main
    BY AcceptAssumption DEF Main
  <2>2. r \in DOMAIN local
    BY <1>1 DEF IInv, Pushable
  <2> QED  BY <2>1, <2>2 DEF Pull
<1>2. ASSUME NEW r \in Runs, files[r] # NoFile
      PROVE  DocsOf(r, files[r])'
  <2>1. files'[r] = files[r] /\ docs'[r] = docs[r] /\ DocsOf(r, files[r])
    BY <1>2 DEF DocsTrue
  <2> QED  BY <1>1, <1>2, <2>1, DocsStay
<1>3. \A r \in Runs : docs'[r].status = "open" => UnderWay(r)' /\ "pushed" \in files'[r].sub
  BY DEF DocsTrue, UnderWay
<1> QED  BY <1>2, <1>3 DEF DocsTrue

(* and while a run records something else. *)
LEMMA DocsSaved ==
  ASSUME IInv, FilesTrue, DocsTrue, UNCHANGED <<docs, registry, local>>, run \in Runs, st # NoFile, Next,
         NEW s, files' = files \/ Record(s), s.decided = st.decided, s.sub = st.sub, s.docsPr = st.docsPr,
         s.done \subseteq st.done \cup {"merge", "manifest", "local", "card"},
         ~ NothingToRecord, ~ CloseClaims
  PROVE  DocsTrue'
<1>1. CASE files' = files
  BY <1>1, DocsUntouched
<1>2. CASE Record(s)
  <2>1. files'[run] = s /\ \A r \in Runs \ {run} : files'[r] = files[r]
    BY <1>2 DEF Record, IInv, FilesAre
  <2>2. \A r \in Runs : files[r] # NoFile => files'[r] # NoFile
    BY Forgotten
  <2>3. \A r \in Runs : r = run => files[r] = st
    BY DEF st
  <2>4. ASSUME NEW r \in Runs, files[r] # NoFile
        PROVE  DocsOf(r, files[r])'
    <3>1. DocsOf(r, files[r]) /\ docs'[r] = docs[r] /\ local'[r] = local[r]
      BY <2>4 DEF DocsTrue
    <3>2. /\ files'[r].decided = files[r].decided /\ files'[r].sub = files[r].sub
          /\ files'[r].docsPr = files[r].docsPr
          /\ files'[r].done \subseteq files[r].done \cup {"merge", "manifest", "local", "card"}
      BY <2>1, <2>3
    <3> QED  BY <2>4, <3>1, <3>2, DocsStay
  <2>5. ASSUME NEW r \in Runs, docs[r].status = "open"
        PROVE  UnderWay(r)' /\ "pushed" \in files'[r].sub
    <3>1. UnderWay(r) /\ "pushed" \in files[r].sub
      BY <2>5 DEF DocsTrue
    <3>2. files'[r].decided = files[r].decided /\ files'[r].sub = files[r].sub
      BY <2>1, <2>3
    <3> QED  BY <2>2, <3>1, <3>2 DEF UnderWay
  <2>6. \A r \in Runs : files'[r] # NoFile => files[r] # NoFile
    BY <2>1, <2>3
  <2> QED  BY <2>4, <2>5, <2>6 DEF DocsTrue
<1> QED  BY <1>1, <1>2

(* The branch a docs PR is of adds what it credits to the registry. *)
LEMMA AddsAll ==
  ASSUME NEW s, NEW b, Adds(b, s), registry' = ThreeWay(b.base, registry, b.registry)
  PROVE  registry'.from = b.registry.from /\ Tables(registry) \cup News(s) \subseteq Tables(registry')
<1>1. registry'.from = (registry.from \ (b.base.from \ b.registry.from)) \cup (b.registry.from \ b.base.from)
  BY DEF ThreeWay
<1>2. registry'.from = b.registry.from
  BY <1>1 DEF Adds
<1>3. Tables(registry') = Tables(b.registry)
  BY <1>2 DEF Tables
<1> QED  BY <1>2, <1>3 DEF Adds

(* A docs PR that is open is of the run that is under way. *)
LEMMA OpenAdds ==
  ASSUME DocsTrue, NEW r \in Runs, docs[r].status = "open"
  PROVE  UnderWay(r) /\ "pushed" \in files[r].sub /\ Adds(docs[r].pushed, files[r])
<1>1. UnderWay(r) /\ "pushed" \in files[r].sub
  BY DEF DocsTrue
<1>2. DocsOf(r, files[r])
  BY <1>1 DEF DocsTrue, UnderWay
<1> QED  BY <1>1, <1>2 DEF DocsOf

(* Somebody merges a docs PR. *)
LEMMA ResolveIs ==
  ASSUME IInv, OneRun, FilesTrue, DocsTrue, NEW r \in Runs, docs[r].status = "open",
         registry' = ThreeWay(docs[r].pushed.base, registry, docs[r].pushed.registry),
         docs' = [docs EXCEPT ![r].status = "merged"], files' = files
  PROVE  DocsTrue'
<1>1. UnderWay(r) /\ "pushed" \in files[r].sub /\ Adds(docs[r].pushed, files[r])
  BY OpenAdds
<1>2. registry'.from = docs[r].pushed.registry.from
      /\ Tables(registry) \cup News(files[r]) \subseteq Tables(registry')
  BY <1>1, AddsAll
<1>3. /\ docs'[r].status = "merged" /\ docs'[r].pushed = docs[r].pushed
      /\ \A q \in Runs \ {r} : docs'[q] = docs[q]
  BY DEF IInv, DocsAre
<1>4. \A q \in Runs \ {r} : ~ UnderWay(q)
  BY <1>1 DEF OneRun
<1>5. Tables(registry') = Tables(docs'[r].pushed.registry)
  BY <1>2, <1>3 DEF Tables
<1>6. DocsOf(r, files[r])'
  <2>1. Tables(registry)' = Tables(registry') /\ News(files[r])' = News(files[r])
    BY DEF Tables, News
  <2>2. Adds(docs[r].pushed, files[r])'
    BY <1>2, <1>3, <1>5, <2>1 DEF Adds
  <2> QED  BY <1>1, <1>2, <1>3, <2>1, <2>2 DEF DocsOf
<1>7. ASSUME NEW q \in Runs \ {r}
      PROVE  (files'[q] # NoFile => DocsOf(q, files[q])') /\ docs'[q].status # "open"
  BY <1>3, <1>4, OtherDocs
<1> QED  BY <1>3, <1>6, <1>7 DEF DocsTrue

(* A step of the run leaves the others' docs. *)
LEMMA DocsOfRun ==
  ASSUME IInv, OneRun, FilesTrue, DocsTrue, proc.at # "idle",
         \A q \in Runs \ {run} : files'[q] = files[q] /\ docs'[q] = docs[q],
         \A r \in Runs : r = run => /\ files'[r] # NoFile => DocsOf(r, files[r])'
                                    /\ docs'[r].status = "open" => UnderWay(r)' /\ "pushed" \in files'[r].sub
  PROVE  DocsTrue'
<1>1. ASSUME NEW q \in Runs \ {run}
      PROVE  (files'[q] # NoFile => DocsOf(q, files[q])') /\ docs'[q].status # "open"
  <2>1. ~ UnderWay(q)
    BY DEF OneRun
  <2> QED  BY <2>1, OtherDocs
<1> QED  BY <1>1 DEF DocsTrue

(* Where the run of a docs step stands. *)
LEMMA AtDocs ==
  ASSUME IInv, FilesTrue, StepTrue, DocsTrue, proc.at = "docs"
  PROVE  /\ run \in Runs /\ st # NoFile /\ FileIs(world, verified, run, st) /\ st = [f \in FileFields |-> st[f]]
         /\ DOMAIN st.decided # {} /\ InOrder(st.docsPr, st.sub)
         /\ \A r \in Runs : r = run => files[r] = st /\ UnderWay(r) /\ DocsOf(r, st)
         /\ docs[run].status = "open" => "pushed" \in st.sub
         /\ \A s : Record(s) => files'[run] = s /\ \A q \in Runs \ {run} : files'[q] = files[q]
<1>1. run \in Runs /\ st # NoFile /\ FileIs(world, verified, run, st) /\ DOMAIN st.decided # {}
  BY LaterIs, LaterUnderWay DEF Later
<1>2. st = [f \in FileFields |-> st[f]] /\ InOrder(st.docsPr, st.sub)
  BY <1>1 DEF FileIs
<1>3. \A r \in Runs : r = run => files[r] = st /\ UnderWay(r) /\ DocsOf(r, st)
  BY <1>1 DEF UnderWay, st, DocsTrue
<1>4. docs[run].status = "open" => "pushed" \in st.sub
  BY <1>1 DEF DocsTrue, st
<1>5. \A s : Record(s) => files'[run] = s /\ \A q \in Runs \ {run} : files'[q] = files[q]
  BY <1>1 DEF Record, IInv, FilesAre
<1> QED  BY <1>1, <1>2, <1>3, <1>4, <1>5

(* What a run credits it adds to the registry. *)
LEMMA AfterAdds ==
  ASSUME IInv, FilesTrue, StepTrue, proc.at \in Later
  PROVE  Tables(registry) \cup News(st) \subseteq Tables(After)
<1> DEFINE p == Published(run, st)
           files0 == FilesOf(run, p)
           from0 == {f \in registry.from : \A g \in files0 : f[1] # g[1]}
<1>1. from0 \cup files0 \subseteq After.from
  BY DEF After, Credited2, Credit
<1>2. ASSUME NEW m \in Tables(registry)
      PROVE  m \in Tables(After)
  <2>1. PICK f \in registry.from : f[1] = m
    BY DEF Tables
  <2>2. f \in from0 \/ \E g \in files0 : g[1] = m
    BY <2>1
  <2> HIDE DEF from0, files0
  <2> QED  BY <1>1, <2>1, <2>2 DEF Tables
<1>3. ASSUME NEW m \in News(st)
      PROVE  m \in Tables(After)
  <2> DEFINE n == st.decided[m].from
  <2>1. n \in run /\ m \in Materials(n, st.pulls[n])
    BY LaterIs
  <2>2. m \in p[n]
    BY <2>1 DEF Published, PubOf, Pub
  <2> HIDE DEF p, n
  <2>3. <<m, n>> \in files0
    BY <2>1, <2>2 DEF FilesOf
  <2> HIDE DEF files0, from0
  <2> QED  BY <1>1, <2>3 DEF Tables
<1> QED  BY <1>2, <1>3

(* A run that has nothing to publish and nothing to credit. *)
LEMMA DocsEmptyOn ==
  ASSUME IInv, OneRun, FilesTrue, StepTrue, DocsTrue, DocsEmpty
  PROVE  DocsTrue'
<1>1. proc.at = "docs" /\ "committed" \notin st.sub /\ UNCHANGED <<registry, docs>>
  BY DEF DocsEmpty, DocsStarts, DocsStep, github
<1>2. /\ run \in Runs /\ st # NoFile /\ InOrder(st.docsPr, st.sub) /\ st = [f \in FileFields |-> st[f]]
      /\ \A r \in Runs : r = run => files[r] = st /\ UnderWay(r) /\ DocsOf(r, st)
      /\ docs[run].status = "open" => "pushed" \in st.sub
      /\ \A s : Record(s) => files'[run] = s /\ \A q \in Runs \ {run} : files'[q] = files[q]
  BY <1>1, AtDocs
<1>3. News(st) = {}
  <2> SUFFICES ASSUME NEW m \in News(st)
               PROVE  FALSE
    OBVIOUS
  <2> DEFINE n == st.decided[m].from
  <2>1. n \in run /\ m \in Materials(n, st.pulls[n])
    BY <1>1, LaterIs DEF Later
  <2>2. m \in PublishedNow[n]
    BY <2>1 DEF PublishedNow, Published, PubOf, Pub
  <2>3. \A k \in run : PublishedNow[k] = {}
    BY DEF DocsEmpty, HasLines
  <2> QED  BY <2>1, <2>2, <2>3
<1> DEFINE t == Started(st)
           e == [t EXCEPT !.empty = TRUE]
           d == Done(e, "docs")
<1>4. Record(d) \/ files' = files
  BY DEF DocsEmpty, Save, SaveThen
<1>5. SamePlan(st, t) /\ t.sub = st.sub /\ t.docsPr = st.docsPr /\ t = [f \in FileFields |-> t[f]]
  BY <1>2, StartedRecord
<1> HIDE DEF t
<1>6. SamePlan(t, e) /\ SameDocs(t, e) /\ e = [f \in FileFields |-> e[f]]
  BY <1>5, EmptyRecord
<1> HIDE DEF e
<1>7. SamePlan(e, d) /\ SameDocs(e, d)
  BY <1>6, DoneRecord
<1> HIDE DEF d
<1>8. News(d) = {} /\ d.sub = st.sub /\ d.docsPr = st.docsPr
  BY <1>3, <1>5, <1>6, <1>7 DEF SamePlan, SameDocs, News
<1>9. "pushed" \notin st.sub /\ st.docsPr # TRUE /\ docs[run].status # "open"
  BY <1>1, <1>2 DEF InOrder
<1>10. \A q \in Runs \ {run} : files'[q] = files[q] /\ docs'[q] = docs[q]
  BY <1>1, <1>2, <1>4
<1>11. ASSUME NEW r \in Runs, r = run
       PROVE  DocsOf(r, files[r])' /\ docs'[r].status # "open"
  <2>1. News(files'[r]) = {} /\ files'[r].sub = st.sub /\ files'[r].docsPr = st.docsPr
    BY <1>2, <1>3, <1>4, <1>8, <1>11
  <2>2. docs'[r].status # "open"
    BY <1>1, <1>9, <1>11
  <2> QED  BY <1>1, <1>9, <2>1, <2>2 DEF DocsOf
<1> QED  BY <1>1, <1>10, <1>11, DocsOfRun

(* A commit of the docs. *)
LEMMA DocsCommitOn ==
  ASSUME IInv, OneRun, FilesTrue, StepTrue, DocsTrue, DocsCommit
  PROVE  DocsTrue'
<1>1. /\ proc.at = "docs" /\ "committed" \notin st.sub /\ UNCHANGED <<registry, docs>> /\ OnBranch(After)
      /\ "docs" \notin st.done
  BY DEF DocsCommit, DocsStarts, DocsStep, github
<1>2. /\ run \in Runs /\ st # NoFile /\ InOrder(st.docsPr, st.sub) /\ st = [f \in FileFields |-> st[f]]
      /\ \A r \in Runs : r = run => files[r] = st /\ UnderWay(r) /\ DocsOf(r, st)
      /\ docs[run].status = "open" => "pushed" \in st.sub
      /\ \A s : Record(s) => files'[run] = s /\ \A q \in Runs \ {run} : files'[q] = files[q]
  BY <1>1, AtDocs
<1> DEFINE t == Started(st)
           u == [t EXCEPT !.sub = {"committed"}]
<1>3. Record(t) \/ Record(u)
  BY DEF DocsCommit
<1>4. /\ SamePlan(st, t) /\ t.sub = st.sub /\ t.docsPr = st.docsPr /\ t.done = st.done
      /\ t = [f \in FileFields |-> t[f]]
  BY <1>2, StartedRecord
<1> HIDE DEF t
<1>5. SamePlan(t, u) /\ u.sub = {"committed"} /\ u.docsPr = t.docsPr /\ u.done = t.done
  BY <1>4, SubRecord
<1> HIDE DEF u
<1>6. "pushed" \notin st.sub /\ st.docsPr # TRUE /\ docs[run].status # "open"
  BY <1>1, <1>2 DEF InOrder
<1>7. News(t) = News(st) /\ News(u) = News(st)
  BY <1>4, <1>5 DEF SamePlan, News
<1>8. local'[run] = AtRev(After, registry, rev)
  BY <1>1 DEF OnBranch, Overwrite
<1>9. Tables(registry) \cup News(st) \subseteq Tables(After)
  BY <1>1, AfterAdds DEF Later
<1>10. \A q \in Runs \ {run} : files'[q] = files[q] /\ docs'[q] = docs[q]
  BY <1>1, <1>2, <1>3
<1>11. ASSUME NEW r \in Runs, r = run
       PROVE  DocsOf(r, files[r])' /\ docs'[r].status # "open"
  <2>0. files'[r] = t \/ files'[r] = u
    BY <1>2, <1>3, <1>11
  <2>1. /\ News(files'[r]) = News(st) /\ files'[r].docsPr # TRUE /\ "docs" \notin files'[r].done
        /\ "pushed" \notin files'[r].sub
    <3>1. News(files'[r]) = News(st)
      BY <1>7, <2>0
    <3>2. files'[r].docsPr # TRUE /\ "docs" \notin files'[r].done
      BY <1>1, <1>4, <1>5, <1>6, <2>0
    <3>3. "pushed" \notin files'[r].sub
      BY <1>4, <1>5, <1>6, <2>0
    <3> QED  BY <3>1, <3>2, <3>3
  <2>2. docs'[r].status # "open"
    BY <1>1, <1>6, <1>11
  <2>3. Adds(local[r], files[r])'
    <3>1. local'[r].base = registry /\ local'[r].registry = After
      BY <1>8, <1>11 DEF AtRev
    <3>2. Tables(local[r].registry)' = Tables(After) /\ Tables(registry)' = Tables(registry)
      BY <1>1, <3>1 DEF Tables
    <3>3. News(files[r])' = News(st)
      BY <2>1 DEF News
    <3> QED  BY <1>1, <1>9, <3>1, <3>2, <3>3 DEF Adds
  <2> QED  BY <2>1, <2>2, <2>3 DEF DocsOf
<1> QED  BY <1>1, <1>10, <1>11, DocsOfRun

(* The push, and the docs PR. *)
LEMMA DocsPushOn ==
  ASSUME IInv, OneRun, FilesTrue, StepTrue, DocsTrue, DocsPush
  PROVE  DocsTrue'
<1>1. /\ proc.at = "docs" /\ st.sub = {"committed"} /\ ~ st.docsPr /\ UNCHANGED <<registry, local>>
      /\ "docs" \notin st.done /\ docs' = [docs EXCEPT ![run].pushed = local[run]]
  BY DEF DocsPush, DocsStep, checkout
<1>2. /\ run \in Runs /\ st # NoFile /\ st = [f \in FileFields |-> st[f]]
      /\ \A r \in Runs : r = run => files[r] = st /\ UnderWay(r) /\ DocsOf(r, st)
      /\ docs[run].status = "open" => "pushed" \in st.sub
      /\ \A s : Record(s) => files'[run] = s /\ \A q \in Runs \ {run} : files'[q] = files[q]
  BY <1>1, AtDocs
<1> DEFINE x == st.sub \cup {"pushed"}
           t == [st EXCEPT !.sub = x]
<1>3. Record(t) \/ files' = files
  BY DEF DocsPush, Save, SaveThen
<1>4. x = {"committed", "pushed"}
  BY <1>1
<1> HIDE DEF x
<1>5. SamePlan(st, t) /\ t.sub = x /\ t.docsPr = st.docsPr /\ t.done = st.done
  BY <1>2, SubRecord
<1> HIDE DEF t
<1>6. /\ docs'[run].pushed = local[run] /\ docs'[run].status = docs[run].status
      /\ \A q \in Runs \ {run} : docs'[q] = docs[q]
  BY <1>1, <1>2 DEF IInv, DocsAre
<1>7. \A q \in Runs \ {run} : files'[q] = files[q] /\ docs'[q] = docs[q]
  BY <1>2, <1>3, <1>6
<1>8. ASSUME NEW r \in Runs, r = run
      PROVE  DocsOf(r, files[r])' /\ docs'[r].status # "open"
  <2>1. files'[r] = t \/ files'[r] = st
    BY <1>2, <1>3, <1>8
  <2>2. News(files'[r]) = News(st)
    BY <1>5, <2>1 DEF SamePlan, News
  <2>3. docs'[r].status # "open" /\ docs'[r].pushed = local[r] /\ local'[r] = local[r]
    BY <1>1, <1>2, <1>6, <1>8
  <2>4. Adds(local[r], st)
    BY <1>1, <1>2, <1>8 DEF DocsOf
  <2>5. Adds(local[r], files[r])' /\ Adds(docs[r].pushed, files[r])'
    <3>1. Tables(registry)' = Tables(registry) /\ News(files[r])' = News(st)
      BY <1>1, <2>2 DEF Tables, News
    <3>2. Tables(local[r].registry)' = Tables(local[r].registry)
          /\ Tables(docs[r].pushed.registry)' = Tables(local[r].registry)
      BY <2>3 DEF Tables
    <3> QED  BY <1>1, <2>3, <2>4, <3>1, <3>2 DEF Adds
  <2>6. ~ files'[r].docsPr /\ "docs" \notin files'[r].done
    BY <1>1, <1>5, <2>1
  <2> QED  BY <2>3, <2>5, <2>6 DEF DocsOf
<1> QED  BY <1>1, <1>7, <1>8, DocsOfRun

(* The docs PR of a pushed branch is opened: what it would merge is what was pushed. *)
LEMMA DocsOpenOn ==
  ASSUME IInv, OneRun, FilesTrue, StepTrue, DocsTrue, DocsOpen
  PROVE  DocsTrue'
<1>1. /\ proc.at = "docs" /\ "pushed" \in st.sub /\ ~ st.docsPr /\ UNCHANGED <<registry, local>>
      /\ "docs" \notin st.done /\ docs' = [docs EXCEPT ![run].status = "open"]
  BY DEF DocsOpen, DocsStep, checkout
<1>2. /\ run \in Runs /\ st # NoFile /\ FileIs(world, verified, run, st) /\ st = [f \in FileFields |-> st[f]]
      /\ DOMAIN st.decided # {}
      /\ \A r \in Runs : r = run => files[r] = st /\ UnderWay(r) /\ DocsOf(r, st)
      /\ \A s : Record(s) => files'[run] = s /\ \A q \in Runs \ {run} : files'[q] = files[q]
  BY <1>1, AtDocs
<1> DEFINE t == [st EXCEPT !.docsPr = TRUE]
<1>3. Record(t) \/ files' = files
  BY DEF DocsOpen, Save, SaveThen
<1>4. SamePlan(st, t) /\ t.sub = st.sub /\ t.done = st.done
  BY <1>2, OpenRecord
<1>5. t # NoFile
  BY <1>1, <1>2, OpenedIs, FileIsSome DEF FileIs
<1> HIDE DEF t
<1>6. /\ docs'[run].status = "open" /\ docs'[run].pushed = docs[run].pushed
      /\ \A q \in Runs \ {run} : docs'[q] = docs[q]
  BY <1>1, <1>2 DEF IInv, DocsAre
<1>7. \A q \in Runs \ {run} : files'[q] = files[q] /\ docs'[q] = docs[q]
  BY <1>2, <1>3, <1>6
<1>8. ASSUME NEW r \in Runs, r = run
      PROVE  DocsOf(r, files[r])' /\ UnderWay(r)' /\ "pushed" \in files'[r].sub
  <2>1. files'[r] = t \/ files'[r] = st
    BY <1>2, <1>3, <1>8
  <2>2. News(files'[r]) = News(st) /\ DOMAIN files'[r].decided # {} /\ files'[r] # NoFile
    BY <1>2, <1>4, <1>5, <2>1 DEF SamePlan, News
  <2>3. "docs" \notin files'[r].done /\ files'[r].sub = st.sub
    BY <1>1, <1>4, <2>1
  <2>4. Adds(docs[r].pushed, st)
    BY <1>1, <1>2, <1>8 DEF DocsOf
  <2>5. Adds(docs[r].pushed, files[r])'
    <3>1. Tables(registry)' = Tables(registry) /\ News(files[r])' = News(st)
      BY <1>1, <2>2 DEF Tables, News
    <3>2. docs'[r].pushed = docs[r].pushed
      BY <1>6, <1>8
    <3>3. Tables(docs[r].pushed.registry)' = Tables(docs[r].pushed.registry)
      BY <3>2 DEF Tables
    <3> QED  BY <1>1, <2>4, <3>1, <3>2, <3>3 DEF Adds
  <2>6. docs'[r].status = "open"
    BY <1>6, <1>8
  <2>7. files'[r].sub # {"committed"}
    BY <1>1, <2>3
  <2> QED  BY <1>1, <2>2, <2>3, <2>5, <2>6, <2>7 DEF DocsOf, UnderWay
<1> QED  BY <1>1, <1>7, <1>8, DocsOfRun

(* The docs PR is merged, by the run or before it came to it. *)
LEMMA DocsLandOn ==
  ASSUME IInv, OneRun, FilesTrue, StepTrue, DocsTrue, DocsLand
  PROVE  DocsTrue'
<1>1. /\ proc.at = "docs" /\ st.docsPr /\ docs[run].status \in {"open", "merged"}
      /\ docs' = [docs EXCEPT ![run].status = "merged"]
      /\ docs[run].status = "open" =>
           registry' = ThreeWay(docs[run].pushed.base, registry, docs[run].pushed.registry)
      /\ docs[run].status # "open" => registry' = registry
  BY DEF DocsLand, DocsStep, Lands, Landed
<1>2. /\ run \in Runs /\ st # NoFile /\ InOrder(st.docsPr, st.sub) /\ st = [f \in FileFields |-> st[f]]
      /\ \A r \in Runs : r = run => files[r] = st /\ UnderWay(r) /\ DocsOf(r, st)
      /\ \A s : Record(s) => files'[run] = s /\ \A q \in Runs \ {run} : files'[q] = files[q]
  BY <1>1, AtDocs
<1> DEFINE t == Done(st, "docs")
<1>3. Record(t) \/ files' = files
  BY DEF DocsLand, Save, SaveThen
<1>4. SamePlan(st, t) /\ SameDocs(st, t)
  BY <1>2, DoneRecord
<1> HIDE DEF t
<1>5. docs'[run].status = "merged" /\ \A q \in Runs \ {run} : docs'[q] = docs[q]
  BY <1>1, <1>2 DEF IInv, DocsAre
<1>6. \A q \in Runs \ {run} : files'[q] = files[q] /\ docs'[q] = docs[q]
  BY <1>2, <1>3, <1>5
<1>7. ASSUME NEW r \in Runs, r = run
      PROVE  DocsOf(r, files[r])' /\ docs'[r].status # "open"
  <2>1. files'[r] = t \/ files'[r] = st
    BY <1>2, <1>3, <1>7
  <2>2. News(files'[r]) = News(st) /\ files'[r].sub = st.sub /\ files'[r].docsPr = st.docsPr
    BY <1>4, <2>1 DEF SamePlan, SameDocs, News
  <2>3. "pushed" \in st.sub
    BY <1>1, <1>2 DEF InOrder
  <2>4. News(st) \subseteq Tables(registry')
    <3>1. CASE docs[r].status = "open"
      <4>1. Adds(docs[r].pushed, st)
        BY <1>2, <1>7, <3>1, OpenAdds
      <4> QED  BY <1>1, <1>7, <3>1, <4>1, AddsAll
    <3>2. CASE docs[r].status = "merged"
      BY <1>1, <1>2, <1>7, <3>2 DEF DocsOf
    <3> QED  BY <1>1, <1>7, <3>1, <3>2
  <2>5. News(files[r])' \subseteq Tables(registry)'
    BY <2>2, <2>4 DEF News, Tables
  <2>6. docs'[r].status = "merged"
    BY <1>5, <1>7
  <2> QED  BY <1>1, <2>2, <2>3, <2>5, <2>6 DEF DocsOf
<1> QED  BY <1>1, <1>6, <1>7, DocsOfRun

(* main moved underneath it. *)
LEMMA DocsConflictOn ==
  ASSUME IInv, OneRun, FilesTrue, StepTrue, DocsTrue, DocsConflict
  PROVE  DocsTrue'
<1>1. /\ proc.at = "docs" /\ st.docsPr /\ UNCHANGED <<registry, local>> /\ "docs" \notin st.done
  BY DEF DocsConflict, DocsStep, Lands
<1>2. CASE UNCHANGED <<docs, files>>
  BY <1>1, <1>2, DocsUntouched
<1>3. CASE ~ UNCHANGED <<docs, files>>
  <2>1. /\ run \in Runs /\ st # NoFile /\ InOrder(st.docsPr, st.sub) /\ st = [f \in FileFields |-> st[f]]
        /\ \A r \in Runs : r = run => files[r] = st
        /\ \A s : Record(s) => files'[run] = s /\ \A q \in Runs \ {run} : files'[q] = files[q]
    BY <1>1, AtDocs
  <2> DEFINE t == [st EXCEPT !.retried = TRUE, !.sub = {}, !.docsPr = FALSE]
  <2>2. docs' = [docs EXCEPT ![run].status = "closed"] /\ (Record(t) \/ files' = files)
    BY <1>3 DEF DocsConflict, Save, SaveThen
  <2>3. t.done = st.done /\ t.sub = {} /\ ~ t.docsPr
    BY <2>1, RedoneRecord
  <2> HIDE DEF t
  <2>4. docs'[run].status = "closed" /\ \A q \in Runs \ {run} : docs'[q] = docs[q]
    BY <2>1, <2>2 DEF IInv, DocsAre
  <2>5. \A q \in Runs \ {run} : files'[q] = files[q] /\ docs'[q] = docs[q]
    BY <2>1, <2>2, <2>4
  <2>6. ASSUME NEW r \in Runs, r = run
        PROVE  DocsOf(r, files[r])' /\ docs'[r].status # "open"
    <3>1. docs'[r].status = "closed"
      BY <2>4, <2>6
    <3>2. CASE files'[r] = t
      BY <1>1, <2>3, <3>1, <3>2 DEF DocsOf
    <3>3. CASE files'[r] = st
      <4>1. "pushed" \in st.sub /\ st.docsPr
        BY <1>1, <2>1 DEF InOrder
      <4> QED  BY <1>1, <3>1, <3>3, <4>1 DEF DocsOf
    <3> QED  BY <2>1, <2>2, <2>6, <3>2, <3>3
  <2> QED  BY <1>1, <2>5, <2>6, DocsOfRun
<1> QED  BY <1>2, <1>3

(* A run that has not merged yet has no docs. *)
LEMMA DocsBefore ==
  ASSUME NEW r \in Runs, files'[r] # NoFile, StageOf(r)', FilesAre', "merge" \notin files'[r].done
  PROVE  DocsOf(r, files[r])'
<1>1. files'[r].done = {} /\ files'[r].sub = {}
  BY DEF StageOf
<1>2. InOrder(files'[r].docsPr, files'[r].sub)
  BY DEF FilesAre, FileIs
<1> QED  BY <1>1, <1>2 DEF DocsOf, InOrder

(* Prepare leaves every docs PR as it is, and only prepares a run that has no docs yet. *)
LEMMA PrepareDocs ==
  ASSUME IInv, OneRun, FilesTrue, StepTrue, DocsTrue, Prepare, FilesAre', FilesTrue',
         proc'.at # "idle" => \A r \in Runs : r = run => Checked(r)'
  PROVE  DocsTrue'
<1> DEFINE p == Prior(run)
           k == Known(run, p)
           d == Decided(run, p, proc.release)
<1>1. /\ run \in Runs /\ PriorIs(world, verified, run, p) /\ Sound(run, p)
      /\ (p = st /\ st # NoFile) \/ (p = Fresh /\ st = NoFile)
  BY PriorSound DEF Prepare
<1>2. p = [f \in FileFields |-> p[f]] /\ p.done = {} /\ p.sub = {}
  BY <1>1 DEF PriorIs, Sound
<1>3. UNCHANGED <<registry, docs, local>> /\ proc.at = "prepare"
  BY DEF Prepare, github, checkout
<1>4. files' = files \/ Record(k) \/ (Record(d) /\ Goes("merge"))
  BY DEF Prepare, Save, SaveThen
<1> HIDE DEF p, d
<1>5. \A s : Record(s) => files'[run] = s /\ \A q \in Runs \ {run} : files'[q] = files[q]
  BY <1>1 DEF Record, IInv, FilesAre
<1>6. k.done = {}
  BY <1>2, KnownRecord
<1> HIDE DEF k
<1>7. Goes("merge") => proc'.at # "idle"
  BY GoesIs DEF IInv, ProcIs
<1>8. CASE files' = files
  BY <1>3, <1>8, DocsUntouched
<1>9. CASE Record(k) \/ (Record(d) /\ Goes("merge"))
  <2>1. \A q \in Runs \ {run} : files'[q] = files[q] /\ docs'[q] = docs[q]
    BY <1>3, <1>5, <1>9
  <2>2. ASSUME NEW r \in Runs, r = run
        PROVE  /\ files'[r] # NoFile => DocsOf(r, files[r])'
               /\ docs'[r].status # "open"
    <3>1. "merge" \notin files'[r].done
      BY <1>5, <1>6, <1>7, <1>9, <2>2 DEF Checked
    <3>2. docs[r].status # "open"
      <4> SUFFICES ASSUME docs[r].status = "open"
                   PROVE  FALSE
        OBVIOUS
      <4>1. UnderWay(r) /\ "pushed" \in files[r].sub
        BY DEF DocsTrue
      <4> QED  BY <1>1, <1>2, <2>2, <4>1 DEF UnderWay, st
    <3> QED  BY <1>3, <3>1, <3>2, DocsBefore DEF FilesTrue
  <2> QED  BY <1>3, <2>1, <2>2, DocsOfRun
<1> QED  BY <1>4, <1>8, <1>9

(* A run that is over has landed its docs PR, or made none. *)
LEMMA OverDocs ==
  ASSUME IInv, OneRun, FilesTrue, StepTrue, DocsTrue, NothingToRecord \/ CloseClaims
  PROVE  DocsTrue'
<1>1. proc.at \in {"credits"} \cup Later /\ UNCHANGED <<registry, docs, local>>
  BY DEF NothingToRecord, CloseClaims, Later, github, checkout
<1>2. run \in Runs /\ st # NoFile
  BY <1>1, LaterIs
<1>3. CASE files' = files
  BY <1>1, <1>3, DocsUntouched
<1>4. CASE files' = [files EXCEPT ![run] = NoFile]
  <2>1. files'[run] = NoFile /\ \A q \in Runs \ {run} : files'[q] = files[q]
    BY <1>2, <1>4 DEF IInv, FilesAre
  <2>2. ASSUME NEW r \in Runs, r = run
        PROVE  docs[r].status # "open"
    <3>1. files[r] = st /\ DocsOf(r, st) /\ StageOf(r)
      BY <1>2, <2>2 DEF DocsTrue, FilesTrue, st
    <3>2. CASE CloseClaims
      <4>1. "docs" \in st.done
        BY <3>2 DEF StepTrue, CloseClaims
      <4> QED  BY <3>1, <4>1 DEF DocsOf
    <3>3. CASE NothingToRecord
      <4>1. Nothing(run, st)
        BY <3>3 DEF NothingToRecord
      <4>2. st.sub = {}
        BY <2>2, <3>1, <4>1 DEF StageOf
      <4> QED  BY <3>1, <4>2 DEF DocsTrue
    <3> QED  BY <3>2, <3>3
  <2> QED  BY <1>1, <2>1, <2>2, DocsOfRun DEF Later
<1> QED  BY <1>3, <1>4 DEF NothingToRecord, CloseClaims, Over

(* What else a run records is not of its docs. *)
LEMMA PhaseDocs ==
  ASSUME IInv, FilesTrue, StepTrue, DocsTrue, Next, Step, ~ Prepare, ~ NothingToRecord, ~ CloseClaims,
         ~ DocsEmpty, ~ DocsCommit, ~ DocsPush, ~ DocsOpen, ~ DocsLand, ~ DocsConflict
  PROVE  DocsTrue'
<1>1. UNCHANGED <<docs, registry, local>>
  BY WritersAre DEF Step, AllMerged, CheckHead, TakeAsMerged, MergePr, MergeRefused,
     CopyPart, CopyFiles, FinishCopy, CommentPr, ClosePr, WriteManifest, MoveLocal, DocsDone, DocsDirty,
     WriteCard, TellClaim, github, checkout
<1>2. CASE files' = files
  BY <1>1, <1>2, DocsUntouched
<1>3. CASE files' # files
  <2>1. proc.at \notin {"idle", "prepare"}
    BY DEF Step, AllMerged, CheckHead, TakeAsMerged, MergePr, MergeRefused,
       CopyPart, CopyFiles, FinishCopy, CommentPr, ClosePr, WriteManifest, MoveLocal, DocsDone,
       DocsDirty, WriteCard, TellClaim, MergesNext, Does, DocsStep
  <2>2. run \in Runs /\ st # NoFile /\ st = [f \in FileFields |-> st[f]]
    BY <2>1, RunIs DEF IInv, FileIs
  <2>3. ASSUME NEW s, Record(s), SamePlan(st, s), SameDocs(st, s),
               s.done \subseteq st.done \cup {"merge", "manifest", "local", "card"}
        PROVE  DocsTrue'
    BY <1>1, <2>2, <2>3, DocsSaved DEF SamePlan, SameDocs
  <2>4. CASE AllMerged \/ WriteManifest \/ MoveLocal \/ WriteCard
    <3>1. PICK x \in {"merge", "manifest", "local", "card"} : Record(Done(st, x))
      BY <1>3, <2>4 DEF AllMerged, WriteManifest, MoveLocal, WriteCard, Save, SaveThen
    <3> DEFINE s == Done(st, x)
    <3>2. SamePlan(st, s) /\ SameDocs(st, s) /\ s.done = st.done \cup {x}
      BY <2>2, DoneRecord
    <3>3. Record(s)
      BY <3>1
    <3> HIDE DEF s
    <3> QED  BY <2>3, <3>2, <3>3
  <2>5. CASE TakeAsMerged \/ MergePr \/ FinishCopy \/ CommentPr \/ ClosePr
    <3>1. PICK n : Record(Merged(st, n))
      BY <1>3, <2>5 DEF TakeAsMerged, MergePr, FinishCopy, CommentPr, ClosePr, Save, SaveThen
    <3> DEFINE s == Merged(st, n)
    <3>2. SamePlan(st, s) /\ SameDocs(st, s) /\ s.done = st.done
      BY <2>2, MergedRecord
    <3>3. Record(s)
      BY <3>1
    <3> HIDE DEF s
    <3> QED  BY <2>3, <3>2, <3>3
  <2>6. CASE CopyFiles
    <3> DEFINE c == Overwrite(st.copied, [n \in {proc.pr} |-> ActionOf(st, n) # "copy_open"])
               s == [st EXCEPT !.copied = c]
    <3>1. Record(s)
      BY <1>3, <2>6 DEF CopyFiles, SaveThen
    <3> HIDE DEF c
    <3>2. SamePlan(st, s) /\ SameDocs(st, s) /\ s.done = st.done
      BY <2>2, CopiedRecord
    <3> HIDE DEF s
    <3> QED  BY <2>3, <3>1, <3>2
  <2>7. CASE TellClaim
    <3> DEFINE c == st.commented \cup {MinOf(ToTell)}
               s == [st EXCEPT !.commented = c]
    <3>1. Record(s)
      BY <1>3, <2>7 DEF TellClaim, Save, SaveThen
    <3> HIDE DEF c
    <3>2. SamePlan(st, s) /\ SameDocs(st, s) /\ s.done = st.done
      BY <2>2, CommentedRecord
    <3> HIDE DEF s
    <3> QED  BY <2>3, <3>1, <3>2
  <2>8. CASE CheckHead \/ MergeRefused \/ CopyPart \/ DocsDone \/ DocsDirty
    BY <1>3, <2>8 DEF CheckHead, MergeRefused, CopyPart, DocsDone, DocsDirty
  <2> QED  BY <2>4, <2>5, <2>6, <2>7, <2>8 DEF Step
<1> QED  BY <1>2, <1>3

(* A docs PR closed by hand. *)
LEMMA CloseDocsOn ==
  ASSUME IInv, DocsTrue, NEW r \in Runs, CloseDocs(r)
  PROVE  DocsTrue'
<1>1. UNCHANGED <<registry, local, files>> /\ docs' = [docs EXCEPT ![r].status = "closed"]
  BY DEF CloseDocs, checkout
<1>2. /\ docs'[r].status = "closed" /\ docs'[r].pushed = docs[r].pushed
      /\ \A q \in Runs \ {r} : docs'[q] = docs[q]
  BY <1>1 DEF IInv, DocsAre
<1>3. ASSUME NEW q \in Runs, files'[q] # NoFile
      PROVE  DocsOf(q, files[q])'
  <2>1. DocsOf(q, files[q]) /\ files'[q] = files[q]
    BY <1>1, <1>3 DEF DocsTrue
  <2>2. CASE q # r
    <3>1. docs'[q] = docs[q] /\ local'[q] = local[q] /\ registry' = registry
      BY <1>1, <1>2, <2>2
    <3> QED  BY <1>3, <2>1, <3>1, DocsStay
  <2>3. CASE q = r
    <3>1. docs'[q].status = "closed" /\ docs'[q].pushed = docs[q].pushed /\ local'[q] = local[q]
      BY <1>1, <1>2, <2>3
    <3>2. News(files[q])' = News(files[q]) /\ Tables(registry)' = Tables(registry)
      BY <1>1, <2>1 DEF News, Tables
    <3>3. Adds(docs[q].pushed, files[q])' <=> Adds(docs[q].pushed, files[q])
      BY <1>1, <3>1, <3>2 DEF Adds, Tables
    <3>4. Adds(local[q], files[q])' <=> Adds(local[q], files[q])
      BY <1>1, <3>1, <3>2 DEF Adds, Tables
    <3> QED  BY <1>1, <2>1, <3>1, <3>2, <3>3, <3>4 DEF DocsOf
  <2> QED  BY <2>2, <2>3
<1>4. \A q \in Runs : docs'[q].status = "open" => UnderWay(q)' /\ "pushed" \in files'[q].sub
  BY <1>1, <1>2 DEF DocsTrue, UnderWay
<1> QED  BY <1>3, <1>4 DEF DocsTrue

(* The docs of every run go on to add its credits. *)
LEMMA DocsTrueStays ==
  ASSUME IInv, OneRun, FilesTrue, StepTrue, DocsTrue, Next, FilesAre', FilesTrue',
         Prepare /\ proc'.at # "idle" => \A r \in Runs : r = run => Checked(r)'
  PROVE  DocsTrue'
<1>1. CASE Step
  BY <1>1, PrepareDocs, OverDocs, PhaseDocs, DocsEmptyOn, DocsCommitOn, DocsPushOn, DocsOpenOn, DocsLandOn,
     DocsConflictOn
<1>2. CASE \E r \in Runs : ResolveDocs(r)
  <2>1. PICK r \in Runs : ResolveDocs(r)
    BY <1>2
  <2>2. /\ docs[r].status = "open" /\ files' = files /\ docs' = [docs EXCEPT ![r].status = "merged"]
        /\ registry' = ThreeWay(docs[r].pushed.base, registry, docs[r].pushed.registry)
    BY <2>1 DEF ResolveDocs
  <2> QED  BY <2>2, ResolveIs
<1>3. CASE \E r \in Runs : CloseDocs(r)
  BY <1>3, CloseDocsOn
<1>4. CASE Killed \/ \E r \in Runs, release \in Releases : Start(r, release)
  BY <1>4, DocsUntouched DEF Killed, Start, github, checkout
<1>5. CASE Outside /\ ~ (\E r \in Runs : ResolveDocs(r)) /\ ~ (\E r \in Runs : CloseDocs(r))
  <2>1. UNCHANGED <<files, docs, registry>> /\ (local' = local \/ Pull)
    BY <1>5 DEF Outside, Push, Verify, MergeByHand, WithdrawClaim, PlanAccept, OtherCommit,
       Pull, PullTables, Edit, CleanUp, github, checkout
  <2> QED  BY <2>1, DocsUntouched
<1> QED  BY <1>1, <1>2, <1>3, <1>4, <1>5 DEF Next

-----------------------------------------------------------------------------
\* What is on main is known.

\* What KnownAre says of one material.
InHand(m) == \E r \in Runs : UnderWay(r) /\ m \in News(files[r])
KnownIn(m) == Own(m) \/ m \in Tables(registry) \/ InHand(m)

(* The registry forgets no table: a docs PR is merged into it with what is there. *)
LEMMA TablesGrow ==
  ASSUME IInv, FilesTrue, StepTrue, DocsTrue, Next, NEW m \in Tables(registry)
  PROVE  m \in Tables(registry')
<1>1. ASSUME NEW r \in Runs, docs[r].status = "open",
             registry' = ThreeWay(docs[r].pushed.base, registry, docs[r].pushed.registry)
      PROVE  m \in Tables(registry')
  <2>1. Adds(docs[r].pushed, files[r])
    BY <1>1, OpenAdds
  <2> QED  BY <1>1, <2>1, AddsAll
<1>2. CASE DocsLand
  <2>1. proc.at = "docs" /\ (registry' = registry \/ (docs[run].status = "open" /\ Landed))
    BY <1>2 DEF DocsLand, Lands, DocsStep
  <2>2. run \in Runs
    BY <2>1, LaterIs DEF Later
  <2> QED  BY <1>1, <2>1, <2>2 DEF Landed
<1>3. CASE \E r \in Runs : ResolveDocs(r)
  BY <1>1, <1>3 DEF ResolveDocs
<1> QED  BY <1>1, <1>2, <1>3, WritersAre

(* What a run that has begun publishes is its to credit, or credited. *)
LEMMA InHandStays ==
  ASSUME IInv, FilesTrue, StepTrue, DocsTrue, KeepsDecisions, Next,
         NEW m \in DOMAIN main, InHand(m)
  PROVE  KnownIn(m)'
<1>1. PICK r \in Runs : UnderWay(r) /\ m \in News(files[r])
  BY DEF InHand
<1>2. Begun(r)
  BY <1>1 DEF Begun
<1>3. CASE UnderWay(r)' /\ m \in News(files'[r])
  BY <1>3 DEF KnownIn, InHand
<1>4. CASE CloseClaims /\ r = run
  <2>1. proc.at = "claims" /\ registry' = registry
    BY <1>4 DEF CloseClaims
  <2>2. "docs" \in st.done /\ files[r] # NoFile /\ st = files[r]
    BY <1>1, <1>4, <2>1 DEF StepTrue, UnderWay, st
  <2>3. DocsOf(r, files[r])
    BY <2>2 DEF DocsTrue
  <2>4. m \in Tables(registry)
    BY <1>1, <2>2, <2>3 DEF DocsOf
  <2> QED  BY <2>1, <2>4 DEF KnownIn
<1> QED  BY <1>1, <1>2, <1>3, <1>4, PlanStays

(* What was known stays so. *)
LEMMA KnownStays ==
  ASSUME IInv, FilesTrue, StepTrue, MergedAre, DocsTrue, KnownAre, KeepsDecisions, Next,
         NEW m \in DOMAIN main
  PROVE  KnownIn(m)'
<1>1. KnownIn(m)
  BY DEF KnownAre, KnownIn, InHand
<1>2. CASE Own(m)
  BY <1>2, OwnOn DEF KnownIn
<1>3. CASE m \in Tables(registry)
  BY <1>3, TablesGrow DEF KnownIn
<1>4. CASE InHand(m)
  BY <1>4, InHandStays
<1> QED  BY <1>1, <1>2, <1>3, <1>4 DEF KnownIn

(* Whoever is merged brings only what the run publishes from it. *)
LEMMA MergePublishes ==
  ASSUME NEW n, NEW ms, NEW decided, NEW own, Action(n, ms, decided, own) = "merge"
  PROVE  ms \subseteq Pub(n, ms, decided)
<1> DEFINE pub == Pub(n, ms, decided)
           held == Held(ms, decided)
           rest == Credited(n, ms, decided, own) \cup own
           a == CASE pub # {} /\ held \cup rest = {} -> "merge"
                  [] pub # {} /\ held # {} -> "copy_open"
                  [] pub # {} /\ held = {} /\ rest # {} -> "copy_close"
                  [] pub = {} /\ held # {} -> "comment"
                  [] OTHER -> "close"
<1>1. held \cup Credited(n, ms, decided, own) \cup own = held \cup rest
  OBVIOUS
<1>2. Action(n, ms, decided, own) = a
  BY <1>1 DEF Action
<1>3. held \cup rest = {} => ms \subseteq pub
  BY DEF Credited
<1> HIDE DEF pub, held, rest
<1>4. SUFFICES ASSUME held \cup rest # {}
               PROVE  a # "merge"
  BY <1>2, <1>3 DEF pub
<1>5. CASE pub # {} /\ held # {}
  <2>1. a = "copy_open"
    BY <1>5
  <2> QED  BY <2>1
<1>6. CASE pub # {} /\ held = {}
  <2>1. a = "copy_close"
    BY <1>4, <1>6
  <2> QED  BY <2>1
<1>7. CASE pub = {}
  <2>1. a \in {"comment", "close"}
    BY <1>4, <1>7
  <2> QED  BY <2>1
<1> QED  BY <1>5, <1>6, <1>7

(* What a step lands of the run's decisions is the run's to credit, recorded or not. *)
LEMMA LandsInHand ==
  ASSUME IInv, FilesTrue, StepTrue, proc.at \in Merging,
         NEW t, SamePlan(st, t), Record(t) \/ files' = files, t # NoFile,
         NEW m \in News(st)
  PROVE  KnownIn(m)'
<1>1. run \in Runs /\ st # NoFile /\ UnderWay(run)
  BY MergingIs
<1>2. PICK r \in Runs : r = run
  BY <1>1
<1>3. files'[r] = t \/ files'[r] = st
  BY <1>2 DEF IInv, FilesAre, Record, st
<1>4. UnderWay(r)' /\ News(files'[r]) = News(st)
  <2>1. DOMAIN st.decided # {} /\ t.decided = st.decided
    BY <1>1, <1>2 DEF UnderWay, st, SamePlan
  <2>2. files'[r].decided = st.decided /\ files'[r] # NoFile
    BY <1>1, <1>3, <2>1
  <2> QED  BY <2>1, <2>2 DEF UnderWay, News
<1> QED  BY <1>2, <1>4 DEF KnownIn, InHand

(* What a merge lands. *)
LEMMA MergeKnown ==
  ASSUME IInv, FilesTrue, StepTrue, MergePr, NEW m \in DOMAIN main', m \notin DOMAIN main
  PROVE  KnownIn(m)'
<1>1. /\ proc.at = "effect" /\ ActionOf(st, proc.pr) = "merge" /\ main' = Overwrite(main, Now)
      /\ Save(Merged(st, proc.pr), "merge")
  BY DEF MergePr, Does
<1>2. proc.at \in Merging /\ head[proc.pr] = st.pulls[proc.pr]
  BY <1>1 DEF StepTrue, Merging
<1>3. run \in Runs /\ st # NoFile /\ FileIs(world, verified, run, st) /\ proc.pr \in run
  BY <1>1, <1>2, MergingIs DEF IInv, ProcIs
<1>4. m \in DOMAIN Now
  BY <1>1 DEF Overwrite
<1>5. m \in Materials(proc.pr, st.pulls[proc.pr])
  BY <1>2, <1>4 DEF Now, Materials
<1>6. m \in PubOf(st, proc.pr)
  BY <1>1, <1>5, MergePublishes DEF ActionOf, PubOf
<1>7. m \in News(st)
  <2>1. Materials(proc.pr, st.pulls[proc.pr]) \subseteq DOMAIN st.decided
    BY <1>2, <1>3, DecidesAll
  <2>2. st.decided[m].from = proc.pr
    BY <1>6 DEF PubOf, Pub
  <2>3. proc.pr # NoPr
    BY <1>3, AcceptAssumption
  <2> QED  BY <1>5, <2>1, <2>2, <2>3 DEF News
<1>8. SamePlan(st, Merged(st, proc.pr)) /\ Merged(st, proc.pr) # NoFile
  <2>1. st = [f \in FileFields |-> st[f]]
    BY <1>3 DEF FileIs
  <2>2. Merged(st, proc.pr) = [f \in FileFields |-> Merged(st, proc.pr)[f]]
    BY <2>1 DEF Merged, FileFields
  <2> QED  BY <2>1, <2>2, MergedRecord, FileIsSome
<1>9. Record(Merged(st, proc.pr)) \/ files' = files
  BY <1>1 DEF Save, SaveThen
<1> QED  BY <1>2, <1>7, <1>8, <1>9, LandsInHand

(* What a copy lands. *)
LEMMA CopyKnown ==
  ASSUME IInv, FilesTrue, StepTrue, CopyFiles, NEW m \in DOMAIN main', m \notin DOMAIN main
  PROVE  KnownIn(m)'
<1> DEFINE c == Overwrite(st.copied, [n \in {proc.pr} |-> ActionOf(st, n) # "copy_open"])
           s == [st EXCEPT !.copied = c]
<1>1. Record(s) \/ files' = files
  BY DEF CopyFiles, SaveThen
<1> HIDE DEF c
<1>2. proc.at \in Merging
  BY DEF CopyFiles, Merging
<1>3. run \in Runs /\ st # NoFile /\ FileIs(world, verified, run, st)
  BY <1>2, MergingIs
<1>4. SamePlan(st, s) /\ s # NoFile
  <2>1. st = [f \in FileFields |-> st[f]]
    BY <1>3 DEF FileIs
  <2>2. s = [f \in FileFields |-> s[f]]
    BY <2>1 DEF FileFields
  <2> QED  BY <2>1, <2>2, CopiedRecord, FileIsSome
<1> HIDE DEF s
<1>5. m \in PubOf(st, proc.pr)
  <2>1. main' = Overwrite(main, Only(Verified, PubOf(st, proc.pr)))
    BY DEF CopyFiles
  <2> QED  BY <2>1 DEF Overwrite, Only
<1>6. m \in News(st)
  BY <1>5, CopyWrites
<1> QED  BY <1>1, <1>2, <1>4, <1>6, LandsInHand

(* Whatever is on main is known. *)
LEMMA KnownOn ==
  ASSUME IInv, FilesTrue, StepTrue, MergedAre, DocsTrue, KnownAre, KeepsDecisions, Next
  PROVE  KnownAre'
<1>1. status = [k \in Prs |-> status[k]] /\ \A n \in byHand : n \in Prs /\ status[n] # "open"
  BY DEF MergedAre, KnownAre
<1>2. byHand' = byHand \/ \E k \in Prs : MergeByHand(k)
  BY DEF Next, Step, Prepare, AllMerged, CheckHead, TakeAsMerged, MergePr, MergeRefused,
     CopyPart, CopyFiles, FinishCopy, CommentPr, ClosePr, NothingToRecord, WriteManifest, MoveLocal, DocsDone,
     DocsDirty, DocsEmpty, DocsCommit, DocsPush, DocsOpen, DocsLand, DocsConflict, WriteCard, TellClaim,
     CloseClaims, Killed, Start, Outside, Push, Verify, WithdrawClaim, ResolveDocs, CloseDocs,
     PlanAccept, OtherCommit, Pull, PullTables, Edit, CleanUp, history
<1>3. \A n \in byHand' : n \in Prs /\ status'[n] # "open"
  <2>1. \A n \in byHand : n \in Prs /\ status'[n] # "open"
    BY <1>1, SettledStays
  <2>2. CASE \E k \in Prs : MergeByHand(k)
    <3>1. PICK k \in Prs : MergeByHand(k)
      BY <2>2
    <3>2. byHand' = byHand \cup {k} /\ status' = [status EXCEPT ![k] = "merged"]
      BY <3>1 DEF MergeByHand
    <3>3. status'[k] = "merged"
      BY <1>1, <3>2
    <3> QED  BY <2>1, <3>1, <3>2, <3>3
  <2> QED  BY <1>2, <2>1, <2>2
<1>4. ASSUME NEW m \in DOMAIN main', m \notin DOMAIN main
      PROVE  KnownIn(m)'
  <2>1. CASE MergePr
    BY <1>4, <2>1, MergeKnown
  <2>2. CASE CopyFiles
    BY <1>4, <2>2, CopyKnown
  <2>3. CASE WriteManifest
    BY <1>4, <2>3 DEF WriteManifest
  <2>4. CASE \E k \in Prs : MergeByHand(k)
    <3>1. PICK k \in Prs : MergeByHand(k)
      BY <2>4
    <3>2. /\ main' = Overwrite(main, Delivery(k, head[k]).files) /\ byHand' = byHand \cup {k}
          /\ head' = head /\ world' = world
      BY <3>1 DEF MergeByHand
    <3>3. m \in Materials(k, head[k]) /\ k \in byHand'
      BY <1>4, <3>2 DEF Overwrite, Materials
    <3>4. Materials(k, head[k])' = Materials(k, head[k])
      BY <3>2 DEF Materials, Delivery
    <3> QED  BY <3>3, <3>4 DEF KnownIn, Own, ByHand
  <2> QED  BY <1>4, <2>1, <2>2, <2>3, <2>4, Writers
<1>5. \A m \in DOMAIN main' : KnownIn(m)'
  BY <1>4, KnownStays
<1> QED  BY <1>3, <1>5 DEF KnownAre, KnownIn, InHand

-----------------------------------------------------------------------------
\* The invariant of runs that do not overlap.

(* It holds before anything has run. *)
LEMMA InitCredits ==
  ASSUME Init, ~ world.overlap
  PROVE  DInv
<1>1. /\ world \in Worlds /\ head = [n \in Prs |-> 1] /\ main = world.published /\ manifest = main
      /\ tables = main /\ status = [n \in Prs |-> "open"] /\ branch = Main /\ byHand = {}
      /\ files = [r \in Runs |-> NoFile] /\ proc = Idle /\ docs = [r \in Runs |-> NoDocs]
      /\ local = [b \in {Main} |-> AtRev(registry, registry, 0)]
      /\ report = [n \in Prs |-> IF n \in world.old THEN Report(1, TRUE, FALSE) ELSE Report(0, FALSE, FALSE)]
      /\ staged = [n \in Prs |-> IF n \in world.old THEN Delivery(n, 1).files ELSE Empty]
  BY DEF Init
<1>2. registry.from = {} /\ registry.by = {} /\ EmptyRegistry.from = {} /\ EmptyRegistry.by = {}
  BY DEF Init, EmptyRegistry
<1>3. proc.at = "idle"
  BY <1>1 DEF Idle
<1>4. \A r \in Runs : files[r] = NoFile /\ ~ UnderWay(r)
  BY <1>1 DEF UnderWay
<1>5. OneRun /\ FilesTrue /\ StepTrue /\ BranchIs
  BY <1>1, <1>3, <1>4 DEF OneRun, FilesTrue, StepTrue, BranchIs, Merging, Later
<1>6. StagedAre
  <2>1. staged = [n \in Prs |-> staged[n]]
    BY <1>1
  <2>2. ASSUME NEW n \in Prs, NEW m \in DOMAIN staged[n]
        PROVE  m \in Materials(n, report[n].head) /\ staged[n][m] = Content(n, report[n].head, m)
    <3>1. n \in world.old
      BY <1>1, <2>2 DEF Empty
    <3>2. staged[n] = Delivery(n, 1).files /\ report[n].head = 1
      BY <1>1, <3>1 DEF Report
    <3> QED  BY <2>2, <3>2 DEF Materials, Content
  <2> QED  BY <2>1, <2>2 DEF StagedAre
<1>7. TablesAre /\ MergedAre
  BY <1>1 DEF TablesAre, MergedAre
<1>8. RegistriesAre
  <2>1. TrueReg(registry) /\ TrueReg(EmptyRegistry)
    BY <1>2 DEF TrueReg, OwnReg
  <2>2. \A b \in DOMAIN local : local[b].registry = registry
    BY <1>1 DEF AtRev
  <2>3. \A r \in Runs : docs[r].pushed.registry = EmptyRegistry
    BY <1>1 DEF NoDocs, AtRev
  <2> QED  BY <2>1, <2>2, <2>3 DEF RegistriesAre
<1>9. DocsTrue
  BY <1>1, <1>4 DEF DocsTrue, NoDocs
<1>10. KnownAre
  BY <1>1 DEF KnownAre, Own
<1> QED  BY <1>5, <1>6, <1>7, <1>8, <1>9, <1>10 DEF DInv

(* A step that makes no decision anew keeps it. *)
LEMMA StepCredits ==
  ASSUME ~ Window, IInv, DInv, Next, KeepsDecisions
  PROVE  DInv'
<1>1. /\ ~ world.overlap /\ OneRun /\ StagedAre /\ TablesAre /\ FilesTrue /\ StepTrue /\ MergedAre
      /\ BranchIs /\ RegistriesAre /\ DocsTrue /\ KnownAre
  BY DEF DInv
<1>2. AllSteady
  BY <1>1, SteadyIs DEF MergedAre
<1>3. FilesAre'
  BY NextKeeps DEF IInv
<1>4. ~ world'.overlap
  BY <1>1, WritersAre
<1>5. OneRun' /\ StagedAre'
  BY <1>1, OneRunOn, StagedOn
<1>6. TablesAre'
  BY <1>1, ListedStays, TablesOn
<1>7. FilesTrue' /\ (Prepare /\ proc'.at # "idle" => \A r \in Runs : r = run => Checked(r)')
  <2>1. CASE Prepare
    BY <1>1, <1>2, <2>1, PrepareTrue
  <2>2. CASE ~ Prepare
    BY <1>1, <1>2, <2>2, FilesTrueOn
  <2> QED  BY <2>1, <2>2
<1>8. StepTrue'
  BY <1>1, <1>2, StepTrueOn
<1>9. MergedAre' /\ BranchIs'
  BY <1>1, MergedOn, BranchOn
<1>10. RegistriesAre'
  BY <1>1, RegistriesOn
<1>11. DocsTrue'
  BY <1>1, <1>3, <1>7, DocsTrueStays
<1>12. KnownAre'
  BY <1>1, KnownOn
<1> QED  BY <1>4, <1>5, <1>6, <1>7, <1>8, <1>9, <1>10, <1>11, <1>12 DEF DInv

(* A step that changes nothing keeps it. *)
LEMMA StutterCredits ==
  ASSUME DInv, UNCHANGED vars
  PROVE  DInv'
<1>1. /\ UNCHANGED <<world, status, head, main, manifest, registry, docs, report, staged, tables>>
      /\ UNCHANGED <<local, branch, files, proc, byHand, verified>>
  BY DEF vars, hub, github, disk, checkout, history
<1>2. ~ world'.overlap /\ OneRun'
  BY <1>1 DEF DInv, OneRun, UnderWay, run
<1>3. StagedAre' /\ TablesAre'
  BY <1>1 DEF DInv, StagedAre, TablesAre, Materials, Content, Delivery
<1>4. FilesTrue'
  <2> SUFFICES ASSUME NEW r \in Runs, files'[r] # NoFile
               PROVE  CoreTrue(r)' /\ StageOf(r)'
    BY DEF FilesTrue
  <2>1. CoreTrue(r) /\ StageOf(r)
    BY <1>1 DEF DInv, FilesTrue
  <2>2. Agreed(r)'
    <3>1. \A m : AgreedOn(r, m)' <=> AgreedOn(r, m)
      BY <1>1 DEF AgreedOn, AgreedIn, AllBring, Materials, Content, Delivery
    <3> QED  BY <1>1, <2>1, <3>1 DEF CoreTrue, Agreed, UnderWay, News
  <2>3. DealtWith(r)'
    <3>1. \A n : DealtIs(r, n)' <=> DealtIs(r, n)
      BY <1>1 DEF DealtIs, LandedFrom, News, UnderWay, Materials, Content, Delivery
    <3>2. Dealt(r)' = Dealt(r)
      BY <1>1 DEF Dealt, ToDo
    <3> QED  BY <2>1, <3>1, <3>2 DEF CoreTrue, DealtWith
  <2>4. HandIs(r)'
    BY <1>1, <2>1 DEF CoreTrue, HandIs
  <2>5. Brought(world, files[r].pulls)' = Brought(world, files[r].pulls) /\ Nothing(r, files[r])' = Nothing(r, files[r])
    BY <1>1 DEF Brought, Nothing, RecordedOf, Materials, Delivery
  <2>6. StageOf(r)'
    BY <1>1, <2>1, <2>5 DEF StageOf, News
  <2> QED  BY <2>2, <2>3, <2>4, <2>6 DEF CoreTrue
<1>5. StepTrue'
  <2>1. StepTrue /\ run' = run /\ st' = st
    BY <1>1 DEF DInv, run, st
  <2>2. \A r \in Runs : Checked(r) => Checked(r)'
    <3>1. \A r, n : LandedFrom(r, n)' <=> LandedFrom(r, n)
      BY <1>1 DEF LandedFrom, News, Content, Delivery
    <3> QED  BY <1>1, <3>1 DEF Checked, ToDo
  <2>3. Prior(run)' = Prior(run)
    BY <1>1, <2>1 DEF Prior
  <2> QED  BY <1>1, <2>1, <2>2, <2>3 DEF StepTrue
<1>6. MergedAre'
  BY <1>1 DEF DInv, MergedAre, UnderWay, News, Materials, Content, Delivery
<1>7. BranchIs'
  BY <1>1 DEF DInv, BranchIs, UnderWay
<1>8. RegistriesAre'
  <2>1. \A m, n : Delivers(m, n)' <=> Delivers(m, n)
    BY <1>1 DEF Delivers, Matches, Materials, Delivery
  <2>2. \A m : Own(m)' <=> Own(m)
    BY <1>1 DEF Own, ByHand, Materials, Delivery
  <2>3. RegistriesAre
    BY <1>1 DEF DInv
  <2> QED  BY <1>1, <2>1, <2>2, <2>3 DEF RegistriesAre, TrueReg, OwnReg
<1>9. DocsTrue'
  <2>1. DocsTrue
    BY <1>1 DEF DInv
  <2>2. \A r : DocsOf(r, files[r])' <=> DocsOf(r, files[r])
    BY <1>1 DEF DocsOf, Adds, News, Tables
  <2> QED  BY <1>1, <2>1, <2>2 DEF DocsTrue, UnderWay
<1>10. KnownAre'
  BY <1>1 DEF DInv, KnownAre, Own, ByHand, Tables, News, UnderWay, Materials, Delivery
<1> QED  BY <1>2, <1>3, <1>4, <1>5, <1>6, <1>7, <1>8, <1>9, <1>10 DEF DInv

(* Whom the registry credits has delivered what is published. *)
LEMMA CreditsFollow ==
  ASSUME IInv, DInv
  PROVE  CreditTrue
<1>1. \A m \in DOMAIN manifest : m \in DOMAIN main
  BY DEF IInv, PublicTrue
<1>2. TrueReg(registry)
  BY DEF DInv, RegistriesAre
<1>3. \A g \in registry.by : Delivers(g[1], g[3])
  BY <1>2 DEF TrueReg
<1>4. \A f \in registry.from : Delivers(f[1], f[2])
  BY <1>2 DEF TrueReg
<1>5. ASSUME NEW f \in {<<g[1], g[3]>> : g \in registry.by} \cup registry.from, f[2] # NoPr
      PROVE  f[1] \in DOMAIN main /\ Matches(f[1], f[2])
  <2>1. CASE f \in registry.from
    BY <1>1, <1>4, <1>5, <2>1 DEF Delivers
  <2>2. CASE f \in {<<g[1], g[3]>> : g \in registry.by}
    <3>1. PICK g \in registry.by : f = <<g[1], g[3]>>
      BY <2>2
    <3>2. f[1] = g[1] /\ f[2] = g[3]
      BY <3>1
    <3> QED  BY <1>1, <1>3, <1>5, <3>2 DEF Delivers
  <2> QED  BY <1>5, <2>1, <2>2
<1>6. ASSUME NEW m, <<m, Maintainer, NoPr>> \in registry.by
      PROVE  m \in DOMAIN world.published \/ \E n \in byHand : m \in Materials(n, head[n])
  <2> DEFINE g == <<m, Maintainer, NoPr>>
  <2>1. g \in registry.by /\ g[1] = m /\ g[2] = Maintainer /\ g[3] = NoPr
    BY <1>6
  <2> HIDE DEF g
  <2>2. Own(g[1])
    BY <1>2, <2>1 DEF TrueReg, OwnReg
  <2> QED  BY <2>1, <2>2 DEF Own, ByHand
<1> QED  BY <1>5, <1>6 DEF CreditTrue

(* Runs that do not overlap credit nobody who has not delivered what is published, and the
   maintainer only what was published before or merged by hand: if no push can land between
   accept's head check and the merge, and a run keeps the decisions it has begun to act on. *)
THEOREM CreditsAreTrue ==
  ASSUME ~ Window
  PROVE  Spec /\ ~ world.overlap /\ [][KeepsDecisions]_vars => []CreditTrue
<1>1. Init /\ ~ world.overlap => DInv
  BY InitCredits
<1>2. IInv /\ DInv /\ [Next]_vars /\ [KeepsDecisions]_vars => DInv'
  <2>1. CASE UNCHANGED vars
    BY <2>1, StutterCredits
  <2>2. CASE ~ UNCHANGED vars
    BY <2>2, StepCredits
  <2> QED  BY <2>1, <2>2
<1>3. IInv /\ DInv => CreditTrue
  BY CreditsFollow
<1> QED  BY <1>1, <1>2, <1>3, Invariant, PTL DEF Spec
-----------------------------------------------------------------------------
(* A run that is over has landed all it recorded: a third invariant. *)

\* Every run is of finitely many PRs, and a PR brings finitely many files.
AllFinite ==
  /\ \A r \in Runs : IsFiniteSet(r)
  /\ \A w \in Worlds : \A n \in UNION Runs : \A v \in DOMAIN w.heads[n] :
       IsFiniteSet(DOMAIN w.heads[n][v].files)

\* What a PR's report is about is staged, or moved to the corpus.
Stocked == \A n \in Prs : report[n].head # 0 =>
             Materials(n, report[n].head) \subseteq DOMAIN staged[n] \cup DOMAIN tables

\* The corpus has what a run reproduces, and what it publishes once that is moved.
HereIs(s) ==
  /\ \A m \in DOMAIN s.decided : s.decided[m].kind = "reproduction" => m \in DOMAIN tables
  /\ "local" \in s.done => News(s) \subseteq DOMAIN tables
Moved == {"docs", "card", "claims"}
Here ==
  /\ \A r \in Runs : files[r] # NoFile => HereIs(files[r])
  /\ proc.at \in Moved => \A r \in Runs : r = run => "local" \in files[r].done

\* A PR is left open for what of it is held, and for nothing else.
HasHeld(s, n) == Held(Materials(n, s.pulls[n]), s.decided) # {}
OpenIs(r, s) ==
  \A n \in r : /\ (n \in s.merged /\ status[n] = "open") => HasHeld(s, n)
               /\ (n \in DOMAIN s.copied /\ ~ s.copied[n]) => HasHeld(s, n)
OpenAre == \A r \in Runs : files[r] # NoFile => OpenIs(r, files[r])

\* Every table of a registry has a producer, and a branch is made from what origin/main had.
Whole(reg) == IsFiniteSet(reg.by) /\ Tables(reg) \subseteq {g[1] : g \in reg.by}
Behind(b) == Whole(b.registry) /\ b.base.by \subseteq registry.by
WholeAre ==
  /\ Whole(registry) /\ \A b \in DOMAIN local : Behind(local[b])
  /\ \A r \in Runs : Behind(docs[r].pushed)

\* Whom a run credits is in its branch from the commit on, and in the registry once that is merged.
Owed(r, s) == CreditsOf(r, s.who, RecordedOf(r, s))
OwedOf(r, s) ==
  /\ "docs" \in s.done => Owed(r, s) \subseteq registry.by
  /\ s.sub = {"committed"} => Owed(r, s) \subseteq local[r].registry.by
  /\ "pushed" \in s.sub /\ (~ s.docsPr \/ docs[r].status = "open") =>
       Owed(r, s) \subseteq docs[r].pushed.registry.by
  /\ s.docsPr /\ docs[r].status = "merged" => Owed(r, s) \subseteq registry.by
OwedAre == \A r \in Runs : files[r] # NoFile => OwedOf(r, files[r])

LInv == Stocked /\ Here /\ OpenAre /\ WholeAre /\ OwedAre

-----------------------------------------------------------------------------
\* What a step records of a run, once more.

\* The same PRs are credited with the same materials.
SameCredits(s, t) == SamePlan(s, t) /\ t.who = s.who

(* No record but that of Prepare changes whom a run credits. *)
LEMMA RecordsCredit ==
  ASSUME NEW s, s = [f \in FileFields |-> s[f]], NEW x
  PROVE  /\ Done(s, x).who = s.who
         /\ Merged(s, x).who = s.who
         /\ [s EXCEPT !.copied = x].who = s.who
         /\ [s EXCEPT !.commented = x].who = s.who
         /\ [s EXCEPT !.sub = x].who = s.who
         /\ [s EXCEPT !.docsPr = TRUE].who = s.who
         /\ [s EXCEPT !.retried = TRUE, !.sub = {}, !.docsPr = FALSE].who = s.who
BY DEF Done, Merged, FileFields

(* Nor does what a docs phase starts from. *)
LEMMA StartsCredit ==
  ASSUME NEW s, s = [f \in FileFields |-> s[f]]
  PROVE  LET t == Started(s)
             u == [t EXCEPT !.sub = {"committed"}]
             d == Done([t EXCEPT !.empty = TRUE], "docs")
         IN  /\ SameCredits(s, t) /\ SameMerge(s, t) /\ t.done = s.done /\ t.sub = s.sub
             /\ t.docsPr = s.docsPr
             /\ SameCredits(s, u) /\ SameMerge(s, u) /\ u.done = s.done /\ u.sub = {"committed"}
             /\ u.docsPr = s.docsPr
             /\ SameCredits(s, d) /\ SameMerge(s, d) /\ d.done = s.done \cup {"docs"} /\ d.sub = s.sub
             /\ d.docsPr = s.docsPr
<1> DEFINE o == IF s.started THEN s.original ELSE branch
           t == Started(s)
           u == [t EXCEPT !.sub = {"committed"}]
           e == [t EXCEPT !.empty = TRUE]
           d == Done(e, "docs")
<1>1. t = [s EXCEPT !.started = TRUE, !.original = o]
  BY DEF Started
<1> HIDE DEF t, o
<1>2. /\ t = [f \in FileFields |-> t[f]] /\ SameCredits(s, t) /\ SameMerge(s, t)
      /\ t.done = s.done /\ t.sub = s.sub /\ t.docsPr = s.docsPr
  BY <1>1 DEF FileFields, SameCredits, SamePlan, SameMerge
<1>3. /\ SameCredits(s, u) /\ SameMerge(s, u) /\ u.done = s.done /\ u.sub = {"committed"}
      /\ u.docsPr = s.docsPr
  BY <1>2 DEF FileFields, SameCredits, SamePlan, SameMerge
<1>4. /\ e = [f \in FileFields |-> e[f]] /\ SameCredits(s, e) /\ SameMerge(s, e)
      /\ e.done = s.done /\ e.sub = s.sub /\ e.docsPr = s.docsPr
  BY <1>2 DEF FileFields, SameCredits, SamePlan, SameMerge
<1> HIDE DEF e
<1>5. /\ SameCredits(s, d) /\ SameMerge(s, d) /\ d.done = s.done \cup {"docs"} /\ d.sub = s.sub
      /\ d.docsPr = s.docsPr
  BY <1>4 DEF Done, FileFields, SameCredits, SamePlan, SameMerge
<1> QED  BY <1>2, <1>3, <1>5 DEF t, e

(* What Prepare decides forgets no PR that is dealt with and no phase that is done. *)
LEMMA DecidedRecord ==
  ASSUME NEW r, NEW s, s = [f \in FileFields |-> s[f]], NEW release
  PROVE  LET t == Decided(r, s, release)
         IN  t.merged = s.merged /\ t.copied = s.copied /\ t.done = s.done /\ t.pulls = Pulls(r, s)
<1> DEFINE k == Known(r, s)
           t == Decided(r, s, release)
<1>1. k = [f \in FileFields |-> k[f]] /\ k.merged = s.merged /\ k.copied = s.copied /\ k.done = s.done
      /\ k.pulls = Pulls(r, s)
  BY KnownRecord
<1>2. t = k \/ \E d, o, h : t = [k EXCEPT !.decided = d, !.own = o, !.heads = h]
  BY DEF Decided
<1> HIDE DEF k, t
<1>3. t.merged = k.merged /\ t.copied = k.copied /\ t.done = k.done /\ t.pulls = k.pulls
  BY <1>1, <1>2 DEF FileFields
<1> QED  BY <1>1, <1>3 DEF t

\* A record s of a step: only moving the files ends that phase, only the merge step deals with PRs,
\* and only the docs phase records anything of the docs.
Follows(s) ==
  /\ SameCredits(st, s) /\ st.done \subseteq s.done
  /\ "local" \in s.done => "local" \in st.done \/ MoveLocal
  /\ SameMerge(st, s) \/ TakeAsMerged \/ MergePr \/ FinishCopy \/ CommentPr \/ ClosePr \/ CopyFiles
  /\ \/ s.sub = st.sub /\ s.docsPr = st.docsPr /\ ("docs" \in s.done => "docs" \in st.done)
     \/ DocsEmpty \/ DocsCommit \/ DocsPush \/ DocsOpen \/ DocsLand \/ DocsConflict

(* So it is with every step but the first and the last of a run. *)
LEMMA StepRecords ==
  ASSUME IInv, Step, ~ Prepare, ~ NothingToRecord, ~ CloseClaims
  PROVE  files' = files \/ \E s : Record(s) /\ Follows(s)
<1> SUFFICES ASSUME files' # files
             PROVE  \E s : Record(s) /\ Follows(s)
  OBVIOUS
<1>1. proc.at \notin {"idle", "prepare"}
  BY DEF Step, AllMerged, CheckHead, TakeAsMerged, MergePr, MergeRefused,
     CopyPart, CopyFiles, FinishCopy, CommentPr, ClosePr, WriteManifest, MoveLocal, DocsDone,
     DocsDirty, DocsEmpty, DocsCommit, DocsPush, DocsOpen, DocsLand, DocsConflict, WriteCard, TellClaim,
     MergesNext, Does, DocsStep, DocsStarts, Lands
<1>2. st = [f \in FileFields |-> st[f]]
  BY <1>1, RunIs DEF IInv, FileIs
<1>3. CASE AllMerged \/ WriteManifest \/ MoveLocal \/ WriteCard
  <2>1. PICK x \in {"merge", "manifest", "local", "card"} : Record(Done(st, x)) /\ (x = "local" => MoveLocal)
    BY <1>3 DEF AllMerged, WriteManifest, MoveLocal, WriteCard, Save, SaveThen
  <2> DEFINE s == Done(st, x)
  <2>2. /\ SamePlan(st, s) /\ SameMerge(st, s) /\ SameDocs(st, s) /\ s.done = st.done \cup {x}
        /\ s.who = st.who
    BY <1>2, DoneRecord, RecordsCredit
  <2>3. Record(s)
    BY <2>1
  <2> HIDE DEF s
  <2>4. Follows(s)
    BY <2>1, <2>2 DEF Follows, SameCredits, SameDocs
  <2> QED  BY <2>3, <2>4
<1>4. CASE TakeAsMerged \/ MergePr \/ FinishCopy \/ CommentPr \/ ClosePr
  <2>1. PICK n : Record(Merged(st, n))
    BY <1>4 DEF TakeAsMerged, MergePr, FinishCopy, CommentPr, ClosePr, Save, SaveThen
  <2> DEFINE s == Merged(st, n)
  <2>2. SamePlan(st, s) /\ SameDocs(st, s) /\ s.done = st.done /\ s.who = st.who
    BY <1>2, MergedRecord, RecordsCredit
  <2>3. Record(s)
    BY <2>1
  <2> HIDE DEF s
  <2>4. Follows(s)
    BY <1>4, <2>2 DEF Follows, SameCredits, SameDocs
  <2> QED  BY <2>3, <2>4
<1>5. CASE CopyFiles
  <2> DEFINE c == Overwrite(st.copied, [n \in {proc.pr} |-> ActionOf(st, n) # "copy_open"])
             s == [st EXCEPT !.copied = c]
  <2>1. Record(s)
    BY <1>5 DEF CopyFiles, SaveThen
  <2> HIDE DEF c
  <2>2. SamePlan(st, s) /\ SameDocs(st, s) /\ s.done = st.done /\ s.who = st.who
    BY <1>2, CopiedRecord, RecordsCredit
  <2> HIDE DEF s
  <2>3. Follows(s)
    BY <1>5, <2>2 DEF Follows, SameCredits, SameDocs
  <2> QED  BY <2>1, <2>3
<1>6. CASE TellClaim
  <2> DEFINE c == st.commented \cup {MinOf(ToTell)}
             s == [st EXCEPT !.commented = c]
  <2>1. Record(s)
    BY <1>6 DEF TellClaim, Save, SaveThen
  <2> HIDE DEF c
  <2>2. SamePlan(st, s) /\ SameMerge(st, s) /\ SameDocs(st, s) /\ s.done = st.done /\ s.who = st.who
    BY <1>2, CommentedRecord, RecordsCredit
  <2> HIDE DEF s
  <2>3. Follows(s)
    BY <2>2 DEF Follows, SameCredits, SameDocs
  <2> QED  BY <2>1, <2>3
<1>7. CASE DocsEmpty \/ DocsCommit
  <2> DEFINE t == Started(st)
             u == [t EXCEPT !.sub = {"committed"}]
             d == Done([t EXCEPT !.empty = TRUE], "docs")
  <2>1. Record(t) \/ Record(u) \/ Record(d)
    BY <1>7 DEF DocsEmpty, DocsCommit, Save, SaveThen
  <2>2. /\ SameCredits(st, t) /\ SameMerge(st, t) /\ t.done = st.done
        /\ SameCredits(st, u) /\ SameMerge(st, u) /\ u.done = st.done
        /\ SameCredits(st, d) /\ SameMerge(st, d) /\ d.done = st.done \cup {"docs"}
    BY <1>2, StartsCredit
  <2> HIDE DEF t, u, d
  <2>3. Follows(t) /\ Follows(u) /\ Follows(d)
    BY <1>7, <2>2 DEF Follows
  <2> QED  BY <2>1, <2>3
<1>8. CASE DocsPush
  <2> DEFINE x == st.sub \cup {"pushed"}
             s == [st EXCEPT !.sub = x]
  <2>1. Record(s)
    BY <1>8 DEF DocsPush, Save, SaveThen
  <2> HIDE DEF x
  <2>2. SamePlan(st, s) /\ SameMerge(st, s) /\ s.done = st.done /\ s.who = st.who
    BY <1>2, SubRecord, RecordsCredit
  <2> HIDE DEF s
  <2>3. Follows(s)
    BY <1>8, <2>2 DEF Follows, SameCredits
  <2> QED  BY <2>1, <2>3
<1>9. CASE DocsOpen
  <2> DEFINE s == [st EXCEPT !.docsPr = TRUE]
  <2>1. Record(s)
    BY <1>9 DEF DocsOpen, Save, SaveThen
  <2>2. SamePlan(st, s) /\ SameMerge(st, s) /\ s.done = st.done /\ s.who = st.who
    BY <1>2, OpenRecord, RecordsCredit
  <2> HIDE DEF s
  <2>3. Follows(s)
    BY <1>9, <2>2 DEF Follows, SameCredits
  <2> QED  BY <2>1, <2>3
<1>10. CASE DocsLand
  <2> DEFINE s == Done(st, "docs")
  <2>1. Record(s)
    BY <1>10 DEF DocsLand, Save, SaveThen
  <2>2. SamePlan(st, s) /\ SameMerge(st, s) /\ s.done = st.done \cup {"docs"} /\ s.who = st.who
    BY <1>2, DoneRecord, RecordsCredit
  <2> HIDE DEF s
  <2>3. Follows(s)
    BY <1>10, <2>2 DEF Follows, SameCredits
  <2> QED  BY <2>1, <2>3
<1>11. CASE DocsConflict
  <2> DEFINE s == [st EXCEPT !.retried = TRUE, !.sub = {}, !.docsPr = FALSE]
  <2>1. Record(s)
    BY <1>11 DEF DocsConflict, Save, SaveThen
  <2>2. SamePlan(st, s) /\ SameMerge(st, s) /\ s.done = st.done /\ s.who = st.who
    BY <1>2, RedoneRecord, RecordsCredit
  <2> HIDE DEF s
  <2>3. Follows(s)
    BY <1>11, <2>2 DEF Follows, SameCredits
  <2> QED  BY <2>1, <2>3
<1>12. CASE CheckHead \/ MergeRefused \/ CopyPart \/ DocsDone \/ DocsDirty
  BY <1>12 DEF CheckHead, MergeRefused, CopyPart, DocsDone, DocsDirty
<1> QED  BY <1>3, <1>4, <1>5, <1>6, <1>7, <1>8, <1>9, <1>10, <1>11, <1>12 DEF Step

(* What becomes of the file of a run that is not over yet: it is the run's own step, or nothing of
   it changes. *)
LEMMA FileFollows ==
  ASSUME IInv, Next, NEW r \in Runs, files[r] # NoFile, files'[r] # NoFile, ~ Prepare
  PROVE  files'[r] = files[r] \/ (Step /\ r = run /\ Follows(files'[r]))
<1>1. CASE files'[r] # files[r]
  <2>1. Step /\ r = run
    BY <1>1, FilesWritten
  <2>2. ~ NothingToRecord /\ ~ CloseClaims
    <3> SUFFICES ASSUME NothingToRecord \/ CloseClaims
                 PROVE  FALSE
      OBVIOUS
    <3>1. files' = files \/ files' = [files EXCEPT ![run] = NoFile]
      BY DEF NothingToRecord, CloseClaims, Over
    <3> QED  BY <1>1, <2>1, <3>1 DEF IInv, FilesAre
  <2>3. PICK s : Record(s) /\ Follows(s)
    BY <1>1, <2>1, <2>2, StepRecords
  <2>4. files'[r] = s
    BY <2>1, <2>3 DEF Record, IInv, FilesAre
  <2> QED  BY <2>1, <2>3, <2>4
<1> QED  BY <1>1

-----------------------------------------------------------------------------
\* The corpus directory and what is staged.

(* What MoveLocal moves. *)
LEMMA MovesAll ==
  ASSUME MoveLocal, "local" \notin st.done
  PROVE  /\ DOMAIN tables' = DOMAIN tables \cup UNION {PublishedNow[n] \cap DOMAIN staged[n] : n \in run}
         /\ \A n \in Prs : DOMAIN staged[n] \subseteq DOMAIN staged'[n] \cup
                             IF n \in run THEN PublishedNow[n] \cap DOMAIN staged[n] ELSE {}
<1> DEFINE moves(n) == PublishedNow[n] \cap DOMAIN staged[n]
           moved == {n \in run : moves(n) # {}}
           From(m) == CHOOSE n \in moved : m \in moves(n)
           c == [m \in UNION {moves(n) : n \in moved} |-> staged[From(m)][m]]
<1>1. /\ tables' = Overwrite(tables, c)
      /\ staged' = [n \in Prs |-> IF n \in moved
                      THEN Only(staged[n], DOMAIN staged[n] \ moves(n)) ELSE staged[n]]
  BY DEF MoveLocal
<1>2. DOMAIN c = UNION {moves(n) : n \in run}
  OBVIOUS
<1>3. DOMAIN tables' = DOMAIN tables \cup DOMAIN c
  <2> HIDE DEF c
  <2> QED  BY <1>1 DEF Overwrite
<1>4. \A n \in Prs : DOMAIN staged'[n] = IF n \in moved THEN DOMAIN staged[n] \ moves(n) ELSE DOMAIN staged[n]
  BY <1>1 DEF Only
<1> QED  BY <1>2, <1>3, <1>4

(* The corpus loses nothing. *)
LEMMA CorpusGrows ==
  ASSUME Next
  PROVE  DOMAIN tables \subseteq DOMAIN tables'
<1>1. CASE MoveLocal
  BY <1>1, MovesAll DEF MoveLocal
<1>2. CASE PullTables
  BY <1>2 DEF PullTables, Overwrite
<1> QED  BY <1>1, <1>2, WritersAre

(* What a report is about stays staged until it is in the corpus. *)
LEMMA StockedOn ==
  ASSUME IInv, StagedAre, Stocked, Next
  PROVE  Stocked'
<1>1. world' = world /\ DOMAIN tables \subseteq DOMAIN tables'
  BY WritersAre, CorpusGrows
<1>2. \A n, v : Materials(n, v)' = Materials(n, v)
  BY <1>1 DEF Materials, Delivery
<1> SUFFICES ASSUME NEW n \in Prs, report'[n].head # 0
             PROVE  Materials(n, report'[n].head) \subseteq DOMAIN staged'[n] \cup DOMAIN tables'
  BY <1>2 DEF Stocked
<1>3. CASE \E k \in Prs : Verify(k)
  <2>1. PICK k \in Prs : Verify(k)
    BY <1>3
  <2> DEFINE d == Delivery(k, head[k])
             e == Report(head[k], d.good, TRUE)
  <2>2. report' = [report EXCEPT ![k] = e] /\ staged' = [staged EXCEPT ![k] = d.files]
    BY <2>1 DEF Verify
  <2>3. e.head = head[k] /\ DOMAIN d.files = Materials(k, head[k])
    BY DEF Report, Materials
  <2> HIDE DEF d, e
  <2>4. CASE n = k
    BY <2>2, <2>3, <2>4 DEF StagedAre, IInv, HeadsAre
  <2>5. CASE n # k
    <3>1. report'[n] = report[n] /\ staged'[n] = staged[n]
      BY <2>2, <2>5 DEF StagedAre, IInv, HeadsAre
    <3> QED  BY <1>1, <3>1 DEF Stocked
  <2> QED  BY <2>4, <2>5
<1>4. CASE report' = report
  <2>1. Materials(n, report[n].head) \subseteq DOMAIN staged[n] \cup DOMAIN tables
    BY <1>4 DEF Stocked
  <2>2. CASE staged' = staged
    BY <1>1, <1>4, <2>1, <2>2
  <2>3. CASE MoveLocal /\ "local" \notin st.done
    <3>1. \A m \in DOMAIN staged[n] : m \in DOMAIN staged'[n] \cup DOMAIN tables'
      BY <2>3, MovesAll
    <3> QED  BY <1>1, <1>4, <2>1, <3>1
  <2>4. CASE \E k \in Prs : Verify(k)
    BY <1>3, <2>4
  <2> QED  BY <2>2, <2>3, <2>4, WritersAre DEF MoveLocal
<1> QED  BY <1>3, <1>4, WritersAre

(* So a run that has moved its files has in the corpus whatever it publishes. *)
LEMMA MovesNews ==
  ASSUME IInv, FilesTrue, StepTrue, Stocked, MoveLocal, "local" \notin st.done
  PROVE  News(st) \subseteq DOMAIN tables'
<1> SUFFICES ASSUME NEW m \in News(st)
             PROVE  m \in DOMAIN tables'
  OBVIOUS
<1> DEFINE n == st.decided[m].from
<1>1. /\ run \in Runs /\ FileIs(world, verified, run, st)
      /\ n \in run /\ m \in Materials(n, st.pulls[n]) /\ report[n].head = st.pulls[n]
  BY LaterIs DEF MoveLocal, Later
<1>2. m \in PublishedNow[n]
  BY <1>1 DEF PublishedNow, Published, PubOf, Pub
<1> HIDE DEF n
<1>3. n \in Prs /\ st.pulls[n] \in DOMAIN world.heads[n]
  BY <1>1 DEF FileIs, IInv, HeadsAre, Prs
<1>4. st.pulls[n] # 0
  <2>1. DOMAIN world.heads[n] = 1 .. Len(world.heads[n]) /\ Len(world.heads[n]) \in Nat
    BY <1>3, AcceptAssumption DEF IInv, Prs
  <2> QED  BY <1>3, <2>1
<1>5. m \in DOMAIN staged[n] \cup DOMAIN tables
  BY <1>1, <1>3, <1>4 DEF Stocked
<1> QED  BY <1>1, <1>2, <1>5, MovesAll

(* A file that is new is what Prepare records. *)
LEMMA FileBegins ==
  ASSUME IInv, Next, NEW r \in Runs, files[r] = NoFile, files'[r] # NoFile
  PROVE  Prepare /\ r = run
<1>1. Step /\ r = run
  BY FilesWritten
<1>2. CASE ~ Prepare
  <2>1. proc.at \notin {"idle", "prepare"}
    BY <1>1, <1>2 DEF Step, AllMerged, CheckHead, TakeAsMerged, MergePr, MergeRefused,
       CopyPart, CopyFiles, FinishCopy, CommentPr, ClosePr, NothingToRecord, WriteManifest, MoveLocal, DocsDone,
       DocsDirty, DocsEmpty, DocsCommit, DocsPush, DocsOpen, DocsLand, DocsConflict, WriteCard, TellClaim,
       CloseClaims, MergesNext, Does, DocsStep, DocsStarts, Lands
  <2>2. st # NoFile
    BY <2>1, RunIs DEF IInv
  <2> QED  BY <1>1, <2>2 DEF st
<1> QED  BY <1>1, <1>2

(* What Prepare records is of a run that has done nothing yet, once a refusal is out of the
   question. *)
LEMMA PrepareRecords ==
  ASSUME IInv, FilesTrue, StepTrue, Prepare, files' # files
  PROVE  LET p == Prior(run) IN
         /\ run \in Runs /\ Sound(run, p) /\ p = [f \in FileFields |-> p[f]] /\ ~ Refuses(run, p)
         /\ (p = st /\ st # NoFile) \/ (p = Fresh /\ st = NoFile)
         /\ \E s : /\ files'[run] = s /\ s.done = {} /\ s.merged = p.merged /\ s.copied = p.copied
                   /\ s.pulls = Pulls(run, p)
         /\ \A q \in Runs \ {run} : files'[q] = files[q]
<1> DEFINE p == Prior(run)
           k == Known(run, p)
           d == Decided(run, p, proc.release)
<1>1. /\ run \in Runs /\ PriorIs(world, verified, run, p) /\ Sound(run, p)
      /\ (p = st /\ st # NoFile) \/ (p = Fresh /\ st = NoFile)
  BY PriorSound DEF Prepare
<1>2. ~ Refuses(run, p) /\ (Record(k) \/ Record(d))
  BY DEF Prepare, Save, SaveThen
<1> HIDE DEF p
<1>3. p = [f \in FileFields |-> p[f]] /\ p.done = {}
  BY <1>1 DEF PriorIs, Sound
<1>4. /\ k.done = {} /\ k.merged = p.merged /\ k.copied = p.copied /\ k.pulls = Pulls(run, p)
      /\ d.done = {} /\ d.merged = p.merged /\ d.copied = p.copied /\ d.pulls = Pulls(run, p)
  BY <1>3, KnownRecord, DecidedRecord
<1> HIDE DEF k, d
<1>5. \A s : Record(s) => files'[run] = s /\ \A q \in Runs \ {run} : files'[q] = files[q]
  BY <1>1 DEF Record, IInv, FilesAre
<1>6. /\ \E s : /\ files'[run] = s /\ s.done = {} /\ s.merged = p.merged /\ s.copied = p.copied
                /\ s.pulls = Pulls(run, p)
      /\ \A q \in Runs \ {run} : files'[q] = files[q]
  BY <1>2, <1>4, <1>5
<1> QED  BY <1>1, <1>2, <1>3, <1>6 DEF p

(* The corpus goes on having what a run reproduces and what it has moved. *)
LEMMA HereFiles ==
  ASSUME IInv, FilesTrue, StepTrue, Stocked, Here, Next, FilesTrue', NEW r \in Runs, files'[r] # NoFile
  PROVE  HereIs(files[r])'
<1>1. DOMAIN tables \subseteq DOMAIN tables'
  BY CorpusGrows
<1>2. CASE files'[r] = files[r]
  BY <1>1, <1>2 DEF Here, HereIs, News
<1>3. CASE Prepare /\ files'[r] # files[r]
  <2>1. UNCHANGED <<tables, manifest>>
    BY <1>3 DEF Prepare, hub, disk
  <2>2. /\ ~ Refuses(run, Prior(run))
        /\ \E s : files'[run] = s /\ s.done = {}
        /\ r = run
    BY <1>3, PrepareRecords
  <2>3. files'[r].done = {} /\ DOMAIN manifest \subseteq DOMAIN tables
    BY <2>2 DEF Refuses, Incomplete
  <2>4. ASSUME NEW m \in DOMAIN files'[r].decided, files'[r].decided[m].kind = "reproduction"
        PROVE  m \in DOMAIN tables'
    <3>1. UnderWay(r)' /\ CoreTrue(r)'
      BY <2>4 DEF UnderWay, FilesTrue
    <3>2. AgreedOn(r, m)'
      BY <2>4, <3>1 DEF CoreTrue, Agreed
    <3>3. m \in DOMAIN manifest'
      BY <2>4, <3>2 DEF AgreedOn, AgreedIn
    <3> QED  BY <2>1, <2>3, <3>3
  <2> QED  BY <2>3, <2>4 DEF HereIs
<1>4. CASE ~ Prepare /\ files'[r] # files[r]
  <2>1. files[r] # NoFile
    BY <1>4, FileBegins
  <2>2. r = run /\ Follows(files'[r])
    BY <1>4, <2>1, FileFollows
  <2>3. /\ HereIs(files[r]) /\ files[r] = st /\ files'[r].decided = files[r].decided
        /\ "local" \in files'[r].done => "local" \in st.done \/ MoveLocal
    BY <2>1, <2>2 DEF Here, Follows, SameCredits, SamePlan, st
  <2>4. News(files'[r]) = News(st)
    BY <2>3 DEF News
  <2>5. ASSUME "local" \in files'[r].done
        PROVE  News(st) \subseteq DOMAIN tables'
    <3>1. CASE "local" \in st.done
      BY <1>1, <2>3, <3>1 DEF HereIs
    <3>2. CASE MoveLocal /\ "local" \notin st.done
      BY <3>2, MovesNews
    <3> QED  BY <2>3, <2>5, <3>1, <3>2
  <2> QED  BY <1>1, <2>3, <2>4, <2>5 DEF HereIs
<1> QED  BY <1>2, <1>3, <1>4

(* A process comes to the docs by moving the files, and stays past them. *)
LEMMA MovedOn ==
  ASSUME IInv, FilesTrue, StepTrue, Here, Next, proc'.at \in Moved
  PROVE  \A r \in Runs : r = run' => "local" \in files'[r].done
<1>1. CASE UNCHANGED <<files, proc>>
  BY <1>1 DEF Here, run
<1>2. CASE \E r \in Runs, release \in Releases : Start(r, release)
  BY <1>2 DEF Start, Moved
<1>3. CASE proc' = Idle
  BY <1>3, IdleIs DEF Moved
<1>4. CASE /\ Step /\ proc.at # "idle" /\ run \in Runs /\ run' = run
           /\ \A q \in Runs \ {run} : files'[q] = files[q]
  <2>1. CASE proc.at \in Moved
    <3>1. "local" \in st.done
      BY <1>4, <2>1 DEF Here, st
    <3>2. ~ Prepare /\ ~ NothingToRecord /\ ~ CloseClaims
      BY <2>1, IdleIs DEF Moved, Prepare, NothingToRecord, CloseClaims, Over, Crash, Ends
    <3>3. files' = files \/ \E s : Record(s) /\ Follows(s)
      BY <1>4, <3>2, StepRecords
    <3>4. \A s : Record(s) => files'[run] = s
      BY <1>4 DEF Record, IInv, FilesAre
    <3>5. "local" \in files'[run].done
      BY <3>1, <3>3, <3>4 DEF Follows, st
    <3> QED  BY <1>4, <3>5
  <2>2. CASE MoveLocal
    <3>1. CASE "local" \in st.done /\ UNCHANGED files
      BY <1>4, <3>1 DEF st
    <3>2. CASE Save(Done(st, "local"), "docs")
      <4>1. files'[run] = Done(st, "local")
        BY <1>4, <3>2, SavesTo DEF Moved
      <4>2. st = [f \in FileFields |-> st[f]]
        BY <2>2, LaterIs DEF MoveLocal, Later, FileIs
      <4>3. "local" \in files'[run].done
        BY <4>1, <4>2, DoneRecord
      <4> QED  BY <1>4, <4>3
    <3> QED  BY <2>2, <3>1, <3>2 DEF MoveLocal
  <2>3. CASE proc.at \notin Moved /\ ~ MoveLocal
    <3>1. \/ Ends
          \/ \E at \in {"merge", "credits", "local"} : Goes(at)
          \/ \E n : proc' = [proc EXCEPT !.at = "effect", !.pr = n]
          \/ \E at \in {"copy", "copied"} : proc' = [proc EXCEPT !.at = at]
      BY <1>4, <2>3 DEF Step, Moved, Prepare, AllMerged, CheckHead, TakeAsMerged, MergePr, MergeRefused,
         CopyPart, CopyFiles, FinishCopy, CommentPr, ClosePr, NothingToRecord, WriteManifest, DocsDone,
         DocsDirty, DocsEmpty, DocsCommit, DocsPush, DocsOpen, DocsLand, DocsConflict, WriteCard, TellClaim,
         CloseClaims, DocsStep, DocsStarts, Lands, Save, SaveThen, Crash, Over, Ends
    <3>2. proc'.at \notin Moved
      BY <3>1, IdleIs, GoesIs DEF IInv, ProcIs, ProcFields, Moved, Ends
    <3> QED  BY <3>2
  <2> QED  BY <2>1, <2>2, <2>3
<1> QED  BY <1>1, <1>2, <1>3, <1>4, FilesWritten DEF Moved

-----------------------------------------------------------------------------
\* The PRs a run leaves open.

(* A PR is copied and left open, or commented on, for what of it is held. *)
LEMMA LeftForHeld ==
  ASSUME NEW n, NEW ms, NEW decided, NEW own, Action(n, ms, decided, own) \in {"copy_open", "comment"}
  PROVE  Held(ms, decided) # {}
<1> DEFINE pub == Pub(n, ms, decided)
           held == Held(ms, decided)
           rest == Credited(n, ms, decided, own) \cup own
           a == CASE pub # {} /\ held \cup rest = {} -> "merge"
                  [] pub # {} /\ held # {} -> "copy_open"
                  [] pub # {} /\ held = {} /\ rest # {} -> "copy_close"
                  [] pub = {} /\ held # {} -> "comment"
                  [] OTHER -> "close"
<1>1. held \cup Credited(n, ms, decided, own) \cup own = held \cup rest
  OBVIOUS
<1>2. Action(n, ms, decided, own) = a
  BY <1>1 DEF Action
<1> HIDE DEF pub, held, rest
<1>3. SUFFICES ASSUME held = {}
               PROVE  a \notin {"copy_open", "comment"}
  BY <1>2 DEF held
<1>4. CASE pub # {} /\ rest = {}
  <2>1. a = "merge"
    BY <1>3, <1>4
  <2> QED  BY <2>1
<1>5. CASE pub # {} /\ rest # {}
  <2>1. a = "copy_close"
    BY <1>3, <1>5
  <2> QED  BY <2>1
<1>6. CASE pub = {}
  <2>1. a = "close"
    BY <1>3, <1>6
  <2> QED  BY <2>1
<1> QED  BY <1>4, <1>5, <1>6

(* A PR that is dealt with is settled, or left open for what of it is held. *)
LEMMA MergeLeaves ==
  ASSUME IInv, FilesTrue, StepTrue, OpenAre, status = [n \in Prs |-> status[n]],
         TakeAsMerged \/ MergePr \/ FinishCopy \/ CommentPr \/ ClosePr, files' # files
  PROVE  \E n \in run : /\ files'[run].merged = st.merged \cup {n} /\ files'[run].copied = st.copied
                        /\ status'[n] = "open" => HasHeld(st, n)
<1>1. proc.at \in Merging
  BY DEF TakeAsMerged, MergePr, CommentPr, ClosePr, FinishCopy, Does, MergesNext, Merging
<1>2. /\ run \in Runs /\ st # NoFile /\ FileIs(world, verified, run, st) /\ run \subseteq Prs
  BY <1>1, MergingIs DEF Prs
<1>3. PICK n \in run : Record(Merged(st, n)) /\ (status'[n] = "open" => HasHeld(st, n))
  <2>1. CASE TakeAsMerged
    <3>1. NextPr \in run /\ NextPr \in st.hand /\ status' = status
      BY <1>1, <2>1, NextIs DEF TakeAsMerged, IInv, hub
    <3>2. status'[NextPr] # "open"
      BY <1>1, <3>1, MergingIs DEF Settled
    <3> QED  BY <2>1, <3>1, <3>2 DEF TakeAsMerged, Save, SaveThen
  <2>2. CASE MergePr \/ ClosePr
    <3>1. proc.pr \in run /\ \E x \in {"merged", "closed"} : status' = [status EXCEPT ![proc.pr] = x]
      BY <2>2 DEF MergePr, ClosePr, Closed, Does, IInv, ProcIs
    <3>2. status'[proc.pr] # "open"
      BY <1>2, <3>1
    <3> QED  BY <2>2, <3>1, <3>2 DEF MergePr, ClosePr, Save, SaveThen
  <2>3. CASE CommentPr
    <3>1. proc.pr \in run /\ ActionOf(st, proc.pr) = "comment"
      BY <2>3 DEF CommentPr, Does, IInv, ProcIs
    <3>2. HasHeld(st, proc.pr)
      BY <3>1, LeftForHeld DEF ActionOf, HasHeld
    <3> QED  BY <2>3, <3>1, <3>2 DEF CommentPr, Save, SaveThen
  <2>4. CASE FinishCopy
    <3> DEFINE k == IF proc.at = "copied" THEN proc.pr ELSE NextPr
    <3>1. /\ Save(Merged(st, k), "merge")
          /\ status' = [status EXCEPT ![k] = IF st.copied[k] /\ @ = "open" THEN "closed" ELSE @]
      BY <2>4 DEF FinishCopy
    <3>2. k \in run /\ k \in DOMAIN st.copied
      BY <2>4, NextIs DEF FinishCopy, IInv, ProcIs, StepTrue
    <3> HIDE DEF k
    <3>3. ASSUME status'[k] = "open"
          PROVE  HasHeld(st, k)
      <4>1. ~ st.copied[k]
        BY <1>2, <3>1, <3>2, <3>3
      <4>2. OpenIs(run, st)
        BY <1>2 DEF OpenAre, st
      <4>3. (k \in DOMAIN st.copied /\ ~ st.copied[k]) => HasHeld(st, k)
        BY <3>2, <4>2 DEF OpenIs
      <4> QED  BY <3>2, <4>1, <4>3
    <3> QED  BY <3>1, <3>2, <3>3 DEF Save, SaveThen
  <2> QED  BY <2>1, <2>2, <2>3, <2>4
<1>4. files'[run] = Merged(st, n)
  BY <1>2, <1>3 DEF Record, IInv, FilesAre
<1>5. st = [f \in FileFields |-> st[f]]
  BY <1>2 DEF FileIs
<1> QED  BY <1>3, <1>4, <1>5, MergedRecord

(* A copy is not closed for what of it is held. *)
LEMMA CopyLeaves ==
  ASSUME IInv, CopyFiles, files' # files
  PROVE  /\ files'[run].merged = st.merged
         /\ \A n \in DOMAIN files'[run].copied :
              ~ files'[run].copied[n] => (n \in DOMAIN st.copied /\ ~ st.copied[n]) \/ HasHeld(st, n)
<1> DEFINE e == [n \in {proc.pr} |-> ActionOf(st, n) # "copy_open"]
           c == Overwrite(st.copied, e)
           s == [st EXCEPT !.copied = c]
<1>1. Record(s) /\ proc.at = "copy"
  BY DEF CopyFiles, SaveThen
<1>2. run \in Runs /\ st = [f \in FileFields |-> st[f]]
  BY <1>1, RunIs DEF IInv, FileIs
<1>3. /\ DOMAIN c = DOMAIN st.copied \cup {proc.pr}
      /\ \A n \in DOMAIN c : c[n] = IF n = proc.pr THEN e[n] ELSE st.copied[n]
  BY DEF Overwrite
<1>4. ~ e[proc.pr] => HasHeld(st, proc.pr)
  <2>1. e[proc.pr] = (ActionOf(st, proc.pr) # "copy_open")
    OBVIOUS
  <2>2. ActionOf(st, proc.pr) = "copy_open" => HasHeld(st, proc.pr)
    BY LeftForHeld DEF ActionOf, HasHeld
  <2> HIDE DEF e
  <2> QED  BY <2>1, <2>2
<1> HIDE DEF c, e
<1>5. s.merged = st.merged /\ s.copied = c
  BY <1>2 DEF FileFields
<1> HIDE DEF s
<1>6. files'[run] = s
  BY <1>1, <1>2 DEF Record, IInv, FilesAre
<1> QED  BY <1>3, <1>4, <1>5, <1>6

(* What is held of a PR stays so while it is brought and decided on as it was. *)
LEMMA HeldSame ==
  ASSUME NEW r \in Runs, NEW s, NEW n, world' = world, files'[r].pulls[n] = s.pulls[n],
         files'[r].decided = s.decided
  PROVE  HasHeld(files[r], n)' <=> HasHeld(s, n)
BY DEF HasHeld, Materials, Delivery

(* What Prepare decides anew is of no PR that is dealt with. *)
LEMMA PrepareLeaves ==
  ASSUME IInv, FilesTrue, StepTrue, OpenAre, KeepsDecisions, Prepare, files' # files,
         NEW r \in Runs, r = run, files'[r] # NoFile, NEW n \in r,
         n \in files'[r].merged \/ n \in DOMAIN files'[r].copied
  PROVE  /\ files[r] # NoFile /\ files'[r].merged = files[r].merged /\ files'[r].copied = files[r].copied
         /\ HasHeld(files[r], n) => HasHeld(files[r], n)'
<1> DEFINE p == Prior(run)
<1>1. /\ Sound(run, p) /\ ((p = st /\ st # NoFile) \/ (p = Fresh /\ st = NoFile))
      /\ \E s : /\ files'[run] = s /\ s.done = {} /\ s.merged = p.merged /\ s.copied = p.copied
                /\ s.pulls = Pulls(run, p)
  BY PrepareRecords
<1> HIDE DEF p
<1>2. PICK s : files'[run] = s /\ s.merged = p.merged /\ s.copied = p.copied /\ s.pulls = Pulls(run, p)
  BY <1>1
<1>3. n \in s.merged \/ n \in DOMAIN s.copied
  BY <1>2
<1>4. p = st /\ st # NoFile /\ files[r] = st
  <2>1. Fresh.merged = {} /\ DOMAIN Fresh.copied = {}
    BY DEF Fresh, Empty
  <2> QED  BY <1>1, <1>2, <1>3, <2>1 DEF st
<1>5. files'[r].merged = files[r].merged /\ files'[r].copied = files[r].copied
  BY <1>2, <1>4
<1>6. ASSUME HasHeld(files[r], n)
      PROVE  HasHeld(files[r], n)'
  <2>1. Materials(n, st.pulls[n]) # {}
    BY <1>4, <1>6 DEF HasHeld, Held
  <2>2. n \notin ToDo(run, st)
    BY <1>2, <1>3, <1>4 DEF ToDo
  <2>3. DOMAIN st.decided # {}
    BY <1>1, <1>4, <2>1, <2>2 DEF Sound, SoundDealt
  <2>4. UnderWay(r) /\ Begun(r)
    BY <1>2, <1>3, <1>4, <2>3 DEF UnderWay, Begun
  <2>5. files'[r].decided = st.decided
    BY <1>4, <2>4 DEF KeepsDecisions
  <2>6. files'[r].pulls[n] = st.pulls[n]
    BY <1>2, <1>4, <2>2 DEF Pulls
  <2>7. world' = world
    BY DEF Prepare
  <2> QED  BY <1>4, <1>6, <2>5, <2>6, <2>7, HeldSame
<1> QED  BY <1>4, <1>5, <1>6

(* The PRs a run leaves open it goes on to leave for what of them is held. *)
LEMMA OpenFiles ==
  ASSUME IInv, FilesTrue, StepTrue, OpenAre, MergedAre, KeepsDecisions, Next, NEW r \in Runs, files'[r] # NoFile
  PROVE  OpenIs(r, files[r])'
<1>1. world' = world /\ status = [n \in Prs |-> status[n]] /\ r \subseteq Prs
  BY WritersAre DEF MergedAre, Prs
<1>2. \A n \in r : status'[n] = "open" => status[n] = "open"
  BY <1>1, SettledStays
<1>3. CASE files'[r] = files[r]
  <2>1. OpenIs(r, files[r])
    BY <1>3 DEF OpenAre
  <2>2. \A n \in r : HasHeld(files[r], n)' <=> HasHeld(files[r], n)
    BY <1>1, <1>3, HeldSame
  <2> QED  BY <1>2, <1>3, <2>1, <2>2 DEF OpenIs
<1>4. CASE Prepare /\ files'[r] # files[r]
  <2>1. r = run
    BY <1>4, PrepareRecords
  <2> SUFFICES ASSUME NEW n \in r
               PROVE  /\ (n \in files'[r].merged /\ status'[n] = "open") => HasHeld(files[r], n)'
                      /\ (n \in DOMAIN files'[r].copied /\ ~ files'[r].copied[n]) => HasHeld(files[r], n)'
    BY DEF OpenIs
  <2>2. CASE n \in files'[r].merged \/ n \in DOMAIN files'[r].copied
    <3>1. /\ files[r] # NoFile /\ files'[r].merged = files[r].merged /\ files'[r].copied = files[r].copied
          /\ HasHeld(files[r], n) => HasHeld(files[r], n)'
      BY <1>4, <2>1, <2>2, PrepareLeaves
    <3>2. OpenIs(r, files[r])
      BY <3>1 DEF OpenAre
    <3>3. /\ (n \in files[r].merged /\ status[n] = "open") => HasHeld(files[r], n)
          /\ (n \in DOMAIN files[r].copied /\ ~ files[r].copied[n]) => HasHeld(files[r], n)
      BY <3>2 DEF OpenIs
    <3> QED  BY <1>2, <3>1, <3>3
  <2> QED  BY <2>2
<1>5. CASE ~ Prepare /\ files'[r] # files[r]
  <2>1. files[r] # NoFile
    BY <1>5, FileBegins
  <2>2. Step /\ r = run /\ Follows(files'[r])
    BY <1>5, <2>1, FileFollows
  <2>3. /\ OpenIs(r, files[r]) /\ files[r] = st /\ files'[r].decided = st.decided /\ files'[r].pulls = st.pulls
        /\ files' # files
    BY <1>5, <2>1, <2>2 DEF OpenAre, Follows, SameCredits, SamePlan, st
  <2>4. \A n \in r : HasHeld(files[r], n)' <=> HasHeld(st, n)
    BY <1>1, <2>3, HeldSame
  <2>5. CASE SameMerge(st, files'[r])
    BY <1>2, <2>3, <2>4, <2>5 DEF OpenIs, SameMerge
  <2>6. CASE TakeAsMerged \/ MergePr \/ FinishCopy \/ CommentPr \/ ClosePr
    <3>1. PICK k \in run : /\ files'[run].merged = st.merged \cup {k} /\ files'[run].copied = st.copied
                           /\ status'[k] = "open" => HasHeld(st, k)
      BY <1>1, <2>3, <2>6, MergeLeaves
    <3> QED  BY <1>2, <2>2, <2>3, <2>4, <3>1 DEF OpenIs
  <2>7. CASE CopyFiles
    <3>1. /\ files'[run].merged = st.merged
          /\ \A n \in DOMAIN files'[run].copied :
               ~ files'[run].copied[n] => (n \in DOMAIN st.copied /\ ~ st.copied[n]) \/ HasHeld(st, n)
      BY <2>3, <2>7, CopyLeaves
    <3> QED  BY <1>2, <2>2, <2>3, <2>4, <3>1 DEF OpenIs
  <2> QED  BY <2>2, <2>5, <2>6, <2>7 DEF Follows
<1> QED  BY <1>3, <1>4, <1>5

-----------------------------------------------------------------------------
\* Every table of a registry has a producer.

(* A finite set has a finite image. *)
LEMMA FiniteImage ==
  ASSUME NEW S, IsFiniteSet(S), NEW f, f = [x \in S |-> f[x]]
  PROVE  IsFiniteSet({f[x] : x \in S})
<1> DEFINE T == {f[x] : x \in S}
<1>1. PICK seq \in Seq(S) : \A s \in S : \E n \in 1 .. Len(seq) : seq[n] = s
  BY DEF IsFiniteSet
<1> DEFINE im == [i \in 1 .. Len(seq) |-> f[seq[i]]]
<1>2. Len(seq) \in Nat /\ \A i \in 1 .. Len(seq) : seq[i] \in S
  OBVIOUS
<1>3. im \in Seq(T) /\ Len(im) = Len(seq)
  BY <1>2
<1>4. \A n \in 1 .. Len(seq) : im[n] = f[seq[n]]
  OBVIOUS
<1> HIDE DEF im
<1>5. \A t \in T : \E n \in 1 .. Len(im) : im[n] = t
  BY <1>1, <1>3, <1>4
<1> HIDE DEF T
<1>6. IsFiniteSet(T)
  BY <1>3, <1>5 DEF IsFiniteSet
<1> QED  BY <1>6 DEF T

(* Finitely many PRs with finitely many materials are finitely many credits. *)
LEMMA FiniteCredits ==
  ASSUME NEW prs, IsFiniteSet(prs), NEW who, NEW recorded, \A n \in prs : IsFiniteSet(recorded[n])
  PROVE  IsFiniteSet(CreditsOf(prs, who, recorded)) /\ IsFiniteSet(UNION {recorded[n] : n \in prs})
<1> DEFINE c(n) == {<<m, who[n].key, n>> : m \in recorded[n]}
           g == [n \in prs |-> c(n)]
           h == [n \in prs |-> recorded[n]]
<1>1. ASSUME NEW n \in prs
      PROVE  IsFiniteSet(c(n))
  <2> DEFINE f == [m \in recorded[n] |-> <<m, who[n].key, n>>]
  <2>1. f = [m \in recorded[n] |-> f[m]] /\ {f[m] : m \in recorded[n]} = c(n)
    OBVIOUS
  <2> HIDE DEF f
  <2>2. IsFiniteSet({f[m] : m \in recorded[n]})
    BY <2>1, FiniteImage
  <2> QED  BY <2>1, <2>2
<1>2. /\ g = [n \in prs |-> g[n]] /\ \A n \in prs : g[n] = c(n)
      /\ h = [n \in prs |-> h[n]] /\ \A n \in prs : h[n] = recorded[n]
  OBVIOUS
<1>3. {c(n) : n \in prs} = {g[n] : n \in prs} /\ {recorded[n] : n \in prs} = {h[n] : n \in prs}
  OBVIOUS
<1>4. CreditsOf(prs, who, recorded) = UNION {g[n] : n \in prs}
  BY <1>3 DEF CreditsOf
<1> HIDE DEF c, g, h
<1>5. IsFiniteSet({g[n] : n \in prs}) /\ IsFiniteSet({h[n] : n \in prs})
  BY <1>2, FiniteImage
<1>6. \A T \in {g[n] : n \in prs} : IsFiniteSet(T)
  BY <1>1, <1>2
<1>7. \A T \in {h[n] : n \in prs} : IsFiniteSet(T)
  BY <1>2
<1>8. IsFiniteSet(UNION {g[n] : n \in prs})
  BY <1>5, <1>6, FS_UNION
<1>9. IsFiniteSet(UNION {h[n] : n \in prs})
  BY <1>5, <1>7, FS_UNION
<1> QED  BY <1>3, <1>4, <1>8, <1>9

(* A run that credits whatever it publishes leaves no table without a producer. *)
LEMMA CreditWhole ==
  ASSUME NEW reg, Whole(reg), NEW prs, IsFiniteSet(prs), NEW who, NEW published, NEW recorded,
         \A n \in prs : IsFiniteSet(recorded[n]), \A n \in prs : published[n] \subseteq recorded[n]
  PROVE  Whole(Credit(reg, prs, who, published, recorded))
<1> DEFINE c == Credit(reg, prs, who, published, recorded)
           theirs == Unknown(reg, prs, published, recorded)
           own == {<<m, Maintainer, NoPr>> : m \in theirs}
           f == [m \in theirs |-> <<m, Maintainer, NoPr>>]
<1>1. /\ c.from \subseteq reg.from \cup FilesOf(prs, published) \cup theirs \X {NoPr}
      /\ c.by = reg.by \cup CreditsOf(prs, who, recorded) \cup own
  BY DEF Credit
<1>2. theirs \subseteq UNION {recorded[n] : n \in prs}
  BY DEF Unknown
<1>3. IsFiniteSet(CreditsOf(prs, who, recorded)) /\ IsFiniteSet(UNION {recorded[n] : n \in prs})
  BY FiniteCredits
<1>4. f = [m \in theirs |-> f[m]] /\ own = {f[m] : m \in theirs}
  OBVIOUS
<1>5. \A m \in theirs : <<m, Maintainer, NoPr>> \in own
  OBVIOUS
<1> HIDE DEF c, theirs, own, f
<1>6. IsFiniteSet(theirs)
  BY <1>2, <1>3, FS_Subset
<1>7. IsFiniteSet(own)
  BY <1>4, <1>6, FiniteImage
<1>8. IsFiniteSet(c.by)
  <2>1. IsFiniteSet(reg.by \cup CreditsOf(prs, who, recorded))
    BY <1>3, FS_Union DEF Whole
  <2>2. IsFiniteSet((reg.by \cup CreditsOf(prs, who, recorded)) \cup own)
    BY <1>7, <2>1, FS_Union
  <2> QED  BY <1>1, <2>2
<1>9. ASSUME NEW x \in c.from
      PROVE  \E g \in c.by : g[1] = x[1]
  <2>1. CASE x \in reg.from
    BY <1>1, <2>1 DEF Whole, Tables
  <2>2. CASE x \in FilesOf(prs, published)
    <3>1. PICK n \in prs : x \in published[n] \X {n}
      BY <2>2 DEF FilesOf
    <3>2. x[1] \in recorded[n]
      BY <3>1
    <3>3. <<x[1], who[n].key, n>> \in CreditsOf(prs, who, recorded)
      BY <3>2 DEF CreditsOf
    <3> QED  BY <1>1, <3>3
  <2>3. CASE x \in theirs \X {NoPr}
    <3>1. <<x[1], Maintainer, NoPr>> \in own
      BY <1>5, <2>3
    <3> QED  BY <1>1, <3>1
  <2> QED  BY <1>1, <2>1, <2>2, <2>3
<1>10. Tables(c) \subseteq {g[1] : g \in c.by}
  BY <1>9 DEF Tables
<1> QED  BY <1>8, <1>10 DEF Whole, c

(* git joins the credits of both sides, if neither took one of the base away. *)
LEMMA ThreeWayJoins ==
  ASSUME NEW base, NEW reg, NEW other, base.by \subseteq reg.by, base.by \subseteq other.by
  PROVE  /\ ThreeWay(base, reg, other).by = reg.by \cup other.by
         /\ Whole(reg) /\ Whole(other) => Whole(ThreeWay(base, reg, other))
<1> DEFINE t == ThreeWay(base, reg, other)
<1>1. /\ t.from \subseteq reg.from \cup other.from
      /\ t.by = (reg.by \ (base.by \ other.by)) \cup (other.by \ base.by)
  BY DEF ThreeWay
<1> HIDE DEF t
<1>2. t.by = reg.by \cup other.by
  BY <1>1
<1>3. ASSUME Whole(reg), Whole(other)
      PROVE  Whole(t)
  <2>1. IsFiniteSet(reg.by \cup other.by)
    BY <1>3, FS_Union DEF Whole
  <2>2. Tables(t) \subseteq Tables(reg) \cup Tables(other)
    BY <1>1 DEF Tables
  <2> QED  BY <1>2, <1>3, <2>1, <2>2 DEF Whole
<1> QED  BY <1>2, <1>3 DEF t

(* What a run publishes it records. *)
LEMMA RecordsPublished ==
  ASSUME IInv, FilesTrue, StepTrue, proc.at \in Later
  PROVE  \A n \in run : PubOf(st, n) \subseteq RecordedOf(run, st)[n]
<1>1. /\ run \in Runs /\ st # NoFile /\ FileIs(world, verified, run, st) /\ "merge" \in st.done
  BY LaterIs
<1>2. PICK q \in Runs : q = run
  BY <1>1
<1>3. CoreTrue(q) /\ StageOf(q) /\ files[q] = st
  BY <1>1, <1>2 DEF FilesTrue, st
<1>4. st.pulls = st.heads.pulls /\ DOMAIN st.decided = Brought(world, st.pulls) /\ DOMAIN st.pulls = run
  BY <1>1, <1>3 DEF StageOf, FileIs
<1> SUFFICES ASSUME NEW n \in run, NEW m \in PubOf(st, n)
             PROVE  m \in RecordedOf(run, st)[n]
  OBVIOUS
<1>5. m \in Materials(n, st.pulls[n]) /\ st.decided[m].from = n /\ n # NoPr
  BY <1>1, AcceptAssumption DEF PubOf, Pub
<1>6. m \in DOMAIN st.decided
  BY <1>4, <1>5 DEF Brought, Materials, Delivery
<1>7. m \in News(st)
  BY <1>5, <1>6 DEF News
<1>8. AgreedOn(q, m) /\ m \notin st.own[n]
  BY <1>1, <1>2, <1>3, <1>5, <1>6, <1>7 DEF CoreTrue, Agreed, UnderWay
<1>9. st.decided[m].kind = "new"
  BY <1>2, <1>3, <1>5, <1>8 DEF AgreedOn, AgreedIn
<1> QED  BY <1>5, <1>8, <1>9 DEF RecordedOf, Recorded

(* So the registry a run commits has a producer of every table of it. *)
LEMMA AfterWhole ==
  ASSUME IInv, AllFinite, FilesTrue, StepTrue, proc.at \in Later, Whole(registry)
  PROVE  Whole(After)
<1> DEFINE p == Published(run, st)  c == RecordedOf(run, st)
<1>1. run \in Runs /\ FileIs(world, verified, run, st)
  BY LaterIs
<1>2. IsFiniteSet(run)
  BY <1>1 DEF AllFinite
<1>3. ASSUME NEW n \in run
      PROVE  IsFiniteSet(c[n]) /\ p[n] \subseteq c[n]
  <2>1. n \in Prs /\ st.pulls[n] \in DOMAIN world.heads[n] /\ world \in Worlds
    BY <1>1 DEF FileIs, IInv, HeadsAre, Prs
  <2>2. IsFiniteSet(Materials(n, st.pulls[n]))
    BY <2>1 DEF AllFinite, Materials, Delivery, Prs
  <2>3. c[n] \subseteq Materials(n, st.pulls[n])
    BY DEF RecordedOf, Recorded
  <2>4. p[n] = PubOf(st, n)
    BY DEF Published
  <2> HIDE DEF p, c
  <2>5. IsFiniteSet(c[n])
    BY <2>2, <2>3, FS_Subset
  <2>6. PubOf(st, n) \subseteq c[n]
    BY RecordsPublished DEF c
  <2> QED  BY <2>4, <2>5, <2>6
<1> HIDE DEF p, c
<1>4. Whole(Credit(registry, run, st.who, p, c))
  BY <1>2, <1>3, CreditWhole
<1> QED  BY <1>4 DEF After, Credited2, p, c

(* What origin/main becomes when a docs PR is merged. *)
LEMMA LandsWhole ==
  ASSUME IInv, WholeAre, NEW r \in Runs,
         registry' = ThreeWay(docs[r].pushed.base, registry, docs[r].pushed.registry)
  PROVE  registry'.by = registry.by \cup docs[r].pushed.registry.by /\ Whole(registry')
<1>1. Behind(docs[r].pushed) /\ Whole(registry) /\ Keeps(docs[r].pushed)
  BY DEF WholeAre, IInv, DocsAre
<1> QED  BY <1>1, ThreeWayJoins DEF Behind, Keeps

(* The registry loses no credit and goes on having a producer of every table. *)
LEMMA RegistryWhole ==
  ASSUME IInv, FilesTrue, StepTrue, WholeAre, Next
  PROVE  Whole(registry') /\ registry.by \subseteq registry'.by
<1>1. CASE registry' = registry
  BY <1>1 DEF WholeAre
<1>2. ASSUME NEW r \in Runs,
             registry' = ThreeWay(docs[r].pushed.base, registry, docs[r].pushed.registry)
      PROVE  Whole(registry') /\ registry.by \subseteq registry'.by
  BY <1>2, LandsWhole
<1>3. CASE DocsLand
  <2>1. proc.at = "docs" /\ (Landed \/ registry' = registry)
    BY <1>3 DEF DocsLand, Lands, DocsStep
  <2>2. run \in Runs
    BY <2>1, LaterIs DEF Later
  <2> QED  BY <1>1, <1>2, <2>1, <2>2 DEF Landed
<1>4. CASE \E r \in Runs : ResolveDocs(r)
  BY <1>2, <1>4 DEF ResolveDocs
<1> QED  BY <1>1, <1>3, <1>4, WritersAre

(* So do the branches, which start from what it has. *)
LEMMA WholeOn ==
  ASSUME IInv, AllFinite, FilesTrue, StepTrue, WholeAre, Next
  PROVE  WholeAre'
<1>1. Whole(registry') /\ registry.by \subseteq registry'.by
  BY RegistryWhole
<1>2. /\ Whole(registry) /\ \A b \in DOMAIN local : Behind(local[b])
      /\ \A r \in Runs : Behind(docs[r].pushed)
  BY DEF WholeAre
<1>3. \A b \in DOMAIN local' : Behind(local'[b])
  <2>1. CASE local' = local
    BY <1>2, <2>1
  <2>2. ASSUME NEW reg, Whole(reg), OnBranch(reg)
        PROVE  \A b \in DOMAIN local' : Behind(local'[b])
    <3>1. Behind(AtRev(reg, registry, rev))
      BY <2>2 DEF Behind, AtRev
    <3> QED  BY <1>2, <2>2, <3>1 DEF OnBranch, Overwrite
  <2>3. CASE DocsEmpty
    <3>1. OnBranch(registry)
      BY <2>3 DEF DocsEmpty
    <3> QED  BY <1>2, <2>2, <3>1
  <2>4. CASE DocsCommit
    <3>1. proc.at \in Later /\ OnBranch(After)
      BY <2>4 DEF DocsCommit, DocsStarts, DocsStep, Later
    <3>2. Whole(After)
      BY <1>2, <3>1, AfterWhole
    <3> QED  BY <2>2, <3>1, <3>2
  <2>5. CASE DocsLand
    <3>1. local' = Only(local, DOMAIN local \ {run})
      BY <2>5 DEF DocsLand
    <3> QED  BY <1>2, <3>1 DEF Only
  <2>6. CASE Pull
    <3>1. local' = [local EXCEPT ![Main].registry = registry]
      BY <2>6 DEF Pull
    <3>2. Main \in DOMAIN local /\ local[Main] = [f \in BranchFields |-> local[Main][f]]
      BY DEF IInv, Branches, Keeps
    <3>3. DOMAIN local' = DOMAIN local /\ local'[Main].registry = registry
          /\ local'[Main].base = local[Main].base
          /\ \A b \in DOMAIN local \ {Main} : local'[b] = local[b]
      BY <3>1, <3>2 DEF BranchFields
    <3>4. Behind(local'[Main])
      BY <1>2, <3>2, <3>3 DEF Behind
    <3> QED  BY <1>2, <3>3, <3>4
  <2> QED  BY <2>1, <2>3, <2>4, <2>5, <2>6, WritersAre
<1>4. \A r \in Runs : Behind(docs'[r].pushed)
  <2>1. ASSUME \A r \in Runs : docs'[r].pushed = docs[r].pushed
        PROVE  \A r \in Runs : Behind(docs'[r].pushed)
    BY <1>2, <2>1
  <2>2. ASSUME NEW r \in Runs, NEW x, docs' = [docs EXCEPT ![r].status = x]
        PROVE  \A q \in Runs : docs'[q].pushed = docs[q].pushed
    BY <2>2 DEF IInv, DocsAre
  <2>3. proc.at \in {"credits"} \cup Later => run \in Runs
    BY LaterIs
  <2>4. CASE DocsPush
    <3>1. /\ proc.at = "docs" /\ st.sub = {"committed"}
          /\ docs' = [docs EXCEPT ![run].pushed = local[run]]
      BY <2>4 DEF DocsPush, DocsStep
    <3>2. run \in Runs /\ st # NoFile
      BY <3>1, LaterIs DEF Later
    <3>3. run \in DOMAIN local
      BY <3>1, <3>2 DEF IInv, Pushable, st
    <3>4. \A r \in Runs : docs'[r].pushed = IF r = run THEN local[run] ELSE docs[r].pushed
      BY <3>1, <3>2 DEF IInv, DocsAre
    <3> QED  BY <1>2, <3>3, <3>4
  <2>5. CASE DocsOpen \/ DocsLand \/ DocsConflict
    <3>1. proc.at \in Later /\ (docs' = docs \/ \E x : docs' = [docs EXCEPT ![run].status = x])
      BY <2>5 DEF DocsOpen, DocsLand, DocsConflict, Lands, DocsStep, Later
    <3> QED  BY <2>1, <2>2, <2>3, <3>1
  <2>6. CASE \E r \in Runs : ResolveDocs(r) \/ CloseDocs(r)
    <3>1. PICK r \in Runs : \E x : docs' = [docs EXCEPT ![r].status = x]
      BY <2>6 DEF ResolveDocs, CloseDocs
    <3> QED  BY <2>1, <2>2, <3>1
  <2> QED  BY <2>1, <2>4, <2>5, <2>6, WritersAre
<1> QED  BY <1>1, <1>3, <1>4 DEF WholeAre, Behind, Whole, Tables

-----------------------------------------------------------------------------
\* Whom a run credits, on its way to origin/main.

(* A run owes the same credits as long as it records and decides the same. *)
LEMMA OwedSame ==
  ASSUME NEW r \in Runs, NEW s, world' = world, SameCredits(s, files'[r])
  PROVE  Owed(r, files[r])' = Owed(r, s)
BY DEF Owed, CreditsOf, RecordedOf, Recorded, Materials, Delivery, SameCredits, SamePlan

(* What is committed stays until it is pushed. *)
LEMMA CommittedStays ==
  ASSUME IInv, FilesTrue, StepTrue, Next, NEW r \in Runs, files[r] # NoFile, files[r].sub = {"committed"}
  PROVE  local'[r] = local[r]
<1>1. r \in DOMAIN local /\ r # Main
  BY AcceptAssumption DEF IInv, Pushable, Main
<1>2. "committed" \in files[r].sub /\ "pushed" \notin files[r].sub
  OBVIOUS
<1>3. InOrder(files[r].docsPr, files[r].sub)
  BY DEF IInv, FilesAre, FileIs
<1>4. CASE DocsEmpty \/ DocsCommit
  <2>1. "committed" \notin st.sub /\ (OnBranch(registry) \/ OnBranch(After))
    BY <1>4 DEF DocsEmpty, DocsCommit, DocsStarts
  <2>2. r # run
    BY <1>2, <2>1 DEF st
  <2> QED  BY <1>1, <2>1, <2>2 DEF OnBranch, Overwrite
<1>5. CASE DocsLand
  <2>1. st.docsPr /\ local' = Only(local, DOMAIN local \ {run})
    BY <1>5 DEF DocsLand, Lands
  <2>2. r # run
    BY <1>2, <1>3, <2>1 DEF st, InOrder
  <2> QED  BY <1>1, <2>1, <2>2 DEF Only
<1>6. CASE Pull
  BY <1>1, <1>6 DEF Pull
<1> QED  BY <1>4, <1>5, <1>6, WritersAre

(* What becomes of a docs PR. *)
LEMMA DocsBecome ==
  ASSUME IInv, FilesTrue, StepTrue, WholeAre, Next, NEW r \in Runs
  PROVE  /\ docs'[r].pushed = docs[r].pushed \/ (DocsPush /\ r = run)
         /\ docs'[r].status = "open" => docs[r].status = "open" \/ (DocsOpen /\ r = run)
         /\ docs'[r].status = "merged" =>
              \/ docs[r].status = "merged"
              \/ docs[r].status = "open" /\ registry'.by = registry.by \cup docs[r].pushed.registry.by
<1>1. ASSUME NEW q \in Runs, NEW x, docs' = [docs EXCEPT ![q].status = x]
      PROVE  /\ docs'[r].pushed = docs[r].pushed
             /\ docs'[r].status = IF r = q THEN x ELSE docs[r].status
  BY <1>1 DEF IInv, DocsAre
<1>2. proc.at \in {"credits"} \cup Later => run \in Runs
  BY LaterIs
<1>3. CASE DocsPush
  <2>1. /\ proc.at = "docs" /\ docs' = [docs EXCEPT ![run].pushed = local[run]]
    BY <1>3 DEF DocsPush, DocsStep
  <2>2. docs'[r].status = docs[r].status /\ (r # run => docs'[r] = docs[r])
    BY <2>1 DEF IInv, DocsAre
  <2> QED  BY <1>3, <2>2
<1>4. CASE DocsOpen
  <2>1. proc.at \in Later /\ docs' = [docs EXCEPT ![run].status = "open"]
    BY <1>4 DEF DocsOpen, DocsStep, Later
  <2> QED  BY <1>1, <1>2, <1>4, <2>1
<1>5. CASE DocsLand
  <2>1. /\ proc.at \in Later /\ docs' = [docs EXCEPT ![run].status = "merged"]
        /\ docs[run].status \in {"open", "merged"} /\ (docs[run].status = "open" => Landed)
    BY <1>5 DEF DocsLand, Lands, DocsStep, Later
  <2>2. PICK q \in Runs : q = run
    BY <1>2, <2>1
  <2>3. docs[q].status = "open" => registry'.by = registry.by \cup docs[q].pushed.registry.by
    BY <2>1, <2>2, LandsWhole DEF Landed
  <2> QED  BY <1>1, <2>1, <2>2, <2>3
<1>6. CASE DocsConflict
  <2>1. proc.at \in Later /\ (docs' = docs \/ docs' = [docs EXCEPT ![run].status = "closed"])
    BY <1>6 DEF DocsConflict, Lands, DocsStep, Later
  <2> QED  BY <1>1, <1>2, <2>1
<1>7. ASSUME NEW q \in Runs, ResolveDocs(q)
      PROVE  docs'[r].pushed = docs[r].pushed /\ (r # q => docs'[r] = docs[r])
             /\ docs[q].status = "open" /\ docs'[q].status = "merged"
             /\ registry'.by = registry.by \cup docs[q].pushed.registry.by
  <2>1. /\ docs[q].status = "open" /\ docs' = [docs EXCEPT ![q].status = "merged"]
        /\ registry' = ThreeWay(docs[q].pushed.base, registry, docs[q].pushed.registry)
    BY <1>7 DEF ResolveDocs
  <2>2. registry'.by = registry.by \cup docs[q].pushed.registry.by
    BY <2>1, LandsWhole
  <2> QED  BY <2>1, <2>2 DEF IInv, DocsAre
<1>8. CASE \E q \in Runs : ResolveDocs(q)
  BY <1>7, <1>8
<1>9. CASE \E q \in Runs : CloseDocs(q)
  BY <1>1, <1>9 DEF CloseDocs
<1> QED  BY <1>3, <1>4, <1>5, <1>6, <1>8, <1>9, WritersAre

(* A run goes on having its credits where they are, while it records nothing of its docs. *)
LEMMA OwedStays ==
  ASSUME IInv, FilesTrue, StepTrue, WholeAre, OwedAre, Next, NEW r \in Runs, files[r] # NoFile,
         SameCredits(files[r], files'[r]), files'[r].sub = files[r].sub, files'[r].docsPr = files[r].docsPr,
         "docs" \in files'[r].done => "docs" \in files[r].done
  PROVE  OwedOf(r, files[r])'
<1>1. world' = world
  BY WritersAre
<1>2. Owed(r, files[r])' = Owed(r, files[r])
  BY <1>1, OwedSame
<1>3. registry.by \subseteq registry'.by
  BY RegistryWhole
<1>4. OwedOf(r, files[r]) /\ InOrder(files[r].docsPr, files[r].sub)
  BY DEF OwedAre, IInv, FilesAre, FileIs
<1>5. files[r].sub = {"committed"} => local'[r] = local[r]
  BY CommittedStays
<1>6. /\ docs'[r].pushed = docs[r].pushed \/ (DocsPush /\ r = run)
      /\ docs'[r].status = "open" => docs[r].status = "open" \/ (DocsOpen /\ r = run)
      /\ docs'[r].status = "merged" =>
           \/ docs[r].status = "merged"
           \/ docs[r].status = "open" /\ registry'.by = registry.by \cup docs[r].pushed.registry.by
  BY DocsBecome
<1>7. DocsPush /\ r = run => "pushed" \notin files[r].sub
  BY DEF DocsPush, st
<1>8. DocsOpen /\ r = run => ~ files[r].docsPr
  BY DEF DocsOpen, st
<1> QED  BY <1>2, <1>3, <1>4, <1>5, <1>6, <1>7, <1>8 DEF OwedOf, InOrder

(* What a run credits is in the registry it commits, which has what origin/main had. *)
LEMMA AfterOwes ==
  Owed(run, st) \subseteq After.by /\ registry.by \subseteq After.by
<1> DEFINE p == Published(run, st)  c == RecordedOf(run, st)
<1>1. After = Credit(registry, run, st.who, p, c) /\ Owed(run, st) = CreditsOf(run, st.who, c)
  BY DEF After, Credited2, Owed
<1> HIDE DEF p, c
<1> QED  BY <1>1 DEF Credit

(* A set with two elements. *)
LEMMA TwoAreTwo ==
  ASSUME NEW S, IsFiniteSet(S), NEW g \in S, NEW h \in S, g # h
  PROVE  Cardinality(S) >= 2
<1>1. IsFiniteSet({g}) /\ Cardinality({g}) = 1
  BY FS_Singleton
<1>2. IsFiniteSet({g} \cup {h}) /\ Cardinality({g} \cup {h}) = 2
  <2>1. Cardinality({g} \cup {h}) = IF h \in {g} THEN Cardinality({g}) ELSE Cardinality({g}) + 1
    BY <1>1, FS_AddElement
  <2>2. IsFiniteSet({g} \cup {h})
    BY <1>1, FS_AddElement
  <2> QED  BY <1>1, <2>1, <2>2
<1>3. {g} \cup {h} \in SUBSET S
  OBVIOUS
<1>4. Cardinality({g} \cup {h}) <= Cardinality(S)
  BY <1>3, FS_Subset
<1>5. Cardinality(S) \in Nat
  BY FS_CardinalityType
<1> QED  BY <1>2, <1>4, <1>5

(* A run with nothing to commit has its credits on origin/main already: whoever is new to a table
   there is not the only producer of it. *)
LEMMA EmptyOwed ==
  ASSUME IInv, AllFinite, FilesTrue, StepTrue, WholeAre, proc.at \in Later,
         ~ HasLines(registry, After, run, PublishedNow, RecordedOf(run, st))
  PROVE  Owed(run, st) \subseteq registry.by
<1> DEFINE c == RecordedOf(run, st)
<1>1. Owed(run, st) = CreditsOf(run, st.who, c)
  BY DEF Owed
<1>2. /\ \A n \in run : PublishedNow[n] = {}
      /\ \A n \in run : \A m \in c[n] :
           Cardinality(ProducersOf(After, m)) >= 2 => ProducersOf(After, m) = ProducersOf(registry, m)
  BY DEF HasLines
<1>3. Whole(registry) /\ Whole(After)
  BY AfterWhole DEF WholeAre
<1>4. NoPr \notin run
  <2>1. run \in Runs
    BY LaterIs
  <2> QED  BY <2>1, AcceptAssumption
<1> SUFFICES ASSUME NEW g \in Owed(run, st), g \notin registry.by
             PROVE  FALSE
  OBVIOUS
<1>5. PICK n \in run : g \in {<<m, st.who[n].key, n>> : m \in c[n]}
  BY <1>1 DEF CreditsOf
<1>6. PICK m \in c[n] : g = <<m, st.who[n].key, n>>
  BY <1>5
<1>7. g[1] = m /\ g[3] = n /\ g \in After.by
  BY <1>6, AfterOwes
<1>8. ASSUME NEW h \in After.by, h[1] = m, h # g
      PROVE  FALSE
  <2>1. ProducersOf(After, m) \subseteq After.by /\ g \in ProducersOf(After, m) /\ h \in ProducersOf(After, m)
    BY <1>7, <1>8 DEF ProducersOf
  <2>2. IsFiniteSet(ProducersOf(After, m))
    BY <1>3, <2>1, FS_Subset DEF Whole
  <2>3. Cardinality(ProducersOf(After, m)) >= 2
    BY <1>8, <2>1, <2>2, TwoAreTwo
  <2>4. g \in ProducersOf(registry, m)
    BY <1>2, <2>1, <2>3
  <2> QED  BY <2>4 DEF ProducersOf
<1>9. CASE m \in Tables(registry)
  <2>1. PICK h \in registry.by : h[1] = m
    BY <1>3, <1>9 DEF Whole
  <2> QED  BY <1>8, <2>1, AfterOwes
<1>10. CASE m \notin Tables(registry)
  <2> DEFINE theirs == Unknown(registry, run, PublishedNow, c)
  <2>1. m \in theirs
    BY <1>2, <1>10 DEF Unknown
  <2>2. {<<k, Maintainer, NoPr>> : k \in theirs} \subseteq After.by
    BY DEF After, Credited2, Credit, PublishedNow
  <2> HIDE DEF theirs
  <2>3. <<m, Maintainer, NoPr>> \in After.by
    BY <2>1, <2>2
  <2>4. <<m, Maintainer, NoPr>> # g
    BY <1>4, <1>6
  <2> QED  BY <1>8, <2>3, <2>4
<1> QED  BY <1>9, <1>10

(* What a record that says nothing of the docs owes. *)
LEMMA OwesNothing ==
  ASSUME NEW r \in Runs, "docs" \notin files'[r].done, files'[r].sub = {}, InOrder(files'[r].docsPr, {})
  PROVE  OwedOf(r, files[r])'
BY DEF OwedOf, InOrder

(* A docs step leaves a run with its credits where its record says they are. *)
LEMMA OwedDocs ==
  ASSUME IInv, AllFinite, FilesTrue, StepTrue, DocsTrue, WholeAre, OwedAre, Next,
         NEW r \in Runs, r = run, files'[r] # NoFile, files'[r] # st, SameCredits(st, files'[r]),
         DocsEmpty \/ DocsCommit \/ DocsPush \/ DocsOpen \/ DocsLand \/ DocsConflict
  PROVE  OwedOf(r, files[r])'
<1>1. proc.at = "docs" /\ "docs" \notin st.done
  BY DEF DocsEmpty, DocsCommit, DocsPush, DocsOpen, DocsLand, DocsConflict, DocsStarts, DocsStep, Lands
<1>2. /\ st # NoFile /\ st = [f \in FileFields |-> st[f]] /\ InOrder(st.docsPr, st.sub)
      /\ \A s : Record(s) => files'[run] = s
  BY <1>1, AtDocs
<1>3. files[r] = st /\ world' = world /\ files' # files /\ OwedOf(r, st)
  BY <1>2, WritersAre DEF st, OwedAre
<1>4. Owed(r, files[r])' = Owed(r, st)
  BY <1>3, OwedSame
<1>5. /\ docs'[r].pushed = docs[r].pushed \/ (DocsPush /\ r = run)
      /\ docs'[r].status = "merged" =>
           \/ docs[r].status = "merged"
           \/ docs[r].status = "open" /\ registry'.by = registry.by \cup docs[r].pushed.registry.by
  BY DocsBecome
<1>6. registry.by \subseteq registry'.by
  BY RegistryWhole
<1>7. CASE DocsEmpty \/ DocsCommit
  <2> DEFINE t == Started(st)
             u == [t EXCEPT !.sub = {"committed"}]
             d == Done([t EXCEPT !.empty = TRUE], "docs")
  <2>1. (DocsCommit /\ (Record(t) \/ Record(u))) \/ (DocsEmpty /\ Record(d))
    BY <1>3, <1>7 DEF DocsEmpty, DocsCommit, Save, SaveThen
  <2>2. /\ t.done = st.done /\ t.sub = st.sub /\ t.docsPr = st.docsPr
        /\ u.done = st.done /\ u.sub = {"committed"} /\ u.docsPr = st.docsPr
        /\ d.done = st.done \cup {"docs"} /\ d.sub = st.sub /\ d.docsPr = st.docsPr
    BY <1>2, StartsCredit
  <2> HIDE DEF t, u, d
  <2>3. "committed" \notin st.sub /\ "pushed" \notin st.sub /\ ~ st.docsPr
    BY <1>2, <1>7 DEF DocsEmpty, DocsCommit, DocsStarts, InOrder
  <2>4. CASE DocsCommit /\ Record(t)
    BY <1>1, <1>2, <2>2, <2>3, <2>4 DEF OwedOf
  <2>5. CASE DocsCommit /\ Record(u)
    <3>1. local' = Overwrite(local, [b \in {run} |-> AtRev(After, registry, rev)])
      BY <2>5 DEF DocsCommit, OnBranch
    <3>2. local'[run] = AtRev(After, registry, rev)
      BY <3>1 DEF Overwrite
    <3>3. local'[r].registry = After
      BY <3>2 DEF AtRev
    <3> QED  BY <1>1, <1>2, <1>4, <2>2, <2>3, <2>5, <3>3, AfterOwes DEF OwedOf
  <2>6. CASE DocsEmpty /\ Record(d)
    <3>1. ~ HasLines(registry, After, run, PublishedNow, RecordedOf(run, st)) /\ proc.at \in Later
      BY <1>1, <2>6 DEF DocsEmpty, Later
    <3>2. Owed(run, st) \subseteq registry.by
      BY <3>1, EmptyOwed
    <3> QED  BY <1>2, <1>4, <1>6, <2>2, <2>3, <2>6, <3>2 DEF OwedOf
  <2> QED  BY <2>1, <2>4, <2>5, <2>6
<1>8. CASE DocsPush
  <2> DEFINE x == st.sub \cup {"pushed"}
             s == [st EXCEPT !.sub = x]
  <2>1. /\ Record(s) /\ st.sub = {"committed"} /\ ~ st.docsPr
        /\ docs' = [docs EXCEPT ![run].pushed = local[run]]
    BY <1>3, <1>8 DEF DocsPush, Save, SaveThen
  <2> HIDE DEF x
  <2>2. s.sub = x /\ s.done = st.done /\ s.docsPr = st.docsPr
    BY <1>2 DEF FileFields
  <2> HIDE DEF s
  <2>3. files'[r].sub = x /\ files'[r].done = st.done /\ files'[r].docsPr = st.docsPr /\ x # {"committed"}
    BY <1>2, <2>1, <2>2 DEF x
  <2>4. docs'[r].pushed = local[r]
    BY <2>1 DEF IInv, DocsAre
  <2>5. Owed(r, st) \subseteq local[r].registry.by
    BY <1>3, <2>1 DEF OwedOf
  <2> QED  BY <1>1, <1>4, <2>1, <2>3, <2>4, <2>5 DEF OwedOf
<1>9. CASE DocsOpen
  <2> DEFINE s == [st EXCEPT !.docsPr = TRUE]
  <2>1. /\ Record(s) /\ "pushed" \in st.sub /\ ~ st.docsPr
        /\ docs' = [docs EXCEPT ![run].status = "open"]
    BY <1>3, <1>9 DEF DocsOpen, Save, SaveThen
  <2>2. s.sub = st.sub /\ s.done = st.done /\ s.docsPr = TRUE
    BY <1>2 DEF FileFields
  <2> HIDE DEF s
  <2>3. files'[r].sub = st.sub /\ files'[r].done = st.done /\ st.sub # {"committed"}
    BY <1>2, <2>1, <2>2
  <2>4. docs'[r].pushed = docs[r].pushed /\ docs'[r].status = "open"
    BY <2>1 DEF IInv, DocsAre
  <2>5. Owed(r, st) \subseteq docs[r].pushed.registry.by
    BY <1>3, <2>1 DEF OwedOf
  <2> QED  BY <1>1, <1>4, <2>3, <2>4, <2>5 DEF OwedOf
<1>10. CASE DocsLand
  <2> DEFINE s == Done(st, "docs")
  <2>1. /\ Record(s) /\ st.docsPr /\ docs[run].status \in {"open", "merged"}
        /\ docs' = [docs EXCEPT ![run].status = "merged"]
    BY <1>3, <1>10 DEF DocsLand, Lands, Save, SaveThen
  <2>2. s.sub = st.sub /\ s.docsPr = st.docsPr
    BY <1>2 DEF FileFields, Done
  <2> HIDE DEF s
  <2>3. /\ files'[r].sub = st.sub /\ files'[r].docsPr = st.docsPr
        /\ "pushed" \in st.sub /\ st.sub # {"committed"}
    BY <1>2, <2>1, <2>2 DEF InOrder
  <2>4. docs'[r].status = "merged"
    BY <2>1 DEF IInv, DocsAre
  <2>5. Owed(r, st) \subseteq registry'.by
    <3>1. docs[r].status = "open" => Owed(r, st) \subseteq docs[r].pushed.registry.by
      BY <1>3, <2>3 DEF OwedOf
    <3>2. docs[r].status = "merged" => Owed(r, st) \subseteq registry.by
      BY <1>3, <2>1 DEF OwedOf
    <3> QED  BY <1>5, <1>6, <2>4, <3>1, <3>2
  <2> QED  BY <1>4, <2>1, <2>3, <2>4, <2>5 DEF OwedOf
<1>11. CASE DocsConflict
  <2> DEFINE s == [st EXCEPT !.retried = TRUE, !.sub = {}, !.docsPr = FALSE]
  <2>1. Record(s)
    BY <1>3, <1>11 DEF DocsConflict, Save, SaveThen
  <2>2. s.sub = {} /\ s.docsPr = FALSE /\ s.done = st.done
    BY <1>2 DEF FileFields
  <2> HIDE DEF s
  <2>3. files'[r].sub = {} /\ files'[r].docsPr = FALSE /\ "docs" \notin files'[r].done
    BY <1>1, <1>2, <2>1, <2>2
  <2> QED  BY <2>3, OwesNothing DEF InOrder
<1> QED  BY <1>7, <1>8, <1>9, <1>10, <1>11

(* So every run goes on having its credits where its record says they are. *)
LEMMA OwedFiles ==
  ASSUME IInv, AllFinite, FilesTrue, StepTrue, DocsTrue, WholeAre, OwedAre, Next, IInv', FilesTrue',
         NEW r \in Runs, files'[r] # NoFile
  PROVE  OwedOf(r, files[r])'
<1>1. CASE files'[r] = files[r]
  BY <1>1, OwedStays DEF SameCredits, SamePlan
<1>2. CASE Prepare /\ files'[r] # files[r]
  <2>1. r = run /\ files'[r].done = {}
    BY <1>2, PrepareRecords
  <2>2. StageOf(r)' /\ InOrder(files'[r].docsPr, files'[r].sub)
    BY DEF FilesTrue, IInv, FilesAre, FileIs
  <2>3. files'[r].sub = {}
    BY <2>1, <2>2 DEF StageOf
  <2> QED  BY <2>1, <2>2, <2>3, OwesNothing
<1>3. CASE ~ Prepare /\ files'[r] # files[r]
  <2>1. files[r] # NoFile
    BY <1>3, FileBegins
  <2>2. r = run /\ Follows(files'[r])
    BY <1>3, <2>1, FileFollows
  <2>3. files[r] = st
    BY <2>2 DEF st
  <2>4. CASE /\ files'[r].sub = st.sub /\ files'[r].docsPr = st.docsPr
             /\ "docs" \in files'[r].done => "docs" \in st.done
    BY <2>1, <2>2, <2>3, <2>4, OwedStays DEF Follows
  <2>5. CASE DocsEmpty \/ DocsCommit \/ DocsPush \/ DocsOpen \/ DocsLand \/ DocsConflict
    BY <1>3, <2>2, <2>3, <2>5, OwedDocs DEF Follows
  <2> QED  BY <2>2, <2>4, <2>5 DEF Follows
<1> QED  BY <1>1, <1>2, <1>3

-----------------------------------------------------------------------------
\* The third invariant holds, and a run that is over has landed what it recorded.

(* It holds at first, *)
LEMMA InitLanded ==
  ASSUME Init
  PROVE  LInv
<1>1. /\ files = [r \in Runs |-> NoFile] /\ proc = Idle /\ docs = [r \in Runs |-> NoDocs]
      /\ local = [b \in {Main} |-> AtRev(registry, registry, 0)]
      /\ report = [n \in Prs |-> IF n \in world.old THEN Report(1, TRUE, FALSE) ELSE Report(0, FALSE, FALSE)]
      /\ staged = [n \in Prs |-> IF n \in world.old THEN Delivery(n, 1).files ELSE Empty]
  BY DEF Init
<1>2. registry.from = {} /\ registry.by = {} /\ EmptyRegistry.from = {} /\ EmptyRegistry.by = {}
  BY DEF Init, EmptyRegistry
<1>3. proc.at = "idle"
  BY <1>1 DEF Idle
<1>4. \A r \in Runs : files[r] = NoFile
  BY <1>1
<1>5. Stocked
  <2> SUFFICES ASSUME NEW n \in Prs, report[n].head # 0
               PROVE  Materials(n, report[n].head) \subseteq DOMAIN staged[n] \cup DOMAIN tables
    BY DEF Stocked
  <2>1. n \in world.old /\ report[n].head = 1
    BY <1>1 DEF Report
  <2> QED  BY <1>1, <2>1 DEF Materials
<1>6. Here
  BY <1>3, <1>4 DEF Here, Moved
<1>7. WholeAre
  <2>1. Whole(registry) /\ Whole(EmptyRegistry)
    BY <1>2, FS_EmptySet DEF Whole, Tables
  <2>2. \A b \in DOMAIN local : Behind(local[b])
    BY <1>1, <2>1 DEF Behind, AtRev
  <2>3. \A r \in Runs : Behind(docs[r].pushed)
    BY <1>1, <1>2, <2>1 DEF Behind, NoDocs, AtRev
  <2> QED  BY <2>1, <2>2, <2>3 DEF WholeAre
<1> QED  BY <1>4, <1>5, <1>6, <1>7 DEF LInv, OpenAre, OwedAre

(* every step keeps it that keeps the decisions it has begun to act on, *)
LEMMA StepLanded ==
  ASSUME ~ Window, AllFinite, IInv, DInv, LInv, Next, KeepsDecisions
  PROVE  LInv'
<1>1. /\ StagedAre /\ FilesTrue /\ StepTrue /\ MergedAre /\ DocsTrue
      /\ Stocked /\ Here /\ OpenAre /\ WholeAre /\ OwedAre
  BY DEF DInv, LInv
<1>2. IInv' /\ FilesTrue'
  <2>1. DInv'
    BY StepCredits
  <2>2. IInv'
    BY NextKeeps
  <2> QED  BY <2>1, <2>2 DEF DInv
<1>3. Stocked'
  BY <1>1, StockedOn
<1>4. Here'
  <2>1. \A r \in Runs : files'[r] # NoFile => HereIs(files[r])'
    BY <1>1, <1>2, HereFiles
  <2>2. proc'.at \in Moved => \A r \in Runs : r = run' => "local" \in files'[r].done
    BY <1>1, MovedOn
  <2> QED  BY <2>1, <2>2 DEF Here, Moved
<1>5. OpenAre'
  <2>1. \A r \in Runs : files'[r] # NoFile => OpenIs(r, files[r])'
    BY <1>1, OpenFiles
  <2> QED  BY <2>1 DEF OpenAre
<1>6. WholeAre'
  BY <1>1, WholeOn
<1>7. OwedAre'
  <2>1. \A r \in Runs : files'[r] # NoFile => OwedOf(r, files[r])'
    BY <1>1, <1>2, OwedFiles
  <2> QED  BY <2>1 DEF OwedAre
<1> QED  BY <1>3, <1>4, <1>5, <1>6, <1>7 DEF LInv

(* and one that changes nothing. *)
LEMMA StutterLanded ==
  ASSUME LInv, UNCHANGED vars
  PROVE  LInv'
<1>1. /\ UNCHANGED <<world, status, registry, docs, report, staged, tables, local, files, proc>>
      /\ run' = run
  BY DEF vars, hub, github, disk, checkout, history, run
<1>2. Stocked'
  BY <1>1 DEF LInv, Stocked, Materials, Delivery
<1>3. Here'
  BY <1>1 DEF LInv, Here, HereIs, News, Moved
<1>4. OpenAre'
  BY <1>1 DEF LInv, OpenAre, OpenIs, HasHeld, Materials, Delivery
<1>5. WholeAre'
  BY <1>1 DEF LInv, WholeAre, Behind, Whole, Tables
<1>6. OwedAre'
  <2>1. \A r \in Runs : Owed(r, files[r])' = Owed(r, files[r])
    BY <1>1, OwedSame DEF SameCredits, SamePlan
  <2> QED  BY <1>1, <2>1 DEF LInv, OwedAre, OwedOf
<1> QED  BY <1>2, <1>3, <1>4, <1>5, <1>6 DEF LInv

(* What a run has recorded when it closes the claims has landed. *)
LEMMA ClosesLanded ==
  ASSUME IInv, DInv, LInv, CloseClaims, NEW r \in Runs, r = run, NEW n \in r,
         NEW m \in RecordedOf(r, files[r])[n]
  PROVE  /\ <<m, files[r].who[n].key, n>> \in registry.by
         /\ m \in DOMAIN manifest \cap DOMAIN tables /\ tables[m] = main[m]
         /\ status[n] = "open" => HasHeld(files[r], n)
<1> DEFINE s == files[r]
<1>1. proc.at = "claims" /\ proc.at \in Later /\ proc.at \in Moved
  BY DEF CloseClaims, Later, Moved
<1>2. FilesTrue /\ StepTrue /\ TablesAre /\ Here /\ OpenAre /\ OwedAre
  BY DEF DInv, LInv
<1>3. s = st /\ st # NoFile /\ FileIs(world, verified, run, st) /\ "merge" \in st.done /\ st.merged = run
  BY <1>1, <1>2, LaterIs DEF st
<1>4. CoreTrue(r) /\ StageOf(r) /\ "local" \in s.done /\ "docs" \in s.done
  BY <1>1, <1>2, <1>3 DEF FilesTrue, StepTrue, Here
<1>5. st.pulls = st.heads.pulls /\ DOMAIN st.decided = Brought(world, st.pulls) /\ DOMAIN st.pulls = run
  BY <1>3, <1>4 DEF StageOf, FileIs
<1>6. HereIs(st) /\ OpenIs(r, st) /\ OwedOf(r, st)
  BY <1>2, <1>3 DEF Here, OpenAre, OwedAre
<1>7. m \in Materials(n, st.pulls[n]) /\ st.decided[m].kind \in {"new", "reproduction"}
  BY <1>3 DEF RecordedOf, Recorded
<1>8. m \in DOMAIN st.decided
  BY <1>5, <1>7 DEF Brought, Materials, Delivery
<1>9. AgreedOn(r, m)
  BY <1>3, <1>4, <1>8 DEF CoreTrue, Agreed, UnderWay
<1>10. m \in DOMAIN tables
  <2>1. CASE st.decided[m].kind = "reproduction"
    BY <1>6, <1>8, <2>1 DEF HereIs
  <2>2. CASE st.decided[m].kind = "new"
    <3>1. st.decided[m].from \in r
      BY <1>3, <1>9, <2>2 DEF AgreedOn, AgreedIn
    <3>2. st.decided[m].from # NoPr
      BY <3>1, AcceptAssumption
    <3> QED  BY <1>3, <1>4, <1>6, <1>8, <3>2 DEF HereIs, News
  <2> QED  BY <1>7, <2>1, <2>2
<1>11. m \in DOMAIN manifest /\ tables[m] = main[m]
  BY <1>2, <1>10 DEF TablesAre, IInv, PublicTrue
<1>12. <<m, st.who[n].key, n>> \in Owed(r, st)
  BY <1>3 DEF Owed, CreditsOf
<1>13. Owed(r, st) \subseteq registry.by
  BY <1>3, <1>4, <1>6 DEF OwedOf
<1>14. status[n] = "open" => HasHeld(st, n)
  BY <1>3, <1>6 DEF OpenIs
<1> QED  BY <1>3, <1>10, <1>11, <1>12, <1>13, <1>14

(* A run of those that do not overlap is over only when the credits of all it recorded are on
   origin/main, the manifest and the corpus have the files, and the PRs it leaves open have
   something held: wherever its processes ended, whatever was pushed, claimed or merged by hand
   meanwhile, if no push can land between accept's head check and the merge, and a run keeps the
   decisions it has begun to act on. *)
THEOREM CompletesAll ==
  ASSUME ~ Window, AllFinite
  PROVE  Spec /\ ~ world.overlap /\ [][KeepsDecisions]_vars => Completes
<1>1. Init /\ ~ world.overlap => DInv /\ LInv
  BY InitCredits, InitLanded
<1>2. IInv /\ DInv /\ LInv /\ [Next]_vars /\ [KeepsDecisions]_vars => DInv' /\ LInv'
  <2>1. CASE UNCHANGED vars
    BY <2>1, StutterCredits, StutterLanded
  <2>2. CASE ~ UNCHANGED vars
    BY <2>2, StepCredits, StepLanded
  <2> QED  BY <2>1, <2>2
<1>3. IInv /\ DInv /\ LInv /\ [Next]_vars
        => [\A r \in Runs :
              files[r] # NoFile /\ files'[r] = NoFile =>
                LET s == files[r] IN
                \A n \in r : \A m \in RecordedOf(r, s)[n] :
                  /\ <<m, s.who[n].key, n>> \in registry.by
                  /\ m \in DOMAIN manifest \cap DOMAIN tables /\ tables[m] = main[m]
                  /\ status[n] = "open" => \E k \in Materials(n, s.pulls[n]) : s.decided[k].kind = "held"]_vars
  <2> SUFFICES ASSUME IInv, DInv, LInv, Next, NEW r \in Runs, files[r] # NoFile, files'[r] = NoFile,
                      NEW n \in r, NEW m \in RecordedOf(r, files[r])[n]
               PROVE  /\ <<m, files[r].who[n].key, n>> \in registry.by
                      /\ m \in DOMAIN manifest \cap DOMAIN tables /\ tables[m] = main[m]
                      /\ status[n] = "open" =>
                           \E k \in Materials(n, files[r].pulls[n]) : files[r].decided[k].kind = "held"
    OBVIOUS
  <2>1. r = run /\ (NothingToRecord \/ CloseClaims)
    BY Forgotten
  <2>2. CASE NothingToRecord
    BY <2>1, <2>2 DEF NothingToRecord, Nothing, st
  <2>3. CASE CloseClaims
    <3>1. /\ <<m, files[r].who[n].key, n>> \in registry.by
          /\ m \in DOMAIN manifest \cap DOMAIN tables /\ tables[m] = main[m]
          /\ status[n] = "open" => HasHeld(files[r], n)
      BY <2>1, <2>3, ClosesLanded
    <3> QED  BY <3>1 DEF HasHeld, Held
  <2> QED  BY <2>1, <2>2, <2>3
<1> QED  BY <1>1, <1>2, <1>3, Invariant, PTL DEF Spec, Completes
-----------------------------------------------------------------------------
(* What is claimed stays off main: a fourth invariant. *)

\* Runs are finite, claims are numbered, a PR's description names its author, and the registry is a finite list.
WellNamed ==
  /\ \A r \in Runs : IsFiniteSet(r)
  /\ \A w \in Worlds :
       /\ \A c \in w.claims : c.issue \in Nat \ {NoNumber}
       /\ \A c, d \in w.claims : c.issue = d.issue => c = d
       /\ \A n \in UNION Runs : "login" \in DOMAIN w.pr[n] /\ w.pr[n].login # None
       /\ IsFiniteSet(w.people)

\* The people of every registry can be listed.
ListedPeople ==
  /\ IsFiniteSet(registry.people) /\ \A b \in DOMAIN local : IsFiniteSet(local[b].registry.people)
  /\ \A r \in Runs : IsFiniteSet(docs[r].pushed.registry.people)

\* Whom a run takes a PR to be by is who its description says, in some spelling.
NamedIs(r, s) ==
  \A n \in r : s.who[n].github # None /\ Same(s.who[n].github, world.pr[n].login)
NamedAre == \A r \in Runs : files[r] # NoFile => NamedIs(r, files[r])

\* What a run publishes is its claimant's delivery, while the first claim on it is open.
OfHolder(s) ==
  \A m \in DOMAIN s.decided : s.decided[m].from # NoPr =>
    \A c \in claims : c = ClaimFor(world.claims, m) => Same(world.pr[s.decided[m].from].login, c.author)
OfHolders == \A r \in Runs : files[r] # NoFile => OfHolder(files[r])

\* What is copied is the PR's head.
CopiesHead == proc.at = "copy" => head[proc.pr] = st.pulls[proc.pr]

HInv ==
  claims \subseteq world.claims /\ ListedPeople /\ NamedAre /\ OfHolders /\ CopiesHead /\ changes \in Nat

(* A finite set of people can be listed. *)
LEMMA ListIs ==
  ASSUME NEW S, IsFiniteSet(S)
  PROVE  DOMAIN SeqExt!SetToSeq(S) \subseteq Nat
<1> DEFINE n == Cardinality(S)
<1>1. n \in Nat /\ ExistsBijection(1 .. n, S)
  BY FS_CardinalityType
<1>2. SeqExt!Cardinality(S) = n
  BY DEF SeqExt!Cardinality, Cardinality
<1>3. \E f \in [1 .. n -> S] : \A a, b \in DOMAIN f : f[a] = f[b] => a = b
  BY <1>1 DEF ExistsBijection, Bijection, Injection, IsInjective
<1>4. \A f : SeqExt!IsInjective(f) <=> \A a, b \in DOMAIN f : f[a] = f[b] => a = b
  BY DEF SeqExt!IsInjective
<1> HIDE DEF n
<1>5. SeqExt!SetToSeq(S) \in [1 .. n -> S]
  BY <1>2, <1>3, <1>4 DEF SeqExt!SetToSeq
<1> QED  BY <1>1, <1>5

(* To credit a run is to add finitely many people. *)
LEMMA CreditListed ==
  ASSUME NEW reg, IsFiniteSet(reg.people), NEW prs, IsFiniteSet(prs), NEW who, NEW published, NEW recorded
  PROVE  IsFiniteSet(Credit(reg, prs, who, published, recorded).people)
<1> DEFINE c == Credit(reg, prs, who, published, recorded)
           credited == Credits(prs, recorded)
           keys == {who[n].key : n \in credited}
           old == {p \in reg.people : p.key \notin keys}
           key == [n \in credited |-> who[n].key]
<1>1. c.people = WithPeople(reg, prs, who, recorded)
  BY DEF Credit
<1>2. IsFiniteSet(credited)
  BY FS_Subset DEF Credits
<1>3. keys = {key[n] : n \in credited} /\ key = [n \in credited |-> key[n]]
  OBVIOUS
<1>4. IsFiniteSet(keys)
  <2> HIDE DEF key, keys, credited
  <2> QED  BY <1>2, <1>3, FiniteImage
<1>5. \E f : f = [k \in keys |-> f[k]] /\ c.people = old \cup {f[k] : k \in keys}
  <2> DEFINE Of(k) == {n \in credited : who[n].key = k}
             Entry(k) ==
               LET known == {p \in reg.people : p.key = k}
                   first == who[MinOf(Of(k))]
                   p     == IF known # {} THEN CHOOSE q \in known : TRUE
                            ELSE [key |-> k, github |-> first.github, hf |-> first.hf, anonymous |-> FALSE]
               IN [p EXCEPT !.anonymous = @ \/ \E n \in Of(k) : who[n].anonymous]
             f == [k \in keys |-> Entry(k)]
  <2>1. WithPeople(reg, prs, who, recorded) = old \cup {Entry(k) : k \in keys}
    BY DEF WithPeople
  <2> HIDE DEF Entry, old, keys
  <2>2. f = [k \in keys |-> f[k]] /\ {Entry(k) : k \in keys} = {f[k] : k \in keys}
    OBVIOUS
  <2> QED  BY <1>1, <2>1, <2>2
<1> HIDE DEF c, keys
<1>6. IsFiniteSet(old)
  BY FS_Subset
<1> HIDE DEF old
<1>7. PICK f : f = [k \in keys |-> f[k]] /\ c.people = old \cup {f[k] : k \in keys}
  BY <1>5
<1> DEFINE new == {f[k] : k \in keys}
<1>8. IsFiniteSet(new)
  BY <1>4, <1>7, FiniteImage
<1>9. IsFiniteSet(c.people)
  <2>1. c.people = old \cup new
    BY <1>7
  <2> HIDE DEF new
  <2> QED  BY <1>6, <1>8, <2>1, FS_Union
<1> QED  BY <1>9 DEF c

(* So is to join two registries. *)
LEMMA ThreeWayListed ==
  ASSUME NEW base, NEW reg, NEW other, IsFiniteSet(reg.people), IsFiniteSet(other.people)
  PROVE  IsFiniteSet(ThreeWay(base, reg, other).people)
<1>1. ThreeWay(base, reg, other).people \subseteq reg.people \cup other.people
  BY DEF ThreeWay
<1>2. IsFiniteSet(reg.people \cup other.people)
  BY FS_Union
<1> QED  BY <1>1, <1>2, FS_Subset

(* No step makes the people of a registry more than can be listed. *)
LEMMA PeopleOn ==
  ASSUME IInv, WellNamed, ListedPeople, Next
  PROVE  ListedPeople'
<1>1. /\ IsFiniteSet(registry.people) /\ \A b \in DOMAIN local : IsFiniteSet(local[b].registry.people)
      /\ \A r \in Runs : IsFiniteSet(docs[r].pushed.registry.people)
  BY DEF ListedPeople
<1>2. proc.at = "docs" => run \in Runs /\ IsFiniteSet(run) /\ st # NoFile
  BY DEF IInv, ProcIs, WellNamed
<1>3. IsFiniteSet(registry'.people)
  <2>1. CASE registry' = registry
    BY <1>1, <2>1
  <2>2. ASSUME NEW r \in Runs,
               registry' = ThreeWay(docs[r].pushed.base, registry, docs[r].pushed.registry)
        PROVE  IsFiniteSet(registry'.people)
    BY <1>1, <2>2, ThreeWayListed
  <2>3. CASE DocsLand
    <3>1. proc.at = "docs" /\ (Landed \/ registry' = registry)
      BY <2>3 DEF DocsLand, Lands, DocsStep
    <3> QED  BY <1>2, <2>1, <2>2, <3>1 DEF Landed
  <2>4. CASE \E r \in Runs : ResolveDocs(r)
    BY <2>2, <2>4 DEF ResolveDocs
  <2> QED  BY <2>1, <2>3, <2>4, WritersAre
<1>4. \A b \in DOMAIN local' : IsFiniteSet(local'[b].registry.people)
  <2>1. CASE local' = local
    BY <1>1, <2>1
  <2>2. ASSUME NEW reg, IsFiniteSet(reg.people), OnBranch(reg)
        PROVE  \A b \in DOMAIN local' : IsFiniteSet(local'[b].registry.people)
    <3>1. AtRev(reg, registry, rev).registry = reg
      BY DEF AtRev
    <3> QED  BY <1>1, <2>2, <3>1 DEF OnBranch, Overwrite
  <2>3. CASE DocsEmpty
    BY <1>1, <2>2, <2>3 DEF DocsEmpty
  <2>4. CASE DocsCommit
    <3>1. proc.at = "docs" /\ OnBranch(After)
      BY <2>4 DEF DocsCommit, DocsStarts, DocsStep
    <3>2. IsFiniteSet(After.people)
      BY <1>1, <1>2, <3>1, CreditListed DEF After, Credited2
    <3> QED  BY <2>2, <3>1, <3>2
  <2>5. CASE DocsLand
    <3>1. local' = Only(local, DOMAIN local \ {run})
      BY <2>5 DEF DocsLand
    <3> QED  BY <1>1, <3>1 DEF Only
  <2>6. CASE Pull
    <3>1. local' = [local EXCEPT ![Main].registry = registry]
      BY <2>6 DEF Pull
    <3>2. Main \in DOMAIN local /\ local[Main] = [f \in BranchFields |-> local[Main][f]]
      BY DEF IInv, Branches, Keeps
    <3>3. DOMAIN local' = DOMAIN local /\ local'[Main].registry = registry
          /\ \A b \in DOMAIN local \ {Main} : local'[b] = local[b]
      BY <3>1, <3>2 DEF BranchFields
    <3> QED  BY <1>1, <3>3
  <2> QED  BY <2>1, <2>3, <2>4, <2>5, <2>6, WritersAre
<1>5. \A r \in Runs : IsFiniteSet(docs'[r].pushed.registry.people)
  <2>1. ASSUME \A r \in Runs : docs'[r].pushed = docs[r].pushed
        PROVE  \A r \in Runs : IsFiniteSet(docs'[r].pushed.registry.people)
    BY <1>1, <2>1
  <2>2. ASSUME NEW r \in Runs, NEW x, docs' = [docs EXCEPT ![r].status = x]
        PROVE  \A q \in Runs : docs'[q].pushed = docs[q].pushed
    BY <2>2 DEF IInv, DocsAre
  <2>3. CASE DocsPush
    <3>1. /\ proc.at = "docs" /\ st.sub = {"committed"}
          /\ docs' = [docs EXCEPT ![run].pushed = local[run]]
      BY <2>3 DEF DocsPush, DocsStep
    <3>2. run \in DOMAIN local
      BY <1>2, <3>1 DEF IInv, Pushable, st
    <3>3. \A r \in Runs : docs'[r].pushed = IF r = run THEN local[run] ELSE docs[r].pushed
      BY <1>2, <3>1 DEF IInv, DocsAre
    <3> QED  BY <1>1, <3>2, <3>3
  <2>4. CASE DocsOpen \/ DocsLand \/ DocsConflict
    <3>1. proc.at = "docs" /\ (docs' = docs \/ \E x : docs' = [docs EXCEPT ![run].status = x])
      BY <2>4 DEF DocsOpen, DocsLand, DocsConflict, Lands, DocsStep
    <3> QED  BY <1>2, <2>1, <2>2, <3>1
  <2>5. CASE \E r \in Runs : ResolveDocs(r) \/ CloseDocs(r)
    <3>1. PICK r \in Runs : \E x : docs' = [docs EXCEPT ![r].status = x]
      BY <2>5 DEF ResolveDocs, CloseDocs
    <3> QED  BY <2>1, <2>2, <3>1
  <2> QED  BY <2>1, <2>3, <2>4, <2>5, WritersAre
<1> QED  BY <1>3, <1>4, <1>5 DEF ListedPeople

-----------------------------------------------------------------------------
\* Whom a run takes its PRs to be by.

(* A set of numbers that is not empty has a least one. *)
LEMMA LeastOf ==
  ASSUME NEW T \in SUBSET Nat, T # {}
  PROVE  \E m \in T : \A n \in T : m <= n
<1>1. WF!IsWellFoundedOn(WF!OpToRel(<, Nat), Nat)
  BY WF!NatLessThanWellFounded
<1>2. PICK m \in T : \A n \in T : ~ (<<n, m>> \in WF!OpToRel(<, Nat))
  BY <1>1, WF!WFMin
<1>3. \A n \in T : ~ (n < m)
  BY <1>2 DEF WF!OpToRel
<1> QED  BY <1>3

\* Whom PR n is by, when f says it of the PRs before n.
WhoAfter(r, s, n, f) ==
  LET before == {k \in r : k < n}
      seen   == [key \in {f[k].key : k \in before} |->
                   f[MinOf({k \in before : f[k].key = key})].github]
  IN IF n \notin ToDo(r, s) THEN s.who[n]
     ELSE Identified(PrOf(n), claims, People(local[branch].registry), None, seen)

(* It depends on nothing but the PRs before n. *)
LEMMA WhoAfterBefore ==
  ASSUME NEW r \in SUBSET Nat, NEW s, NEW n, NEW f, NEW g, \A k \in r : k < n => f[k] = g[k]
  PROVE  WhoAfter(r, s, n, f) = WhoAfter(r, s, n, g)
<1> DEFINE before == {k \in r : k < n}
           Seen(h) == [key \in {h[k].key : k \in before} |->
                         h[MinOf({k \in before : h[k].key = key})].github]
<1>1. {f[k].key : k \in before} = {g[k].key : k \in before}
  OBVIOUS
<1>2. ASSUME NEW key \in {f[k].key : k \in before}
      PROVE  f[MinOf({k \in before : f[k].key = key})] = g[MinOf({k \in before : g[k].key = key})]
  <2> DEFINE T == {k \in before : f[k].key = key}
  <2>1. T = {k \in before : g[k].key = key}
    OBVIOUS
  <2>2. T \in SUBSET Nat /\ T # {} /\ T \subseteq before
    BY <1>2
  <2> HIDE DEF T
  <2>3. MinOf(T) \in before
    BY <2>2, MinOfIn
  <2> QED  BY <2>1, <2>3 DEF T
<1>3. Seen(f) = Seen(g)
  BY <1>1, <1>2
<1> HIDE DEF Seen
<1>4. /\ WhoAfter(r, s, n, f) = IF n \notin ToDo(r, s) THEN s.who[n]
           ELSE Identified(PrOf(n), claims, People(local[branch].registry), None, Seen(f))
      /\ WhoAfter(r, s, n, g) = IF n \notin ToDo(r, s) THEN s.who[n]
           ELSE Identified(PrOf(n), claims, People(local[branch].registry), None, Seen(g))
  BY DEF WhoAfter, Seen
<1> QED  BY <1>3, <1>4

\* What is found out about the PRs up to n, one after the other.
FoundTo(r, s, n, f) == \A k \in r : k <= n => f[k] = WhoAfter(r, s, k, f)

(* There is one way to find it out. *)
LEMMA FoundOnce ==
  ASSUME NEW r \in SUBSET Nat, NEW s, NEW n \in Nat, NEW f, NEW g,
         FoundTo(r, s, n, f), FoundTo(r, s, n, g), NEW k \in r, k <= n
  PROVE  f[k] = g[k]
<1> DEFINE bad == {j \in r : j <= n /\ f[j] # g[j]}
<1>1. SUFFICES ASSUME bad # {}
               PROVE  FALSE
  OBVIOUS
<1>2. bad \in SUBSET Nat
  OBVIOUS
<1> DEFINE m == MinOf(bad)
<1>3. m \in bad /\ \A j \in bad : m <= j
  <2> HIDE DEF bad
  <2>1. m \in bad
    BY <1>1, <1>2, MinOfIn
  <2>2. \E i \in bad : \A j \in bad : i <= j
    BY <1>1, <1>2, LeastOf
  <2> QED  BY <2>1, <2>2 DEF MinOf
<1> HIDE DEF m
<1>4. m \in r /\ m <= n /\ f[m] # g[m] /\ m \in Nat
  BY <1>3
<1>5. ASSUME NEW j \in r, j < m
      PROVE  f[j] = g[j]
  <2>1. j \notin bad
    BY <1>3, <1>4, <1>5
  <2> QED  BY <1>4, <1>5, <2>1
<1>6. WhoAfter(r, s, m, f) = WhoAfter(r, s, m, g)
  BY <1>5, WhoAfterBefore
<1> QED  BY <1>4, <1>6 DEF FoundTo

(* And one can always do so. *)
LEMMA FoundAlways ==
  ASSUME NEW r \in SUBSET Nat, NEW s, NEW n \in Nat
  PROVE  \E f : FoundTo(r, s, n, f)
<1> DEFINE bad == {i \in Nat : ~ \E f : FoundTo(r, s, i, f)}
<1>1. SUFFICES ASSUME bad # {}
               PROVE  FALSE
  OBVIOUS
<1>2. PICK m \in bad : \A j \in bad : m <= j
  BY <1>1, LeastOf
<1>3. m \in Nat /\ ~ \E f : FoundTo(r, s, m, f)
  BY <1>2
<1>4. \A j \in Nat : j < m => \E f : FoundTo(r, s, j, f)
  BY <1>2, <1>3
<1> HIDE DEF bad
<1> DEFINE G(j) == CHOOSE f : FoundTo(r, s, j, f)
           b == [k \in r |-> G(k)[k]]
           c == [k \in r |-> IF k < m THEN b[k] ELSE WhoAfter(r, s, m, b)]
<1>5. \A j \in Nat : j < m => FoundTo(r, s, j, G(j))
  BY <1>4
<1> HIDE DEF G
<1>6. ASSUME NEW k \in r, k < m
      PROVE  c[k] = WhoAfter(r, s, k, c)
  <2>1. k \in Nat /\ FoundTo(r, s, k, G(k))
    BY <1>5, <1>6
  <2>2. ASSUME NEW j \in r, j < k
        PROVE  c[j] = G(k)[j]
    <3>1. j \in Nat /\ j < m /\ j <= k
      BY <1>3, <1>6, <2>1, <2>2
    <3>2. FoundTo(r, s, j, G(j)) /\ FoundTo(r, s, j, G(k))
      BY <1>5, <2>1, <2>2, <3>1 DEF FoundTo
    <3>3. G(j)[j] = G(k)[j]
      BY <3>1, <3>2, FoundOnce
    <3> QED  BY <3>1, <3>3
  <2>3. WhoAfter(r, s, k, c) = WhoAfter(r, s, k, G(k))
    <3> HIDE DEF c
    <3> QED  BY <2>2, WhoAfterBefore
  <2>4. G(k)[k] = WhoAfter(r, s, k, G(k))
    BY <2>1 DEF FoundTo
  <2>5. c[k] = G(k)[k]
    BY <1>6
  <2> QED  BY <2>3, <2>4, <2>5
<1>7. ASSUME m \in r
      PROVE  c[m] = WhoAfter(r, s, m, c)
  <2>1. \A j \in r : j < m => c[j] = b[j]
    OBVIOUS
  <2>2. c[m] = WhoAfter(r, s, m, b)
    BY <1>3, <1>7
  <2> HIDE DEF c, b
  <2> QED  BY <2>1, <2>2, WhoAfterBefore
<1>8. FoundTo(r, s, m, c)
  <2> HIDE DEF c
  <2>1. ASSUME NEW k \in r, k <= m
        PROVE  c[k] = WhoAfter(r, s, k, c)
    BY <1>3, <1>6, <1>7, <2>1
  <2> QED  BY <2>1 DEF FoundTo
<1> QED  BY <1>3, <1>8

(* WhoIs is what one finds: a run learns of its PRs in their order. *)
LEMMA WhoIsFound ==
  ASSUME NEW r \in Runs, NEW s, NEW n \in r
  PROVE  WhoIs(r, s)[n] = WhoAfter(r, s, n, WhoIs(r, s))
<1> DEFINE G(j) == CHOOSE f : FoundTo(r, s, j, f)
           b == [k \in r |-> G(k)[k]]
<1>1. r \in SUBSET Nat
  BY AcceptAssumption
<1>2. \A j \in Nat : FoundTo(r, s, j, G(j))
  BY <1>1, FoundAlways
<1> HIDE DEF G
<1>3. ASSUME NEW k \in r
      PROVE  b[k] = WhoAfter(r, s, k, b)
  <2>1. k \in Nat /\ FoundTo(r, s, k, G(k))
    BY <1>1, <1>2
  <2>2. ASSUME NEW j \in r, j < k
        PROVE  b[j] = G(k)[j]
    <3>1. j \in Nat /\ j <= k
      BY <1>1, <2>1, <2>2
    <3>2. FoundTo(r, s, j, G(j)) /\ FoundTo(r, s, j, G(k))
      <4>1. \A i \in r : i <= j => i <= k
        BY <1>1, <2>1, <2>2, <3>1
      <4> QED  BY <1>2, <2>1, <3>1, <4>1 DEF FoundTo
    <3>3. G(j)[j] = G(k)[j]
      BY <1>1, <3>1, <3>2, FoundOnce
    <3> QED  BY <3>3
  <2>3. WhoAfter(r, s, k, b) = WhoAfter(r, s, k, G(k))
    <3> HIDE DEF b
    <3> QED  BY <1>1, <2>2, WhoAfterBefore
  <2>4. G(k)[k] = WhoAfter(r, s, k, G(k)) /\ b[k] = G(k)[k]
    BY <2>1 DEF FoundTo
  <2> QED  BY <2>3, <2>4
<1>4. b = [k \in r |-> WhoAfter(r, s, k, b)]
  BY <1>3
<1> HIDE DEF b
<1>5. WhoIs(r, s) = CHOOSE f : f = [k \in r |-> WhoAfter(r, s, k, f)]
  BY DEF WhoIs, WhoAfter
<1>6. WhoIs(r, s) = [k \in r |-> WhoAfter(r, s, k, WhoIs(r, s))]
  BY <1>4, <1>5
<1> QED  BY <1>6

(* The entry found under a login, if any, is of that login in some spelling, and
   resolve_contributor credits it or the login itself. *)
LEMMA ResolvesLogin ==
  ASSUME NEW people, DOMAIN people \subseteq Nat, NEW pr, NEW login, login # None, pr.login = login, NEW claim
  PROVE  LET who == ResolveContributor(people, pr, claim, None)
         IN  who.github # None /\ Same(who.github, login)
<1> DEFINE who == ResolveContributor(people, pr, claim, None)
           T == {i \in DOMAIN people : people[i].github # None /\ Same(people[i].github, login)}
           known == FirstAt(people, T)
<1>1. (who = known /\ known # NoPerson) \/ who.github = login
  BY DEF ResolveContributor, ByGithub
<1>2. ASSUME known # NoPerson
      PROVE  known.github # None /\ Same(known.github, login)
  <2>1. T \in SUBSET Nat
    OBVIOUS
  <2>2. T # {} /\ known = people[MinOf(T)]
    BY <1>2 DEF FirstAt
  <2>3. MinOf(T) \in T
    <3> HIDE DEF T
    <3> QED  BY <2>1, <2>2, MinOfIn
  <2> QED  BY <2>2, <2>3
<1>3. Same(login, login)
  BY DEF Same
<1> HIDE DEF who, known
<1>4. who.github # None /\ Same(who.github, login)
  BY <1>1, <1>2, <1>3
<1> QED  BY <1>4 DEF who

(* Whoever is identified from a description is who it says. *)
LEMMA IdentifiesLogin ==
  ASSUME NEW people, DOMAIN people \subseteq Nat, NEW pr, NEW login, login # None, pr.login = login,
         NEW index, NEW seen, NEW who, who = Identified(pr, index, people, None, seen), ~ who.refused
  PROVE  who.github # None /\ Same(who.github, login)
<1> DEFINE claim == IdentityClaim(pr, index, people)
           found == ResolveContributor(people, pr, claim, None)
           taken == \/ claim # NoClaim /\ None = None /\ OwnershipConflict(pr, claim, people)
                    \/ found = NoPerson
                    \/ KeyTaken(people, found, seen)
           asks == claim.anonymous /\ found.github # None /\ Same(claim.author, found.github)
           is == [key |-> found.key, github |-> found.github, hf |-> found.hf,
                  anonymous |-> found.anonymous \/ asks, claim |-> claim.issue, refused |-> FALSE]
<1>1. who = IF taken THEN Refused ELSE is
  BY DEF Identified
<1>2. Refused.refused
  BY DEF Refused
<1>3. who.github = found.github
  BY <1>1, <1>2
<1>4. found.github # None /\ Same(found.github, login)
  BY ResolvesLogin
<1> QED  BY <1>3, <1>4

\* The state a run's file is in, or the fresh one.
PriorNamed(r, s) == s = Fresh \/ NamedIs(r, s)

(* What a run that is not refused takes its PRs to be by is who they say. *)
LEMMA KnownNamed ==
  ASSUME IInv, WellNamed, ListedPeople, branch \in DOMAIN local, NEW r \in Runs,
         NEW s, s = [f \in FileFields |-> s[f]], PriorNamed(r, s), ~ Refuses(r, s)
  PROVE  NamedIs(r, Known(r, s))
<1> DEFINE w == WhoIs(r, s)
           people == People(local[branch].registry)
<1>1. Known(r, s).who = w
  <2> DEFINE hand == s.hand \cup {n \in ToDo(r, s) : status[n] = "merged"}
  <2>1. Known(r, s) = [s EXCEPT !.pulls = Pulls(r, s), !.who = w, !.hand = hand]
    BY DEF Known
  <2> HIDE DEF w, hand
  <2> QED  BY <2>1 DEF FileFields
<1>2. DOMAIN people \subseteq Nat
  BY ListIs DEF People, ListedPeople
<1>3. ASSUME NEW n \in r
      PROVE  w[n].github # None /\ Same(w[n].github, world.pr[n].login)
  <2>1. w[n] = WhoAfter(r, s, n, w)
    BY WhoIsFound
  <2>2. CASE n \notin ToDo(r, s)
    <3>1. w[n] = s.who[n]
      BY <2>1, <2>2 DEF WhoAfter
    <3>2. s # Fresh
      BY <2>2 DEF ToDo, Fresh, Empty
    <3> QED  BY <3>1, <3>2 DEF PriorNamed, NamedIs
  <2>3. CASE n \in ToDo(r, s)
    <3>1. n \in UNION Runs /\ world \in Worlds
      BY DEF IInv
    <3>2. "login" \in DOMAIN world.pr[n] /\ world.pr[n].login # None
      BY <3>1 DEF WellNamed
    <3>3. PrOf(n).login = world.pr[n].login
      BY <3>2 DEF PrOf
    <3>4. \E seen : w[n] = Identified(PrOf(n), claims, people, None, seen)
      <4> HIDE DEF w
      <4> QED  BY <2>1, <2>3 DEF WhoAfter
    <3>5. ~ w[n].refused
      BY <2>3 DEF Refuses
    <3> HIDE DEF w, people
    <3> QED  BY <1>2, <3>2, <3>3, <3>4, <3>5, IdentifiesLogin
  <2> QED  BY <2>2, <2>3
<1> HIDE DEF w
<1> QED  BY <1>1, <1>3 DEF NamedIs

-----------------------------------------------------------------------------
\* What a run publishes of a claimed material.

(* The first claim on a material is found among those still open, if it is. *)
LEMMA FirstStays ==
  ASSUME NEW all, NEW index \in SUBSET all,
         \A c \in all : c.issue \in Nat \ {NoNumber},
         \A c, d \in all : c.issue = d.issue => c = d,
         NEW m, NEW c \in index, c = ClaimFor(all, m)
  PROVE  ClaimFor(index, m) = c /\ c # NoClaim
<1> DEFINE H == Holders(all, m)
           issues == {d.issue : d \in H}
<1>1. c # NoClaim
  BY DEF NoClaim
<1>2. H # {} /\ H \subseteq all
  BY <1>1 DEF ClaimFor, Earliest, Holders
<1>3. issues \in SUBSET Nat /\ issues # {}
  BY <1>2
<1>4. \E d \in H : \A e \in H : d.issue <= e.issue
  <2> HIDE DEF H
  <2>1. PICK i \in issues : \A j \in issues : i <= j
    <3> HIDE DEF issues
    <3> QED  BY <1>3, LeastOf
  <2> QED  BY <2>1
<1>5. c \in H /\ \A e \in H : c.issue <= e.issue
  <2>1. c = CHOOSE d \in H : \A e \in H : d.issue <= e.issue
    BY <1>2 DEF ClaimFor, Earliest
  <2> HIDE DEF H
  <2> QED  BY <1>4, <2>1
<1>6. Holders(index, m) \subseteq H /\ c \in Holders(index, m)
  BY <1>5 DEF Holders
<1> DEFINE K == Holders(index, m)
<1>7. ClaimFor(index, m) = CHOOSE d \in K : \A e \in K : d.issue <= e.issue
  BY <1>6 DEF ClaimFor, Earliest
<1> HIDE DEF K, H
<1>8. K \subseteq H /\ c \in K /\ H \subseteq all
  BY <1>2, <1>6 DEF K, H
<1> DEFINE d == ClaimFor(index, m)
<1>9. d \in K /\ \A e \in K : d.issue <= e.issue
  BY <1>5, <1>7, <1>8
<1> HIDE DEF d
<1>10. d.issue <= c.issue /\ c.issue <= d.issue /\ d \in all /\ d.issue \in Nat /\ c.issue \in Nat
  BY <1>5, <1>8, <1>9
<1>11. d.issue = c.issue
  BY <1>10
<1>12. d = c
  BY <1>8, <1>10, <1>11
<1> QED  BY <1>1, <1>12 DEF d

(* Nothing claimed is published but from a holder's delivery, if it is not released. *)
LEMMA DecidesForHolder ==
  ASSUME NEW ns \in SUBSET Nat, ns # {}, NEW m, NEW pays, NEW published, NEW hashes, NEW index,
         NEW logins, NEW release, m \notin release, ClaimFor(index, m) # NoClaim, NEW d,
         d = DecideOne(ns, m, pays, published, hashes, index, logins, release), d.from # NoPr
  PROVE  /\ d.from \in ns /\ logins[d.from] # None
         /\ Same(logins[d.from], ClaimFor(index, m).author)
<1> DEFINE claim == ClaimFor(index, m)
           holders == ByHolder(ns, claim, logins)
           late == Decision("held", NoPr, {}, claim.issue)
           new == Decision("new", MinOf(holders), ns, NoNumber)
           u == DecideUnpublished(ns, claim, logins, m \in release)
           bad == Incomparable(ns, m, pays, published)
           same == Decision("reproduction", NoPr, ns, NoNumber)
<1>1. d = CASE bad -> Conflict
            [] m \in published /\ ~ bad -> IF \A n \in ns : pays[n][m] = hashes[m] THEN same ELSE Conflict
            [] OTHER -> IF \E n, k \in ns : pays[n][m] # pays[k][m] THEN Conflict ELSE u
  BY DEF DecideOne
<1>2. Conflict.from = NoPr /\ same.from = NoPr /\ late.from = NoPr /\ new.from = MinOf(holders)
  BY DEF Conflict, Decision
<1>3. u = IF holders = {} THEN late ELSE new
  BY DEF DecideUnpublished
<1>4. d \in {Conflict, same, u}
  <2> HIDE DEF u, bad, same
  <2>1. CASE bad
    BY <1>1, <2>1
  <2>2. CASE ~ bad /\ m \in published
    BY <1>1, <2>2
  <2>3. CASE ~ bad /\ m \notin published
    BY <1>1, <2>3
  <2> QED  BY <2>1, <2>2, <2>3
<1> HIDE DEF u, same, late, new
<1>5. holders # {} /\ d.from = MinOf(holders)
  BY <1>2, <1>3, <1>4
<1>6. holders \subseteq ns
  BY DEF ByHolder
<1>7. MinOf(holders) \in holders
  <2> HIDE DEF holders
  <2> QED  BY <1>5, <1>6, MinOfIn
<1> QED  BY <1>5, <1>7 DEF ByHolder

(* So does a run, of what it decides: without --release the first claim still open is its PR's. *)
LEMMA DecidedForHolder ==
  ASSUME IInv, WellNamed, claims \subseteq world.claims, NEW r \in Runs,
         NEW s, s = [f \in FileFields |-> s[f]], s = Fresh \/ OfHolder(s),
         NamedIs(r, Known(r, s))
  PROVE  OfHolder(Decided(r, s, {}))
<1> DEFINE known == Known(r, s)
           mats == Mats(known.pulls)
           again == DOMAIN s.decided = {} \/ {} # {} \/ s.heads # HeadsOf(r, s)
           pays == Payloads(mats)
           logins == [n \in r |-> known.who[n].github]
           d == DecideAll(mats, pays, DOMAIN manifest, tables, claims, logins, {})
           o == [n \in r |-> OwnDeliveries({registry, local[branch].registry}, n, mats[n])]
           t == Decided(r, s, {})
<1>1. /\ known = [f \in FileFields |-> known[f]] /\ known.pulls = Pulls(r, s)
      /\ known.decided = s.decided
  BY KnownRecord
<1>2. t = IF ~ again THEN known ELSE [known EXCEPT !.decided = d, !.own = o, !.heads = HeadsOf(r, s)]
  BY DEF Decided
<1>3. DOMAIN mats = r
  BY <1>1, DeliveredIs DEF Pulls
<1>4. CASE ~ again
  <2>1. t = known /\ DOMAIN s.decided # {}
    BY <1>2, <1>4
  <2>2. OfHolder(s)
    BY <2>1 DEF Fresh, Empty
  <2> HIDE DEF t, known
  <2> QED  BY <1>1, <2>1, <2>2 DEF OfHolder, t
<1>5. CASE again
  <2>1. t.decided = d
    <3> DEFINE h == HeadsOf(r, s)
    <3>1. t = [known EXCEPT !.decided = d, !.own = o, !.heads = h]
      BY <1>2, <1>5
    <3> HIDE DEF t, known, d, o, h
    <3> QED  BY <1>1, <3>1, ZenonT(30) DEF FileFields
  <2>2. ASSUME NEW m \in DOMAIN d, d[m].from # NoPr, NEW c \in claims, c = ClaimFor(world.claims, m)
        PROVE  Same(world.pr[d[m].from].login, c.author)
    <3> DEFINE ns == DeliveriesOf(mats, m)
    <3>1. m \in Delivered(mats)
          /\ d[m] = DecideOne(ns, m, pays, DOMAIN manifest, tables, claims, logins, {})
      BY <2>2 DEF DecideAll
    <3>2. ns \subseteq r /\ ns # {} /\ r \subseteq Nat
      <4>1. ns \subseteq r /\ ns # {}
        BY <1>3, <3>1 DEF DeliveriesOf, Delivered
      <4>2. r \subseteq Nat
        BY AcceptAssumption
      <4> QED  BY <4>1, <4>2
    <3>3. ClaimFor(claims, m) = c /\ c # NoClaim
      <4>1. world \in Worlds
        BY DEF IInv
      <4>2. /\ \A e \in world.claims : e.issue \in Nat \ {NoNumber}
            /\ \A e, f \in world.claims : e.issue = f.issue => e = f
        BY <4>1 DEF WellNamed
      <4> QED  BY <2>2, <4>2, FirstStays
    <3> DEFINE n == d[m].from
    <3>4. n \in ns /\ logins[n] # None /\ Same(logins[n], c.author)
      <4> HIDE DEF ns, pays, logins, mats, d
      <4>1. ns \in SUBSET Nat /\ m \notin {} /\ ClaimFor(claims, m) # NoClaim
        BY <3>2, <3>3
      <4> QED  BY <2>2, <3>1, <3>2, <3>3, <4>1, DecidesForHolder
    <3>5. n \in r /\ logins[n] = known.who[n].github
      BY <3>2, <3>4
    <3>6. Same(known.who[n].github, world.pr[n].login)
      BY <3>5 DEF NamedIs
    <3> HIDE DEF known, logins, ns, d
    <3> QED  BY <3>4, <3>5, <3>6 DEF Same, n
  <2> HIDE DEF d, t
  <2>3. OfHolder(t)
    BY <2>1, <2>2 DEF OfHolder
  <2> QED  BY <2>3 DEF t
<1> QED  BY <1>4, <1>5

-----------------------------------------------------------------------------
\* The invariant.

(* What Prepare records is what it finds out of a run that is not refused. *)
LEMMA PrepareWrites ==
  ASSUME IInv, Prepare, files' # files
  PROVE  LET p == Prior(run) IN
         /\ run \in Runs /\ p = [f \in FileFields |-> p[f]] /\ ~ Refuses(run, p)
         /\ (p = files[run] /\ files[run] # NoFile) \/ p = Fresh
         /\ files'[run] \in {Known(run, p), Decided(run, p, proc.release)}
         /\ \A q \in Runs \ {run} : files'[q] = files[q]
<1> DEFINE p == Prior(run)
           k == Known(run, p)
           d == Decided(run, p, proc.release)
<1>1. run \in Runs
  BY DEF Prepare, IInv, ProcIs
<1>2. PriorIs(world, verified, run, p)
  BY <1>1, PriorHolds DEF IInv
<1>3. (p = files[run] /\ files[run] # NoFile) \/ p = Fresh
  BY DEF Prior
<1>4. ~ Refuses(run, p) /\ (Record(k) \/ Record(d))
  BY DEF Prepare, Save, SaveThen
<1> HIDE DEF p
<1>5. p = [f \in FileFields |-> p[f]]
  BY <1>2 DEF PriorIs
<1> HIDE DEF k, d
<1>6. \A s : Record(s) => files'[run] = s /\ \A q \in Runs \ {run} : files'[q] = files[q]
  BY <1>1 DEF Record, IInv, FilesAre
<1>7. files'[run] \in {k, d} /\ \A q \in Runs \ {run} : files'[q] = files[q]
  BY <1>4, <1>6
<1> QED  BY <1>1, <1>3, <1>4, <1>5, <1>7 DEF p, k, d

(* Decisions leave it at whom a run has taken its PRs to be by. *)
LEMMA DecidedWho ==
  ASSUME NEW r, NEW s, s = [f \in FileFields |-> s[f]], NEW release
  PROVE  Decided(r, s, release).who = Known(r, s).who
<1> DEFINE known == Known(r, s)
           t == Decided(r, s, release)
<1>1. known = [f \in FileFields |-> known[f]]
  BY KnownRecord
<1>2. t = known \/ \E d, o, h : t = [known EXCEPT !.decided = d, !.own = o, !.heads = h]
  BY DEF Decided
<1> HIDE DEF known, t
<1>3. t.who = known.who
  BY <1>1, <1>2 DEF FileFields
<1> QED  BY <1>3 DEF known, t

(* Claims are only withdrawn or finished, and what happens outside is counted. *)
LEMMA ClaimsGo ==
  ASSUME Next
  PROVE  claims' \subseteq claims /\ changes' \in {changes, changes + 1}
<1>1. CASE CloseClaims
  BY <1>1 DEF CloseClaims, Unfinished
<1>2. CASE \E c \in claims : WithdrawClaim(c)
  BY <1>2 DEF WithdrawClaim, Change
<1>3. CASE Prepare \/ AllMerged \/ CheckHead \/ TakeAsMerged \/ MergePr \/ MergeRefused
  BY <1>3 DEF Prepare, AllMerged, CheckHead, TakeAsMerged, MergePr, MergeRefused, github
<1>4. CASE CopyPart \/ CopyFiles \/ FinishCopy \/ CommentPr \/ ClosePr \/ NothingToRecord \/ WriteManifest
           \/ MoveLocal
  BY <1>4 DEF CopyPart, CopyFiles, FinishCopy, CommentPr, ClosePr, NothingToRecord, WriteManifest, MoveLocal, github
<1>5. CASE DocsDone \/ DocsDirty \/ DocsEmpty \/ DocsCommit \/ DocsPush \/ DocsOpen \/ DocsLand \/ DocsConflict
  BY <1>5 DEF DocsDone, DocsDirty, DocsEmpty, DocsCommit, DocsPush, DocsOpen, DocsLand, DocsConflict, github
<1>6. CASE WriteCard \/ TellClaim \/ Killed \/ \E r \in Runs, release \in Releases : Start(r, release)
  BY <1>6 DEF WriteCard, TellClaim, Killed, Start, github
<1>7. CASE \/ \E n \in Prs : Push(n) \/ Verify(n) \/ MergeByHand(n)
           \/ \E r \in Runs : ResolveDocs(r) \/ CloseDocs(r) \/ PlanAccept(r)
           \/ OtherCommit \/ Pull \/ PullTables \/ Edit \/ CleanUp
  BY <1>7 DEF Push, Verify, MergeByHand, ResolveDocs, CloseDocs, PlanAccept, OtherCommit,
     Pull, PullTables, Edit, CleanUp, Change, github
<1> QED  BY <1>1, <1>2, <1>3, <1>4, <1>5, <1>6, <1>7 DEF Next, Step, Outside

(* What a run knows of its PRs' authors and has decided for claimants stays true. *)
LEMMA FilesNamed ==
  ASSUME IInv, WellNamed, HInv, branch \in DOMAIN local, proc.release = {}, Next,
         NEW r \in Runs, files'[r] # NoFile
  PROVE  NamedIs(r, files[r])' /\ OfHolder(files[r])'
<1>1. world' = world /\ claims' \subseteq claims
  BY WritersAre, ClaimsGo
<1>2. ASSUME NEW s, NamedIs(r, s), files'[r].who = s.who
      PROVE  NamedIs(r, files[r])'
  BY <1>1, <1>2 DEF NamedIs
<1>3. ASSUME NEW s, OfHolder(s), files'[r].decided = s.decided
      PROVE  OfHolder(files[r])'
  BY <1>1, <1>3 DEF OfHolder
<1>4. files[r] # NoFile => NamedIs(r, files[r]) /\ OfHolder(files[r])
  BY DEF HInv, NamedAre, OfHolders
<1>5. CASE files'[r] = files[r]
  BY <1>2, <1>3, <1>4, <1>5
<1>6. CASE ~ Prepare
  <2>1. files[r] # NoFile
    BY <1>6, FileBegins
  <2>2. CASE r = run /\ Follows(files'[r])
    <3>1. files'[r].who = files[r].who /\ files'[r].decided = files[r].decided
      BY <2>2 DEF Follows, SameCredits, SamePlan, st
    <3> QED  BY <1>2, <1>3, <1>4, <2>1, <3>1
  <2> QED  BY <1>5, <1>6, <2>1, <2>2, FileFollows
<1>7. CASE Prepare /\ files'[r] # files[r]
  <2> DEFINE p == Prior(run)
             k == Known(run, p)
             d == Decided(run, p, {})
  <2>1. /\ run \in Runs /\ p = [f \in FileFields |-> p[f]] /\ ~ Refuses(run, p) /\ r = run
        /\ (p = files[run] /\ files[run] # NoFile) \/ p = Fresh
        /\ files'[run] \in {k, d}
    BY <1>7, PrepareWrites
  <2> HIDE DEF p
  <2>2. PriorNamed(r, p) /\ (p = Fresh \/ OfHolder(p))
    BY <1>4, <2>1 DEF PriorNamed
  <2>3. NamedIs(r, k)
    BY <2>1, <2>2, KnownNamed DEF HInv
  <2>4. d.who = k.who
    BY <2>1, DecidedWho
  <2>5. OfHolder(d)
    BY <2>1, <2>2, <2>3, DecidedForHolder DEF HInv
  <2>6. k.decided = p.decided
    BY <2>1, KnownRecord
  <2>7. OfHolder(k)
    <3>1. CASE p = Fresh
      <4>1. DOMAIN k.decided = {}
        BY <2>6, <3>1 DEF Fresh, Empty
      <4> HIDE DEF k
      <4> QED  BY <4>1 DEF OfHolder
    <3>2. CASE OfHolder(p)
      <4> HIDE DEF k
      <4> QED  BY <2>6, <3>2 DEF OfHolder
    <3> QED  BY <2>2, <3>1, <3>2
  <2>8. CASE files'[r] = k
    <3> HIDE DEF k
    <3> QED  BY <1>2, <1>3, <2>3, <2>7, <2>8
  <2>9. CASE files'[r] = d
    <3> HIDE DEF k, d
    <3> QED  BY <1>2, <1>3, <2>3, <2>4, <2>5, <2>9
  <2> QED  BY <2>1, <2>8, <2>9
<1> QED  BY <1>5, <1>6, <1>7

(* A process copies what it checked: nobody pushes between. *)
LEMMA CopiesOn ==
  ASSUME ~ Window, IInv, CopiesHead, Next
  PROVE  CopiesHead'
<1> SUFFICES ASSUME proc'.at = "copy"
             PROVE  head'[proc'.pr] = st'.pulls[proc'.pr]
  BY DEF CopiesHead
<1>1. proc = [f \in ProcFields |-> proc[f]]
  BY DEF IInv, ProcIs
<1>2. CASE UNCHANGED <<files, proc>> /\ Outside
  <2>1. st' = st
    BY <1>2 DEF st, run
  <2>2. head' = head
    BY <1>2 DEF Outside, Push, Verify, MergeByHand, WithdrawClaim, ResolveDocs, CloseDocs, PlanAccept, OtherCommit,
       Pull, PullTables, Edit, CleanUp, hub
  <2> QED  BY <1>2, <2>1, <2>2 DEF CopiesHead
<1>3. CASE MergeRefused \/ CopyPart
  <2>1. proc' = [proc EXCEPT !.at = "copy"] /\ proc.at = "effect" /\ UNCHANGED <<head, files>>
    BY <1>3, IdleIs DEF MergeRefused, CopyPart, Does, hub
  <2>2. proc'.pr = proc.pr /\ st' = st
    BY <1>1, <2>1 DEF ProcFields, st, run
  <2> QED  BY <2>1, <2>2 DEF IInv, ProcIs
<1>4. CASE \E r \in Runs, release \in Releases : Start(r, release)
  BY <1>4 DEF Start
<1>5. CASE CheckHead \/ CopyFiles
  BY <1>1, <1>5, IdleIs DEF CheckHead, CopyFiles, SaveThen, Crash, Ends, ProcFields
<1>6. ASSUME NEW s, NEW at, Save(s, at), at # "copy"
      PROVE  FALSE
  BY <1>1, <1>6, IdleIs DEF Save, SaveThen, Goes, Crash, Ends, ProcFields
<1>7. ASSUME NEW at, Goes(at), at # "copy"
      PROVE  FALSE
  BY <1>1, <1>7 DEF Goes, ProcFields
<1>8. ~ Ends
  BY IdleIs DEF Ends
<1>9. CASE Prepare \/ AllMerged \/ TakeAsMerged \/ MergePr \/ FinishCopy \/ CommentPr \/ ClosePr
  BY <1>6, <1>8, <1>9 DEF Prepare, AllMerged, TakeAsMerged, MergePr, FinishCopy, CommentPr, ClosePr
<1>10. CASE NothingToRecord \/ WriteManifest \/ MoveLocal \/ WriteCard \/ TellClaim \/ CloseClaims \/ Killed
  BY <1>6, <1>7, <1>8, <1>10 DEF NothingToRecord, WriteManifest, MoveLocal, WriteCard, TellClaim, CloseClaims,
     Killed, Over, Crash
<1>11. CASE DocsDone \/ DocsDirty \/ DocsEmpty \/ DocsCommit \/ DocsPush \/ DocsOpen \/ DocsLand \/ DocsConflict
  BY <1>6, <1>7, <1>8, <1>11 DEF DocsDone, DocsDirty, DocsEmpty, DocsCommit, DocsPush, DocsOpen, DocsLand,
     DocsConflict, Crash
<1> QED  BY <1>2, <1>3, <1>4, <1>5, <1>9, <1>10, <1>11, FilesWritten DEF Next, Step

(* It holds at the start. *)
LEMMA InitNamed ==
  ASSUME WellNamed, Init
  PROVE  HInv
<1>1. world \in Worlds /\ claims = world.claims
  BY DEF Init
<1>2. registry.people = world.people
  BY DEF Init, EmptyRegistry
<1>3. IsFiniteSet(world.people)
  BY <1>1 DEF WellNamed
<1>4. \A b \in DOMAIN local : local[b].registry = registry
  BY DEF Init, AtRev
<1>5. \A r \in Runs : docs[r].pushed.registry.people = {}
  BY DEF Init, NoDocs, AtRev, EmptyRegistry
<1>6. ListedPeople
  BY <1>2, <1>3, <1>4, <1>5, FS_EmptySet DEF ListedPeople
<1>7. proc.at # "copy"
  BY DEF Init, Idle
<1>8. changes \in Nat /\ \A r \in Runs : files[r] = NoFile
  BY DEF Init
<1> QED  BY <1>1, <1>6, <1>7, <1>8 DEF HInv, NamedAre, OfHolders, CopiesHead

(* Every step keeps it. *)
LEMMA StepNamed ==
  ASSUME ~ Window, WellNamed, IInv, HInv, branch \in DOMAIN local, proc.release = {}, [Next]_vars
  PROVE  HInv'
<1>1. CASE UNCHANGED vars
  <2>1. UNCHANGED <<world, head, claims, registry, docs, local, files, proc, changes>>
    BY <1>1 DEF vars, hub, github, checkout
  <2>2. st' = st
    BY <2>1 DEF st, run
  <2> QED  BY <2>1, <2>2 DEF HInv, ListedPeople, NamedAre, NamedIs, OfHolders, OfHolder, CopiesHead
<1>2. CASE Next
  <2>1. claims' \subseteq world'.claims /\ changes' \in Nat
    BY <1>2, ClaimsGo, WritersAre DEF HInv
  <2>2. ListedPeople' /\ CopiesHead'
    BY <1>2, PeopleOn, CopiesOn DEF HInv
  <2>3. NamedAre' /\ OfHolders'
    BY <1>2, FilesNamed DEF NamedAre, OfHolders
  <2> QED  BY <2>1, <2>2, <2>3 DEF HInv
<1> QED  BY <1>1, <1>2

-----------------------------------------------------------------------------
\* What comes onto main.

(* Who has the first claim has one. *)
LEMMA ClaimForOneOf ==
  ASSUME NEW index, \A d \in index : d.issue \in Nat \ {NoNumber}, NEW m, ClaimFor(index, m) # NoClaim
  PROVE  ClaimFor(index, m) \in index
<1> DEFINE H == Holders(index, m)
           issues == {d.issue : d \in H}
<1>1. H # {} /\ H \subseteq index
  BY DEF ClaimFor, Earliest, Holders
<1>2. issues \in SUBSET Nat /\ issues # {}
  BY <1>1
<1>3. \E d \in H : \A e \in H : d.issue <= e.issue
  <2> HIDE DEF H
  <2>1. PICK i \in issues : \A j \in issues : i <= j
    <3> HIDE DEF issues
    <3> QED  BY <1>2, LeastOf
  <2> QED  BY <2>1
<1>4. ClaimFor(index, m) = CHOOSE d \in H : \A e \in H : d.issue <= e.issue
  BY <1>1 DEF ClaimFor, Earliest
<1> HIDE DEF H
<1> QED  BY <1>1, <1>3, <1>4

(* What a process puts on main it publishes, from the PR's head. *)
LEMMA PublishesHead ==
  ASSUME ~ Window, IInv, CopiesHead, changes \in Nat, Next, NEW m \in DOMAIN main' \ DOMAIN main, changes' = changes
  PROVE  /\ run \in Runs /\ st # NoFile /\ m \in DOMAIN st.decided
         /\ LET n == st.decided[m].from IN n \in run /\ n # NoPr /\ m \in Materials(n, head[n])
<1>1. MergePr \/ CopyFiles
  <2>1. ASSUME NEW n \in Prs
        PROVE  ~ MergeByHand(n)
    BY <2>1 DEF MergeByHand, Change
  <2>2. ~ WriteManifest \/ main' = main
    BY DEF WriteManifest
  <2> QED  BY <2>1, <2>2, Writers
<1> DEFINE n == proc.pr
           v == st.pulls[n]
<1>2. /\ run \in Runs /\ st # NoFile /\ n \in run /\ n # NoPr /\ head[n] = v /\ DOMAIN st.pulls = run
      /\ DOMAIN st.decided = Brought(world, st.pulls)
  <2>1. proc.at \in {"effect", "copy"}
    BY <1>1 DEF MergePr, CopyFiles, Does
  <2>2. run \in Runs /\ st # NoFile /\ n \in run
    BY <2>1 DEF IInv, ProcIs
  <2>3. head[n] = v
    BY <2>1 DEF IInv, ProcIs, CopiesHead
  <2>4. Ready(world, DOMAIN manifest, st) /\ FileIs(world, verified, run, st)
    BY <2>1, <2>2 DEF IInv, ProcIs, FilesAre, Merging, st
  <2> QED  BY <2>2, <2>3, <2>4, AcceptAssumption DEF Ready, FileIs
<1>3. m \in PubOf(st, n)
  <2>1. CASE MergePr
    <3>1. m \in Materials(n, v)
      BY <1>2, <2>1 DEF MergePr, Overwrite, Now, Materials
    <3>2. Action(n, Materials(n, v), st.decided, st.own[n]) = "merge"
      BY <2>1 DEF MergePr, Does, ActionOf
    <3>3. Materials(n, v) \subseteq Pub(n, Materials(n, v), st.decided)
      BY <3>2, MergePublishes
    <3> QED  BY <3>1, <3>3 DEF PubOf
  <2>2. CASE CopyFiles
    BY <2>2 DEF CopyFiles, Overwrite, Only
  <2> QED  BY <1>1, <2>1, <2>2
<1>4. m \in Materials(n, v) /\ st.decided[m].from = n
  BY <1>3 DEF PubOf, Pub
<1>5. m \in DOMAIN st.decided
  BY <1>2, <1>4 DEF Brought, Materials, Delivery
<1> QED  BY <1>2, <1>4, <1>5

(* Without --release nothing comes onto main for which somebody holds the first claim, still
   open, but that somebody's own delivery: if no push lands between accept's head check and
   the merge, every PR's description names its author, and the branch that is checked out
   exists. *)
THEOREM HeldStaysAll ==
  ASSUME ~ Window, WellNamed
  PROVE  Spec /\ [](proc.release = {} /\ branch \in DOMAIN local) => HeldStays
<1>1. Init => HInv
  BY InitNamed
<1>2. IInv /\ HInv /\ (proc.release = {} /\ branch \in DOMAIN local) /\ [Next]_vars => HInv'
  BY StepNamed
<1>3. IInv /\ HInv /\ [Next]_vars =>
        [\A m \in DOMAIN main' \ DOMAIN main :
           LET c == ClaimFor(claims \cap world.claims, m) IN
           changes' = changes /\ proc.release = {} /\ c # NoClaim /\ ClaimFor(world.claims, m) = c
             => \E n \in Prs : /\ m \in Materials(n, head[n]) /\ world.pr[n].login # None
                               /\ Same(world.pr[n].login, c.author)]_vars
  <2> SUFFICES ASSUME IInv, HInv, Next, NEW m \in DOMAIN main' \ DOMAIN main, changes' = changes,
                      NEW c, c = ClaimFor(claims \cap world.claims, m), c # NoClaim,
                      ClaimFor(world.claims, m) = c
               PROVE  \E n \in Prs : /\ m \in Materials(n, head[n]) /\ world.pr[n].login # None
                                     /\ Same(world.pr[n].login, c.author)
    OBVIOUS
  <2>1. world \in Worlds
    BY DEF IInv
  <2>2. c \in claims
    <3> DEFINE open == claims \cap world.claims
    <3>1. open \subseteq world.claims /\ c = ClaimFor(open, m)
      OBVIOUS
    <3>2. \A d \in world.claims : d.issue \in Nat \ {NoNumber}
      BY <2>1 DEF WellNamed
    <3>3. c \in open
      <4> HIDE DEF open
      <4> QED  BY <3>1, <3>2, ClaimForOneOf
    <3> QED  BY <3>3
  <2> DEFINE n == st.decided[m].from
  <2>3. /\ run \in Runs /\ st # NoFile /\ m \in DOMAIN st.decided
        /\ n \in run /\ n # NoPr /\ m \in Materials(n, head[n])
    BY PublishesHead DEF HInv
  <2>4. Same(world.pr[n].login, c.author)
    BY <2>2, <2>3 DEF HInv, OfHolders, OfHolder, st
  <2>5. n \in Prs /\ world.pr[n].login # None
    <3>1. n \in UNION Runs
      BY <2>3
    <3> HIDE DEF n
    <3> QED  BY <2>1, <3>1 DEF WellNamed, Prs
  <2> QED  BY <2>3, <2>4, <2>5
<1> QED  BY <1>1, <1>2, <1>3, Invariant, PTL DEF Spec, HeldStays
=============================================================================
