----------------------------- MODULE ClaimsBot -----------------------------
(***************************************************************************)
(* The claims workflow: one run reads every open claim, the manifest and   *)
(* the open PRs once, then brings one status comment and three labels of   *)
(* each claim up to date, call by call.  Any call may fail (the run goes   *)
(* on with the next claim), the runner may die, and authors, the           *)
(* maintainer and the calendar go on meanwhile.  Runs never overlap        *)
(* (claims.yml: concurrency group, no cancelling).                         *)
(* Source: contrib/{claims,github,docs_sync}.py.                           *)
(***************************************************************************)
EXTENDS Claims

CONSTANTS
  Materials, Bare,   \* material numbers; those whose White has only the king
  Settings,          \* [drafts, opened, people, prs, maxDay, maxWorld, maxFailures]: the bodies each
                     \* issue may be opened with, the issues open before the first run, the
                     \* registry's contributors, the dataset PRs there may be, and bounds on days,
                     \* changes of the world and calls that fail
  Producers,         \* who a published table may be credited to: sets of logins
  StaleDays

ASSUME BotAssumption ==
  /\ StaleDays \in Nat \ {0}
  /\ \A s \in Settings :
       /\ {s.maxDay, s.maxWorld, s.maxFailures} \subseteq Nat
       /\ s.opened \subseteq DOMAIN s.drafts /\ IsFiniteSet(s.opened)
       /\ DOMAIN s.drafts \subseteq Nat \ {NoNumber}   \* as GitHub numbers issues
       /\ \A n \in DOMAIN s.drafts : \A b \in s.drafts[n] : b.author # None

VARIABLES
  setting,     \* the one of Settings this behaviour has
  day,
  issues,      \* number -> the issue as it is now; created, and touched: the last day its
               \* author commented or edited its body
  open,        \* open issue numbers
  done,        \* published material -> logins of its producers
  inReview,    \* material -> the open PR that delivers it
  status,      \* number -> bodies of the bot's marked comments
  notices,     \* number -> the earlier issues its overlap notices name
  labels,
  snap,        \* what the run read at its start
  todo,        \* claims the run has not reached, in order
  at,          \* the call the run makes next, "idle" between runs
  read,        \* the comments of the claim in hand, as listed
  settled,     \* history: runs begun since the world last changed or a call failed, 2 for more
  changes, failures   \* bounded counters

world == <<issues, open, done, inReview>>
github == <<status, notices, labels>>
run == <<snap, todo, at, read>>
counters == <<changes, failures>>
vars == <<setting, day, world, github, run, settled, counters>>

Numbers == UNION {DOMAIN s.drafts : s \in Settings}
NoRead == [status |-> <<>>, notices |-> {}, told |-> {}, spoke |-> 0]

Unopened == [number |-> NoNumber, author |-> None, plain |-> {}, wild |-> {}, title |-> {},
             struck |-> {}, hf |-> None, anonymous |-> FALSE, confirm |-> FALSE,
             created |-> 0, spoke |-> 0, touched |-> 0]
Written(n, b, d) ==
  [number |-> n, author |-> b.author, plain |-> b.plain, wild |-> b.wild, title |-> b.title,
   struck |-> {}, hf |-> b.hf, anonymous |-> b.anonymous, confirm |-> b.confirm,
   created |-> d, spoke |-> 0, touched |-> d]

Init ==
  /\ day = 0
  /\ setting \in Settings
  /\ \E b \in [setting.opened -> UNION {setting.drafts[n] : n \in setting.opened}] :
       /\ \A n \in setting.opened : b[n] \in setting.drafts[n]
       /\ issues = [n \in Numbers |-> IF n \in setting.opened THEN Written(n, b[n], 0) ELSE Unopened]
  /\ open = setting.opened
  /\ done = [m \in {} |-> {}] /\ inReview = [m \in {} |-> {}]
  /\ status = [n \in Numbers |-> <<>>]
  /\ notices = [n \in Numbers |-> <<>>]
  /\ labels = [n \in Numbers |-> {}]
  /\ snap = [day |-> 0, issues |-> issues, open |-> {}, done |-> done, inReview |-> inReview]
  /\ todo = <<>> /\ at = "idle" /\ read = NoRead
  /\ settled = 0
  /\ changes = 0 /\ failures = 0

-----------------------------------------------------------------------------
\* The world: authors, the maintainer, the calendar.

Change ==
  /\ changes < setting.maxWorld /\ changes' = changes + 1
  /\ settled' = 0
  /\ UNCHANGED <<setting, day, github, run, failures>>

OpenIssue(n) ==
  /\ n \in DOMAIN setting.drafts /\ issues[n] = Unopened
  /\ \A k \in DOMAIN setting.drafts : k < n => issues[k] # Unopened
  /\ \E b \in setting.drafts[n] : issues' = [issues EXCEPT ![n] = Written(n, b, day)]
  /\ open' = open \cup {n}
  /\ UNCHANGED <<done, inReview>>
  /\ Change

\* Striking a name through releases it, in the title as in the body.
Strike(n, m) ==
  /\ n \in open /\ m \in (issues[n].plain \cup issues[n].wild) \ issues[n].struck
  /\ issues' = [issues EXCEPT ![n].struck = @ \cup {m},
                                      ![n].touched = IF m \in issues[n].title THEN @ ELSE day]
  /\ UNCHANGED <<open, done, inReview>>
  /\ Change

AuthorComments(n) ==
  /\ n \in open
  /\ issues' = [issues EXCEPT ![n].spoke = day, ![n].touched = day]
  /\ UNCHANGED <<open, done, inReview>>
  /\ Change

OpenPr(p) ==
  /\ p.materials \cap (DOMAIN inReview \cup DOMAIN done) = {}
  /\ inReview' = [m \in DOMAIN inReview \cup p.materials |->
                    IF m \in p.materials THEN p ELSE inReview[m]]
  /\ UNCHANGED <<issues, open, done>>
  /\ Change

Publish(m, logins) ==
  /\ m \notin DOMAIN done
  /\ done' = [k \in DOMAIN done \cup {m} |-> IF k = m THEN logins ELSE done[k]]
  /\ inReview' = [k \in DOMAIN inReview \ {m} |-> inReview[k]]
  /\ UNCHANGED <<issues, open>>
  /\ Change

\* close_finished_claims, called by accept and by docs sync.
CloseFinished(n) ==
  LET claimed == Parsed(issues[n]).materials IN
  /\ n \in open /\ claimed # {}
  /\ claimed \subseteq DOMAIN done \cup (Bare \ DOMAIN inReview)
  /\ open' = open \ {n}
  /\ UNCHANGED <<issues, done, inReview>>
  /\ Change

NextDay ==
  /\ day < setting.maxDay /\ day' = day + 1
  /\ UNCHANGED <<setting, world, github, run, settled, counters>>

-----------------------------------------------------------------------------
\* A run.

Sorted(S) == CHOOSE s \in [1 .. Cardinality(S) -> S] :
               \A i, j \in DOMAIN s : i < j => s[i] < s[j]

NextClaim ==
  /\ todo' = Tail(todo) /\ read' = NoRead
  /\ at' = IF Tail(todo) = <<>> THEN "idle" ELSE "comments"
Proceed(call) == at' = call /\ UNCHANGED <<todo, read>>

StartRun ==
  /\ at = "idle"
  /\ snap' = [snap EXCEPT !.day = day, !.issues = issues, !.open = open]
  /\ todo' = Sorted(open)
  /\ at' = "manifest"
  /\ settled' = IF settled = 2 THEN 2 ELSE settled + 1
  /\ UNCHANGED <<setting, day, world, github, read, counters>>

ReadManifest ==
  /\ at = "manifest"
  /\ snap' = [snap EXCEPT !.done = done]
  /\ Proceed("prs")
  /\ UNCHANGED <<setting, day, world, github, settled, counters>>

ReadPrs ==
  /\ at = "prs"
  /\ snap' = [snap EXCEPT !.inReview = inReview]
  /\ Proceed(IF todo = <<>> THEN "idle" ELSE "comments")
  /\ UNCHANGED <<setting, day, world, github, settled, counters>>

Here == Head(todo)
Index == {Parsed(snap.issues[n]) : n \in snap.open}
Claim == Parsed(snap.issues[Here])

StateOf(m) == Status(m, DOMAIN snap.done, DOMAIN snap.inReview, Bare, Index)
Other(m) == LET c == ClaimFor(Index, m) IN c # NoClaim /\ c.issue # Here

Conflicts ==
  {m \in Claim.explicit :
     /\ ~ Claim.confirm
     /\ \/ Other(m)
        \/ m \in DOMAIN snap.done /\ \A p \in snap.done[m] : ~ Same(p, Claim.author)}
Excluded == {m \in Claim.materials \ Claim.explicit : ~ Claim.confirm /\ Other(m)}
HeldFor(m) ==
  IF StateOf(m) = "in review" /\ HeldByBot(snap.inReview[m], m, Index, setting.people)
    THEN ClaimFor(Index, m).issue ELSE NoNumber

\* What body_sha tells apart: an edit of the title leaves it as it was.
BodyOf(i) == <<i.plain \ i.title, i.wild \ i.title, i.struck \ i.title>>
Body(n) == BodyOf(snap.issues[n])

\* The marked comments a bot left, whatever body they were made for.
MineSameBody == SelectSeq(read.status, LAMBDA t : t.sha = Body(Here))
Mine == read.status

SeenToday == snap.day
Seen == IF Mine # <<>> /\ Head(Mine).sha = Body(Here) THEN Head(Mine).seen ELSE snap.day

Latest(S) == CHOOSE d \in S : \A e \in S : e <= d
Stale == snap.day - Latest({snap.issues[Here].created, Seen, read.spoke}) >= StaleDays

Text ==
  [sha |-> Body(Here), seen |-> Seen, stale |-> Stale, conflicts |-> Conflicts,
   rows |-> [m \in Claim.materials |->
               IF m \in Excluded THEN <<"excluded", ClaimFor(Index, m).issue, StateOf(m) = "done">>
               ELSE <<StateOf(m), HeldFor(m)>>]]

\* gh.comments: what the update decides from is read once, here.
ReadComments ==
  /\ at = "comments"
  /\ read' = [status |-> status[Here], notices |-> {notices[Here][i] : i \in DOMAIN notices[Here]},
              told |-> {}, spoke |-> issues[Here].spoke]
  /\ at' = "status" /\ UNCHANGED todo
  /\ UNCHANGED <<setting, day, world, github, snap, settled, counters>>

WriteStatusAndStop ==   \* nothing more to do when the comment is as it was
  /\ at = "status"
  /\ IF Mine # <<>> /\ Mine[1] = Text THEN NextClaim /\ UNCHANGED status
     ELSE /\ status' = [status EXCEPT ![Here] = IF Mine = <<>> THEN Append(@, Text)
                                               ELSE [@ EXCEPT ![1] = Text]]
          /\ Proceed("overlap")
  /\ UNCHANGED <<setting, day, world, notices, labels, snap, settled, counters>>
WriteStatus ==
  /\ at = "status"
  /\ status' = [status EXCEPT ![Here] = IF Mine = <<>> THEN Append(@, Text)
                                        ELSE [@ EXCEPT ![1] = Text]]
  /\ Proceed("overlap")
  /\ UNCHANGED <<setting, day, world, notices, labels, snap, settled, counters>>

\* Earlier claims by others on materials of this one, with no notice yet.
Overlapping ==
  {e \in Index : /\ e.issue < Here /\ ~ e.confirm /\ ~ Claim.confirm
                 /\ ~ Same(e.author, Claim.author)
                 /\ Claim.materials \cap (e.materials \ e.released) # {}}
Overlaps == {e \in Overlapping : e.issue \notin read.notices \cup read.told}

WriteNotice ==
  /\ at = "overlap"
  /\ IF Overlaps = {} THEN Proceed("claim") /\ UNCHANGED notices
     ELSE LET e == Earliest(Overlaps).issue IN
          /\ notices' = [notices EXCEPT ![Here] = Append(@, e)]
          /\ read' = [read EXCEPT !.told = @ \cup {e}]   \* the loop goes on to the next claim
          /\ UNCHANGED <<at, todo>>
  /\ UNCHANGED <<setting, day, world, status, labels, snap, settled, counters>>

SetLabelOnly(label, on) == labels' = [labels EXCEPT ![Here] = IF on THEN @ \cup {label} ELSE @]
SetLabel(label, on) ==
  labels' = [labels EXCEPT ![Here] = IF on THEN @ \cup {label} ELSE @ \ {label}]

WriteLabel ==
  /\ \/ at = "claim" /\ SetLabel("claim", TRUE) /\ Proceed("claim-conflict")
     \/ at = "claim-conflict" /\ SetLabel("claim-conflict", Conflicts # {}) /\ Proceed("claim-stale")
     \/ at = "claim-stale" /\ SetLabel("claim-stale", Stale) /\ NextClaim
  /\ UNCHANGED <<setting, day, world, status, notices, snap, settled, counters>>

\* The call raises OSError: run_claims notes it and takes the next claim.
CallFails ==
  /\ at \notin {"idle", "manifest", "prs"} /\ failures < setting.maxFailures
  /\ failures' = failures + 1 /\ settled' = 0
  /\ NextClaim
  /\ UNCHANGED <<setting, day, world, github, snap, changes>>

\* Or a call before the first claim fails, which ends the run.
RunnerDies ==
  /\ at # "idle" /\ failures < setting.maxFailures
  /\ failures' = failures + 1 /\ settled' = 0
  /\ at' = "idle" /\ todo' = <<>> /\ read' = NoRead
  /\ UNCHANGED <<setting, day, world, github, snap, changes>>

BotStep == ReadManifest \/ ReadPrs \/ ReadComments \/ WriteStatus \/ WriteNotice \/ WriteLabel

Authors ==
  \/ \E n \in Numbers : OpenIssue(n) \/ AuthorComments(n) \/ CloseFinished(n)
  \/ \E n \in Numbers, m \in Materials : Strike(n, m)
  \/ \E p \in setting.prs : OpenPr(p)
  \/ \E m \in Materials, logins \in Producers : Publish(m, logins)

Next == Authors \/ NextDay \/ StartRun \/ BotStep \/ CallFails \/ RunnerDies

(* The workflow runs on a schedule and a run's next call is made: both are the
   Actions runner's promise.  Nothing else is fair. *)
Spec == Init /\ [][Next]_vars /\ WF_vars(StartRun) /\ WF_vars(BotStep)
-----------------------------------------------------------------------------
TypeOK ==
  /\ day \in 0 .. setting.maxDay
  /\ open \subseteq Numbers /\ \A n \in open : issues[n].number = n
  /\ DOMAIN done \subseteq Materials /\ DOMAIN inReview \subseteq Materials
  /\ \A n \in Numbers : labels[n] \subseteq {"claim", "claim-conflict", "claim-stale"}
  /\ at \in {"idle", "manifest", "prs", "comments", "status", "overlap",
             "claim", "claim-conflict", "claim-stale"}
  /\ at \in {"idle", "manifest", "prs"} \/ todo # <<>>
  /\ settled \in 0 .. 2
  /\ changes \in 0 .. setting.maxWorld /\ failures \in 0 .. setting.maxFailures

(* "The one status comment the bot keeps up to date on each claim" (claims.py:1)
   and a notice "once per (this claim, earlier claim) pair" (claims.py:319): a run
   that dies after posting and a body edited since never make a second. *)
SaidOnce ==
  \A n \in Numbers :
    /\ Len(status[n]) <= 1
    /\ \A i, j \in DOMAIN notices[n] : notices[n][i] = notices[n][j] => i = j

\* What the contributors should see on issue n, from the world as it is.
NowIndex == {Parsed(issues[n]) : n \in open}
NowState(m) == Status(m, DOMAIN done, DOMAIN inReview, Bare, NowIndex)
Contested(n) ==
  LET c == Parsed(issues[n]) IN
  /\ ~ c.confirm
  /\ \E m \in c.explicit :
       \/ ClaimFor(NowIndex, m) # NoClaim /\ ClaimFor(NowIndex, m).issue # n
       \/ m \in DOMAIN done /\ ~ \E p \in done[m] : Same(p, c.author)
Shown(n) == status[n][1]
ShownRight(n) ==
  /\ status[n] # <<>>
  /\ DOMAIN Shown(n).rows = Parsed(issues[n]).materials
  /\ \A m \in DOMAIN Shown(n).rows :
       LET row == Shown(n).rows[m] IN
       IF row[1] = "excluded"
         THEN row[2] = ClaimFor(NowIndex, m).issue /\ row[3] = (m \in DOMAIN done)
         ELSE row[1] = NowState(m)
  /\ "claim" \in labels[n]
  /\ "claim-conflict" \in labels[n] <=> Contested(n)
  /\ "claim-stale" \in labels[n] <=> Shown(n).stale

AtRest == settled > 0 /\ at = "idle"

(* A run in which no call failed, over a world that stood still, leaves every
   open claim's comment and labels true, whatever earlier runs left half done; and
   it marks a claim stale ("claims lapse after three weeks of silence",
   claims.py:201) only if its author neither commented nor edited the body for that long,
   although the bot learns of an edit only from a body it has not seen.  An edit of the
   title, which changes the claim as well (claims.py:120), is no activity to it
   (claims.py:295): touched leaves it out. *)
Mirrors ==
  AtRest =>
    \A n \in open :
      /\ ShownRight(n)
      /\ "claim-stale" \in labels[n] => snap.day - issues[n].touched >= StaleDays

(* A second run over an unchanged world edits nothing but the lapse of a claim, so
   that nobody is notified for nothing; the day in the marker must not move. *)
Quiet ==
  [][\A n \in Numbers :
       settled = 2 /\ status[n] # status'[n]
         => status'[n] = [status[n] EXCEPT ![1].stale = ~ @]]_vars

(* Once the world stands still and calls stop failing, the claims come to show
   it: a call that fails half-way is made up for by a later run. *)
EventuallyShown == <>[](\A n \in open : ShownRight(n))
=============================================================================
