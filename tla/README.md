# A TLA+ model of helpmate-tablebase

helpmate-tablebase computes and serves *helpmate* tablebases: for every position of a material
(a "slice" such as `KQvk`) the number of plies until White mates when both sides cooperate (DTM)
and the number of optimal lines. Tables come from the repository's own generator or from
contributors, who claim materials in GitHub issues and deliver tables as pull requests to a
Hugging Face dataset. This directory models the parts whose correctness depends on order: retrograde
passes on many threads, a parallel scan with a bounded ring, caches shared by threads, downloads that
race with requests, and the contribution pipeline, whose commands are interrupted, run again and
overtaken by what people do meanwhile. TLC checks each module on small instances; TLAPS proves the main
safety properties of the threaded parts and of the contribution pipeline for all values of the constants.

Paths below are relative to the repository (`src/core/...`, `src/packages/...`, `docs/...`); *contrib/* is
`src/packages/api/helpmate_server/contrib/`.

## 1. Inventory

### 1.1 Components, their state and what makes them correct

| component | source | state it keeps | operations | correct means | module |
|---|---|---|---|---|---|
| Slice generator | `src/core/generator` | two DTM and two count planes, pass number, misses, `max_dtm` | `init_pass`, `scan_pass`, `run_all_passes`, marking unsolvable cells | planes equal what exhaustive search counts, whatever the threads do | `SliceGame`, `Retrograde`, `SliceGen` |
| Closure generation | `generator.cpp:488-621` | the tables directory | `generate`: missing slices, prune, resume | sub-tables before the slices that need them; nothing half-written is taken as done | none |
| Table files | `src/core/format/table_file.*`, `block_codec.*` | a file, its mapping, its block index | write, re-compress, open, `get`, `read_values`, `read_range` | what is read is what was written | `BlockCache` (reads) |
| Block cache | `src/core/format/block_cache.*` | LRU shards, per-thread slots | `acquire`, `read_range`, `block` | right bytes for the right table; bounded memory | `BlockCache` |
| Tablebase | `src/core/probe/tablebase.*` | loaded slices (and misses), optional shared cache | `probe`, `moves`, `lines`, `mine` | `mine` on N threads is `mine` on one | `MineScan` (mine) |
| Mine sets, shell | `src/core/probe/mine_set.*`, `mine_shell.*` | named sets | set expressions, commands | algebra of sets of positions | none |
| Chess rules, indexing, themes | `src/core/chess`, `indexing`, `themes` | none | pure functions | rules of chess; index is a bijection | abstracted in `SliceGame` |
| CLI, bindings | `src/packages/cli`, `src/packages/bindings` | none | argument and type conversion | | none |
| Remote table cache | `helpmate_server/storage.py`, `manifest.py` | manifest, state per material, verified set, cache directory | `fetch_state`, `start_fetch`, `_fetch`, `status` | one download at a time; only verified files are served | `RemoteFetch` |
| HTTP API | `helpmate_server/app.py`, `aggregate.py` | statistics cache, mine thread pool | one handler per route | answers from one consistent state | `RemoteFetch` (files) |
| Table distribution | `helpmate_server/tables_cli.py`, `corpus_diff.py` | hub, local corpus | push, pull, diff | the manifest never lists what is not there | none |
| Verifying contributions | *contrib/* `verify`, `checks`, `tablefile`, `consistency`, `oracle`, `report` | a staging directory per PR: files, record of them, report, partial report | `verify --pr`, the checks V1 to V8 | a report that passes is true to its head; a wrong table does not pass | `VerifyTable`, `Verify` |
| Accepting contributions | *contrib/* `accept`, `hf`, `registry`, `docs_sync` | a state file per set of PRs; the dataset, origin/main, a checkout | `accept`, `accept --plan` | what lands was verified, credits are true, a rerun resumes | `Decide`, `Accept` |
| Claims bot | *contrib/* `claims`, `github`, `links`, `materials` | one comment, notices and labels per claim issue | `claims` | the comment is true and single; three programs agree whose PR it is | `Claims`, `ClaimsBot`, `Identity` |
| Material pages and showcase | *contrib/* `pages`, `site_data`; `tools/build_problems.py`, `problem_picker.py`, `published_problems.py`, `deepest_showcase.py` | a state file, job directories, a data branch; `DEEPEST.json` | `pages`, `build_problems`, annotate | every page that can be built is shipped, index and themes agree with the pages | `Problems`, `Pages` |
| Corpus statistics | *contrib/* `corpus_stats`, `site_status`, `stats_push` | none | sums over sidecars | | none |
| Web, site, other tools | `src/packages/web`, `src/site`, `src/tools` | browser state, generated documents | rendering | | none |

### 1.2 How they interact

* `generate` runs one slice generator per missing slice in closure order; a generator reads the
  finished tables of its successors through `TableReader`s shared by all its worker threads.
* `Tablebase` opens tables lazily under its lock; its readers use one shared block cache or one each.
  `mine` starts workers, each with a `Tablebase` of its own, that talk to the calling thread through
  one mutex, one condition variable and a ring of segments; matches reach the caller by callback.
* The server's request threads share one `RemoteSource`; each download is a thread of its own. The
  file system is shared without a lock.
* Contributions: authors open claim issues and dataset PRs. The claims bot shows what is claimed by
  whom. `verify` stages a PR's files, checks each table over the published corpus and other verified
  PRs, and leaves a report. `accept` reads reports, claims, the registry and the manifest, decides
  each material, merges or copies on the Hub, rewrites the manifest, moves files to the local corpus,
  lands the credits on origin/main through a docs PR, then the card and the claims. `pages` builds
  what the site shows for the new tables and lands it by a docs PR of its own. Each command keeps a
  file that lets it resume, and none locks anything.

### 1.3 What is hard here

Tiles handed out by an atomic cursor and planes written in place while others read them; a stop rule
that counts empty passes; a ring that must be bounded, in order, and free of lost wakeups; exceptions
and callbacks that end a parallel scan early; racing fills and evictions; names that outlive what they
name (thread-local slots, `_verified`, a staged file's record, a reused report entry); checks made
before the thing they check changes (a PR's head, the manifest a decision was taken against); an effect
on another machine whose record is lost; several programs that resolve the same person by cascades
of their own. `PROJECT.json` lists them at their lines with the properties that would catch them; section 8
names those no module covers.

## 2. Plan

Done, most important behaviour first.

1. **Slice generation**: `SliceGame`, `Retrograde`, `SliceGen`, `SliceGenProofs`.
2. **Parallel mine**: `ScanRange`, `MineSeq`, `MineScan`, `MineScanProofs`.
3. **Remote table cache**: `RemoteFetch`, `RemoteFetchProofs`.
4. **Block cache**: `BlockCache`, `BlockCacheProofs`.
5. **Verifying**: `VerifyTable`, composed with `Retrograde` (a contributor's table is one the generator
   made, or any other planes), `Verify` (the command over many PRs and runs), `VerifyProofs`.
6. **Claims**: `Claims` (pure), `ClaimsBot` (the scheduled workflow), `Identity` (bot, verify and accept side
   by side, over the bot's world), `ClaimsProofs`.
7. **Accepting**: `Decide` (pure, over `Claims`) and `Accept` (every effect a step), `AcceptProofs`.
8. **Pages**: `Problems` (pure), `Pages` (the command, its jobs, git), `PagesProofs`.

Left.

1. **Theorems**: `PlanKept` of `Accept`, with its hypotheses.
2. **Files**: `TableStore` (temporary file, rename, sidecar, crash, two writers) and `GenClosure` over it
   (missing slices, prune verdict, resume).
3. **Server and distribution**: `StatsCache` (`app.py:208-246`), `MinePool` (`app.py:415-475`), `Push`.
4. **Lookups**: `TableLookup` (`load`, `value_of`, `dtm_of`, `probe`), mine sets.

Abstract specifications: `Retrograde` for `SliceGen` and `MineSeq` for `MineScan` (refinements, checked and proved step by step).
For the pipeline the promises are stated as properties over the whole history instead (`PlanKept`
compares a run with what `accept --plan` had computed, `Exact` compares a table with the oracle).

## 3. Modules

Modules named `MC...` only hold the values of an instance. Definitions that stand before another and
carry a longer name (`WriteManifestAll` before `WriteManifest`) are deliberate errors the properties
are tested with; no specification uses them.

### 3.1 Slice generation

`SliceGame` is the data: a slice as a game graph. A cell of the White or Black plane has a list of
moves; a move leads to a cell of the same slice (`to`), or to a known value of a finished sub-table
(`base`), may allow en-passant replies (`ep`, values from sub-tables), and may be one that cannot be
looked up (`ok = FALSE`). `EvalsTo` and `EvalCount` are `eval_board`; `Found` and `Total` are what
`scan_pass` computes for a cell; `Paths` is `oracle.cpp`, the repository's own brute-force definition,
written as a recursive function. Counts saturate at `CountSat` (255) as `sat_add` does.

`Retrograde` is `run_all_passes` with each pass as one step: `LoadSubTables`, `InitPass`, `ScanPass`
(or `FailPass` when a lookup throws), `Finalize`. `misses` and `maxDtm` are the code's variables.

`SliceGen` is the same run as threads see it. `parallel_for` gives each worker a chunk in `init_pass`;
in `scan_pass` a worker takes a tile (`Claim`, `fetch_add` on the cursor), and for each cell skips it,
or evaluates it (`Evaluate` reads the other plane), or stores the value (`Store`), and publishes its
local counter at the end (`Publish`). A lookup that throws ends the worker (`Throw`); the others run to
their end before the error is rethrown (`Join`). Reading and storing are separate steps, so every
interleaving that could be a data race is a behaviour of the model.

Properties: `NoDataRace` (no cell is written while another worker reads or writes it), `Earned` (every
value has a successor one ply shorter, none shorter still, and the exact saturated count),
`NoneMissed` (a finished pass leaves no cell that had earned its depth), `WriteOnce`, `Terminates`,
`ImplementsSequential` (refinement of `Retrograde`), `OracleExact` (values equal the oracle's on every
cell whose solution the stop rule can reach).

### 3.2 Parallel mine

`ScanRange` says what a plane holds for one query (a match, a skip, neither, a cell that throws, a
cell that cannot be read) and what `mine_range` finds in a range. `MineSeq` is the one-thread scan,
cell by cell, the promise. `MineScan` is `Tablebase::mine` with a pool: workers `Claim` a segment when
the window allows or wait, `Scan` it, `Park` the result in slot `k % window` and `Notify`; the caller
`Take`s slots in order, resets them, announces the room, and `Deliver`s hits to the callback, which may
ask to stop; `SetStop`, `WakeAll` and `Join` end the run on every exit, including a thread that
cannot be created (`SpawnFails`). Condition waits may wake spuriously.

Properties: `RingSafe`, `SlotsHoldTheirSegment`, `NoLostWakeup`, `ImplementsOneThread` (refinement of
`MineSeq`: same hits, same order, same skip tally at a stop), `Returns`.

### 3.3 Remote table cache

`RemoteFetch` follows one material. Requests run `status` (`fetch_state`, then the catalog) and, for a
remote or failed one, `start_fetch` (`fetch_state` again, then `Claim` and, outside the lock, `StartThread`);
a download runs `_fetch`. A hub call may fail, a thread not start, a file not be removed. One
step is one critical section of `_lock` or one file or hub operation, in the code's order, so a request
may be stopped between reading the state, looking for the file, and checking its size. Files are
"good" (as listed), "bad" (same size, other bytes) or "other". `Restart` loses everything but the files.
`Calm` clients ask again only when their last request has been answered. `lost` remembers that a thread
could not be started or ended at a file it could not remove: the state then says fetching until a restart.

Properties: `OneDownload`, `DownloadEnds` (a download leaves fetching whatever the hub does, or is `lost`),
and for clients that ask one at a time `CalmServed` (they get the listed files only). `ServedAsListed` says
the same of every client and fails; see 6.

### 3.4 Block cache

`BlockCache` models readers of compressed tables: `Open` gives a reader the shared cache and a range of
keys, or a cache of its own with a fresh id; `Read` starts `byte_at` (one byte, through the thread's
slots) or `read_range` (block by block); `Find` and `Insert` are the two critical sections of `acquire`
with `Fill` (decompression, which raises at a corrupt block) between them and no lock; `Copy` takes the
bytes after the lock is released. Block contents are the pair (table, block number), which is all the
properties need to see a mix-up. The list and the hash map of a shard are one sequence.

Properties: `ReadsItsOwnTable`, `WithinCapacity`.

### 3.5 Verifying

`VerifyTable` is what `verify_table` concludes of one delivered table, composed with `Retrograde`: first the
passes generate the material's table (`Generate`), then a contributor delivers it, whole, as a marker, or
damaged, or delivers other planes with a sidecar of their own, or a made-up marker whose sidecar calls every
position unsolvable (`Deliver`), then the checks run, cheapest first,
each stopping where the code stops (`VerifyTable`). Each check is an operator over the file: `CheckHeader`
(V2), `CheckBlockIntegrity` (V3), `CheckSidecar` (V4, statistics recomputed from the planes), `CheckDeepest` (V5),
`CheckConsistency` (V6, a position against its successors), `CheckOracle` (V7, the solver's lines up to
`OraclePlies`), `CheckIdentical` (V8, equal payloads). `sample` is what V6 draws at random. A position of
the slice is a side and a cell, so what V6 and V7 compute is defined by the same game the generator used,
but by none of its operators that store values.

Properties: `PassIsExact` (where V6 draws every position, no wrong table that has planes passes, however its
values and its sidecar agree with each other; a duplicate passes only if it is one), `HonestPasses` (what the
generator wrote passes, whatever is drawn). A marker is the exception of the first: V4, V6 and V7 read no
cell of it, and of one that passes alone it is known only that its sidecar calls every position unsolvable. The
exception of the second is a full table delivered where the marker is published, which V8 calls different.
`HonestPasses` assumes the depths of 3.1's stop rule.

`Verify` is the command over a staging directory per PR. `Start` reads open PRs, heads and the manifest
once; `TakePr` the reports left behind; `Stage` removes files the head does not have and writes the record;
`Fetch` downloads a file and `Note` records its hash; `BuildOverlay` links other verified PRs, the corpus and
the PR's own files, in that precedence; `VerifyTable` takes a result over (`Reusable`) or makes one, and
rewrites the partial report; `MoveAside`, `WriteReport` and `Post` end the PR. `Crash` ends the process at any
step and may cut off the file it was writing. `Push`, `Accept` and `Pull` happen at any moment between. A
payload is a model value that says from which sub-table payloads it was computed.

Properties: `ReportTrue` (each result in a passing report was reached on the content of that head under
the settings it names), `PublishedIsRight` (what verify and accept let through is right).

### 3.6 Claims and identity

`Claims` has the pure parts: the index (`ClaimFor`: the earliest claim that is no confirmation and has not
released the material), the registry's lookups, `IdentityClaim`, `OwnershipConflict`, `ResolveContributor`,
`PrLogin`, `Status`. Names compare through `Lower`, so two spellings of one login are two values.

`ClaimsBot` is the scheduled workflow. A run reads claims, manifest and PRs (`StartRun`, `ReadManifest`,
`ReadPrs`), then for each claim its comments (`ReadComments`), and makes one call per step: `WriteStatus`,
`WriteNotice` per overlapping earlier claim, `WriteLabel` three times. `CallFails` goes on with the next
claim, `RunnerDies` ends the run. Authors open, edit, strike and comment, PRs open, tables get published,
issues get closed, and days pass at any moment. A claim names materials in its title and in its body; the
bot parses both, but knows an edit only by the hash of the body (`BodyOf`) in its own comment, as in the code.

Properties: `SaidOnce`, `Mirrors` (after a run in which nothing failed, over a world that stood still,
comment and labels are true, and a claim is stale only after the days without a comment of the author or an
edit of the body: an edit of the title is not seen, see 6), `Quiet` (a second run
writes nothing but a lapse), `EventuallyShown`.

`Identity` puts the three programs side by side on the bot's world: `TheyAgree` (verify's login is accept's
wherever accept does not refuse; what verify's report and the bot call held is what accept holds),
`ClaimIsTheirs` (a claim recorded with a PR is the credited person's, with their wish for anonymity),
`NoSecondKey` (nobody registered with a login gets a second key, also with `--contributor`; one registered
by Hub name alone may, see 6).

### 3.7 Accepting

`Decide` has `decide` (new, reproduction, held, conflict; per material, from deliveries, payloads, claims),
what follows for a PR (`Pub`, `Held`, `Credited`, `Action`), the registry's update `Credit`, and `ThreeWay`, git's merge
of `data/contributions.json`, which conflicts where both sides changed.

`Accept` runs it. `proc` is the one process, `files[run]` its state file; a step is an effect or a record of
it, in the code's order: `Prepare` (all refusals before the first write), `NextPr`, `CheckHead`,
`TakeAsMerged`, then per action `MergePr` / `MergeRefused`, `CopyPart`, `CopyFiles`, `FinishCopy`, `CommentPr`, `ClosePr`;
`AllMerged`, `NothingToRecord`, `WriteManifest`, `MoveLocal`; the docs step `DocsDirty`, `DocsEmpty`, `DocsCommit`,
`DocsPush`, `DocsOpen`, `DocsLand`, `DocsConflict`; `WriteCard`, `TellClaim`, `CloseClaims`. `Killed` ends the process
before or after any of them, between the effect and its record too. `Start` begins or resumes a run, with
or without `--release`. `PlanAccept` is `accept --plan`. Meanwhile: `Push`, `Verify`, `WithdrawClaim`,
`OtherCommit` on origin/main, `Pull`, `PullTables`, `Edit`, `CleanUp`, `MergeByHand`, `ResolveDocs`, `CloseDocs`.

Properties: `OnlyVerified`, `CreditTrue`, `PublicTrue`, `NeverReplaced`, `HeldStays`, `Completes`, `PlanKept` (a run ends as
`--plan` said it would, interrupted or not), `ToldOnce`, `GetsThrough`.

### 3.8 Pages

`Problems` has what a page offers. A cell is a position as `mine` reports it, with what `probe` and `line --all`
say of it. `Pick` is the greedy max-min choice with `SameIdea` and `Distance` (edit distance of White's moves, men
apart; fractions as pairs); `BuildMaterial` the page, or none where the script raises; `MergeIndex` and
`MergeThemes` the scoped merge; `SameKey` the canonical board under the symmetries that pawns allow; `BestCandidate` the
scan that prunes and stops early; `Annotate` and `Showcase` what the scripts make of `DEEPEST.json`.

`Pages` is the command: `Start` (or resume), per job `BuildPage`, `FailPage`, `WriteThemes`, `WriteIndex`, `KillJob`; then
`Collect`, `Reset` to origin/main, `Fold` job by job, `GiveUp` or `Commit`, `Committed`, `Push`, `Pushed`, `Open`, `Opened`,
`Back`, `Merge`, `Delete`, a step for each effect and each record; `Crash` at any of them, with the file being
written torn. `AcceptShips` is another docs PR; `Pull`, `Leave` (the data branch), `TidyUp`, `RemoveTorn` and `Resolve`
are the maintainer's hand. Before it, `Regenerate`, `MorePublished` and `AnnotateDocs` work on `DEEPEST.json`.

Properties: `Listed` (on main index rows, theme entries and flags are exactly the pages', but for pages of a job
killed by itself between page and index, see 6), `Offers` (every
weak or published entry has the best unpublished position of its depth, over the whole scan; annotating
again changes nothing), `Ships` (run again, the command lands every page that can be
built, or rests on the data branch where `--missing` finds nothing missing, see 6).

## 4. Runs

| run | instance | shows |
|---|---|---|
| `retrograde` | every slice of two cells per plane over a menu of moves, mates and invalid cells; made-up planes and markers for two of them | passes compute the oracle's values (`OracleExact`); of tables with planes only the right ones pass the checks, and those do |
| `slicegen` | 2 workers, 5 cells, tiles of 2, several games | races, earned values, completeness, write-once, refinement, termination |
| `mine_scan` | 2 workers, 7 cells in 4 segments, ring of 2 | ring, order, wakeups, refinement, return |
| `remote_fetch` | 2 requests, 2 possible downloads, 1 restart, 3 cache directories, calm clients and others | one download at a time, which ends or is `lost`; calm clients are served as listed |
| `remote_fetch_unverified` | 2 requests | (violation) `ServedAsListed`, see 6 |
| `block_cache` | 2 threads, 3 reads, 2 opens, shared cache of 3 blocks in 2 shards, own caches of 1 | right bytes, capacity |
| `claims_bot` | 2 claims, 3 changes, 1 failure; 1 claim over 4 days; every pair of claims, at most 1 registered person, 1 PR of any kind | the bot's comments, and the three programs' agreement |
| `accept` | 2 PRs with published, claimed and shared material, in seven worlds | the nine properties of 3.7 |
| `accept_release` | 1 held material, `--release` on the rerun | (violation) `CreditTrue`, see 6 |
| `verify_pr` | 2 PRs with up to 2 pushes, 3 runs, 1 crash, four worlds | reports are true, what is published is right |
| `verify_reuse` | a PR with a table and its sub-table | (violation) `PublishedIsRight`, see 6 |
| `pages` | 5 materials, 1 or 2 jobs, up to 2 faults, five worlds | `Listed`, `Offers`, `Ships` |

Why the bounds are enough.

* *Slices*: two plies of lookahead decide a cell, so two cells per plane with a menu covering every kind of
  move reach chains over several passes, gaps of one empty pass, sub-table values deeper than the slice's
  own, saturation (`CountSat` is small) and failing lookups; five cells in tiles of two give two
  workers three tiles, the last of one cell. The made-up planes are all assignments of seven pairs of
  depth and count to the four cells, each with its own sidecar or the right one; the made-up marker is
  delivered of every slice.
* *Mine*: a ring of two slots and four segments wraps twice, so a slot is reused while the other worker
  is behind; faults sit in the middle of a segment, at its first cell and in two segments scanned at once.
* *Fetch*: two requests are what a race of check and act needs; one restart leaves every kind of
  directory behind.
* *Blocks*: two threads race for one block, a capacity of three over two shards has an uneven split, a
  slot bank of one forces every collision, two opens allow a closed reader's id or keys to be mistaken.
* *Verify*: a table and its sub-table in two PRs, each pushed to once, is the least in which a result
  outlives what it was reached on; three runs let one be killed, one resume and one reuse. Two contents of
  a file may have the same size (`AlikeInSize`), all that a staged file is known by; no PR is pushed back to
  an earlier content, see 6.
* *Claims*: two claims on two materials have a first and a later holder of each; three changes let a claim be
  opened, edited and delivered in any order around a run; one failure leaves one call half done. The
  agreement is over every combination, and nothing moves in it: the three programs read one moment.
* *Accept*: the seven worlds are two PRs accepted together, with one crash and one change of the world, or
  one crash while others commit to origin/main (this one reaches the docs conflict and its second time);
  each in a run of its own, one after the other; together and one alone; two unfinished runs with a PR in
  common (`overlap`); a PR with nothing new; and a PR that lands in part and, when the claim on the
  rest is withdrawn, in full. One crash is enough to separate each effect from its
  record; a second one only repeats. The PRs carry a published table, a claimed one and one
  both deliver, so every decision and every action occurs.
* *Pages*: two jobs make the fold merge; the faults (a crash, a killed job, a failed material, another
  PR) come at any step; two in one world, so that a repair is interrupted. Two of the materials
  cannot be built, one is a marker, one has twins that the choice must skip.

`CHECK_DEADLOCK FALSE` stands where a behaviour comes to rest by itself: a finished table (`retrograde`),
the bound on reads (`block_cache`), on runs (`verify_pr`), and a world in which all is accepted, shown or
shipped (`accept`, `claims_bot`, `pages`). The type invariants that no run lists serve the proofs and the
reader; they hold in the instances.

## 5. Fairness

* `SliceGen` and `MineScan`: weak fairness of each thread. The operating system schedules every runnable
  thread; a lock is held for finitely many steps and never across a wait. Wakeups from a condition wait
  need a notification (spurious ones may happen, none is assumed).
* `RemoteFetch`: of each request that has begun and of each download, and that a hub call answers or
  fails; nobody has to send a request, and no restart has to happen.
* `ClaimsBot`: the workflow runs on its schedule and a run's next call is made (`StartRun`, `BotStep`): both are
  the Actions runner's promise. Nobody has to do anything else.
* `Accept`: a process goes on (`GoesOn`), whoever ran it runs it again (strongly: a rerun may be refused again
  and again until what it asks for is there), verifies what it asks for, resolves the docs PR it
  reports, cleans the checkout, pulls the tables. Without somebody who reruns, nothing of `GetsThrough` can be
  had.
* `Pages`: the program goes on and is run again, and the maintainer does what its errors ask for: commit or
  remove the leftovers it refuses to overwrite (`TidyUp`, only when it names the uncommitted changes), remove a torn file
  (`RemoveTorn`), resolve a docs PR that conflicts (`Resolve`). Each is needed: `Ships` fails without any one of
  them, since the command itself repairs none of the three. Leaving the data branch by hand (`Leave`) is not
  fair: the command that finds nothing to do there ends without an error, and `Ships` names that case.

## 6. Where code and documents differ

With a run that shows it:

* `remote_fetch_unverified`: a request that read the state before a download started finds the file
  while it is unverified, accepts its size (`storage.py:137`) and serves it; `docs/USAGE.md:2633` says
  requests resolve once the download is verified against the sha256.
* `accept_release`: a rerun with `--release` decides all materials of the run again (`accept.py:509`), also those of
  a PR the interrupted run had dealt with; registry, changelog and corpus then name a table that is not on the Hub.
* `verify_reuse`: a result is taken over when the table's own files are unchanged (`verify.py:95`), although the
  sub-table it was checked against has changed; `consistency.py:4` says a wrong table must be wrong
  consistently with independently published tables to pass.

Met while modelling, without a run of their own:

* `docs/INTERNALS.md:56` says passes stop when one assigns nothing; the code (`generator.cpp:345`) needs two in a
  row, and must: `OracleExact` fails with one.
* `tablebase.h:134-136` promises the callback exactly the FENs one thread would give it; with an unreadable block
  the number before the error depends on the segments, because `mine_range` reads chunks that start at
  its own first cell (`tablebase.cpp:474`).
* A request whose size check met an old table deletes, outside the lock (`storage.py:141`), the files another
  request's download has just verified.
* `block_cache.h:20-21` says bytes are copied while holding the lock; they are copied after it is released, from a
  block kept alive by its shared owner. `ReadsItsOwnTable` shows that this is harmless.
* `claims.py:230` says the bot and accept agree on who owns a PR because both ask `ownership_conflict`; accept asks
  it of the claim that speaks for the PR, the bot of the first claim on each material. `TheyAgree` (proved as `Agreeing`) holds
  them to it only where the PR names no claim and its login is known without one.
* A staged file is kept when its size and its *record* are the head's (`verify.py:340`). A PR pushed to and pushed back,
  with a process that ends after the download and before its record, leaves the other content in place
  under the first one's record if the two agree in size; the old result is taken over, and the wrong file
  supplies the overlay of other PRs. With three such pushes `PublishedIsRight` fails. The theorems
  `ReportsTrue` and `PublishesRight` have it as the hypothesis `NeverBack`: nothing else stands in their way but `NoWrongPair` (below).
* A build process killed alone between its last page and its index has all its pages, so `pages` folds and ships them
  without rows and themes (`pages.py:135`); `Listed` leaves these materials out.
* `.github/ISSUE_TEMPLATE/claim.yml:15-16` says of a claim that starts with `confirm:`, also for a table already
  claimed, "your delivery is never held". `decide` (`accept.py:324-330`) makes no such exception, as rule 4 of
  `docs/CONTRIBUTING-TABLES.md` does not: unless the holder delivers too, it is held. `HeldStays` states the code's side.
* A claim is parsed from title and body (`claims.py:120`), its hash is of the body alone (`claims.py:295`). An edit of the title changes
  what is claimed, but is no activity: the claim may be called stale although its author has just edited it. `Mirrors` says what is seen.
* Someone registered by Hub name alone gets a second key when a PR, a claim or `--contributor` names the login: `by_github` does
  not find them, and `resolve_contributor` falls back to the login as key (`registry.py:111-118`). `NoSecondKey` is about people with a login.
* The thread of a download is started after the state is set to fetching (`storage.py:150-151`), and the clean-up in the error path of
  `_fetch` may raise (`storage.py:166`). Either leaves the material fetching until the server restarts, which
  no request retries; `docs/USAGE.md` says that no restart is needed to recover from a bad download.
* A `pages` run that ends between fold and `git.back` leaves the checkout on the data branch. There `pages --missing` sees its own pages
  (`cli.py:213`, `pages.py:13-17`), prints "no material pages to build" and returns 0 (`pages.py:73-75`), and nothing is shipped;
  `docs/CONTRIBUTING-TABLES.md:344` calls the command resumable. Given the same list by `--material`, or run on the
  maintainer's own branch once that is clean, it resumes.
* A marker is believed. V4, V6 and V7 read no cell of one (`checks.py:187`, `verify.py:149-152`), and V5 nothing if its sidecar knows no solution
  (`checks.py:214`): a made-up one passes alone, against `consistency.py:4`. A published table is compared by V8.
* V8 compares a marker's cell counts with planes, so the full table of a material without solutions is called different from the published marker of it,
  and the other way round.

## 7. Proofs

All proofs are checked by TLAPS with Z3, Zenon and LS4.

**`SliceGenProofs`**, from `SizeAssumption`, `GamesAssumption` (what a game graph is) and
`ThreadsAssumption`. The properties are not inductive alone. The invariant `IInv` adds: *stages* (what
`pc` may be in each stage), *initialised* chunks, *tiles* (tiles being worked on lie below the cursor and
are pairwise disjoint), *pending* (a worker about to store has the value its cell has earned), *levels*
(depths already complete are not touched by this pass), and *covered* (a cell behind the cursor is
resolved, unearned, or in the unfinished part of some worker's tile). Key lemma: a store at depth d is
invisible to every evaluation of pass d, since it writes the mover's plane and evaluations read depth
d - 1 of the other. Results: `TypeCorrect`, `RaceFree`, `ValuesEarned`, `PassesComplete`, `WrittenOnce`.

**`MineScanProofs`**, from `PoolAssumption`. `IInv` says that claimed and not yet taken segments lie within
one window, so their slots differ (two numbers with the same remainder are a window apart: the
arithmetic lemmas at the start), each is in exactly one place (worker or ring), and a full slot holds
the result of its own segment. Results: `RingIsSafe`, `ResultsInOrder`, `WakeupsAreNotLost` (a sleeping
thread whose condition holds has a notifier on the way).

**The two refinements.** `RunsSequentially` (`SliceGenProofs`) and `ScansAsOneThread` (`MineScanProofs`) prove the
initial states and every step of `ImplementsSequential` and `ImplementsOneThread`; their fairness part stays with TLC.
A pass of the generator takes effect at its join, so a second invariant, `JInv` over `IInv`, says what the join
relies on: the chunks dealt so far have their first values (and the chunks cover the plane, which is a fact about rounding
up), an error has a cell whose lookups throw and no such cell was passed silently, and something is
counted exactly when a cell was assigned. Since the operators of the abstract module are copies, lemmas first equate the two
(`AsFound`, `AsTotalled`, ...). The mine's caller moves at each hit it hands out: `SegmentStory` says that between two hits of a
segment's result lie only cells without a report, and that their skips add up to the tally parked with the hit; `Handing`
says that what the caller has in hand is such a result. `ScansAsOneThread` has the hypothesis `ChunksFit`: a segment is
made of whole chunks, or nothing is unreadable. The code guarantees it only for planes big enough for the largest segment
(`tablebase.cpp:339`); without it the error surfaces elsewhere (section 6).

**`RemoteFetchProofs`**. `OneDownload` with the types of the places is inductive: `OneDownloadAtATime`. It relates state and threads: fetching
is said exactly while a download is being started or runs, or when it was lost.
`CalmIsServed` is about clients that ask one at a time of a cache that holds nothing unverified (`calm`, part of the
property): the material's file is settled whenever no download runs, while one runs the thread's place says what it has put
on disk, and nobody else looks meanwhile (`Calmly`). `calm` is not a convenience: without it the property is the one
`remote_fetch_unverified` refutes.

**`BlockCacheProofs`**, from `CacheAssumption`. A read is right because the place of a cache and a key inside
the range of one of its readers name one block of one table, whatever readers there were and are: *owners* (readers of
the shared cache have ranges of keys apart, every other cache has one reader). So what a shard or a slot
keeps under such a name is what whoever finds it means by it (*shards*, *slots*), and a thread with a block
in hand has the one its read is at (*calls*). A reader's table is never more than its range of keys long: `MayShare`, the check
`Open` makes. Division is used only by its two defining facts, stated as lemmas. Results: `Invariant`,
`ReadsOwnTable`, `KeepsCapacity` (the shards' shares add up to the capacity, whatever the remainder).

**`VerifyProofs`**, from `VerifyAssumption`. `ReportsTrue` needs to know what a staged file's record is worth at each
moment of a run: *dirs* says, for every PR, which files may be behind the record's hashes, that each
entry of a report or partial report was reached on the content some head had, and that a report that claims to be whole has
every table; *working* says the same of the PR in hand while its files are fetched and noted. It is inductive if a
file's size tells its contents apart or nobody pushes a replaced content back (`NeverBack`): `verify.py:340` is
the only hole, and it is one (section 6). `PublishesRight` adds a second invariant over the first: the corpus, and each
passing entry taken over or supplied to another PR, is right. Its hypotheses are that what is published at
first is right (`StartsRight`), that the checks conclude from right sub-tables to a right table (`ComputedRight`, what V6 and
V7 promise, `PassIsExact`), and that no push has a wrong sub-table beside a table that needs it
(`NoWrongPair`, the case of `verify_reuse`). `MCVerify` assumes them, so that TLC evaluates each on the instances
of the run, where they hold.

**`ClaimsProofs`**, from `BotAssumption` (issues are numbered as GitHub does) and `IdentityAssumption` (a
login is registered under one key). The first part needs no state: over any index of claims and any registry, the cascades of the bot,
of verify and of accept give one login and one owner wherever accept does not refuse. The second shows by an
invariant on the bot (`IInv`: issues are filed, a run's snapshot is of issues that were, at most one comment and one notice each,
also for the claim in hand) that what the bot's world yields is such an index. Results: `Invariant`,
`SaysOnce`, `Agreeing`, `NobodyElsesClaim`, `OneKeyEach` (of people registered with a login, for every override, not only those the run tries). What the
comments show is a second invariant, `MInv`. Independently of what else happens, names in an issue are only ever struck, so that
a body the bot has seen before either is not the current one or accounts for all the author did in it since
(*grown*; what is struck in the title the hash does not know, and `Mirrors` does not count), and each run takes every open claim (`SortedIs`). While the world stands still and no call fails, the snapshot is
the world (*still*), the claims the run is done with show it (*finished*), and the one in hand does as far as the
run is (*working*); from the second such run on every comment but its lapse is right already (*seconded*). Results: `ShowsWhatIs`
(`Mirrors`) and `EditsOnlyLapses` (`Quiet`). For logins of any spelling the first needs `Mirrors` to compare them as
claims.py:283 does.

**`AcceptProofs`**, from `AcceptAssumption`. The invariant is about what is on disk, since a process can end
anywhere: a run's file has deliveries that passed, decisions about exactly what those bring, and a docs
step as far as it says (*files*); while a process merges, its decisions are for the deliveries it merges and
publish nothing the manifest has (*proc*); a branch to be pushed is there; no branch of the registry takes a credit away that its
base has. That decisions are good when they are acted on is where the code's order
matters: `Prepare` decides again before a rerun merges, and no other process writes the manifest until it has. Results: `Invariant`,
`PublicIsTrue`, `ReplacesNothing` (an action property), `LandsVerifiedOnly` and `TellsOnce` (with an
invariant that counts comments against crashes). `LandsVerifiedOnly` has the hypothesis `~ Window`; with a
push between check and merge it is false, and no other interleaving breaks it.

`CreditsAreTrue` (`CreditTrue`) needs a second invariant, `DInv`, of runs that do not overlap: what is said of a credit when it
is written can be undone before it is on origin/main, so it relates every place the credit passes through. *Decided*
(`Agreed`, `Checked`): whoever delivers a material brings what the run publishes or what is published, and while a process merges
the reports are of the deliveries it merges. *Landed* (`DealtWith`, `MergedAre`, `KnownAre`): what a PR that is dealt with
published is on main as it was verified, and whatever is on main was there, was merged by hand, is credited, or is a
run's still to credit; so the maintainer's key, which `credit` gives what it finds published and uncredited, is not given to a contributor's
table. *Credited* (`DocsTrue`, `RegistriesAre`, `BranchIs`): from its commit to its merge the docs branch adds all of the run's
tables to origin/main, by git's three-way merge, and no registry, on a branch, pushed or merged, credits anybody else. Its hypotheses are each
needed, and TLC has a counterexample without it: `~ Window`, as above; `~ world.overlap`, since a PR that two unfinished
runs have in common may be verified again at another head for one of them while the other has published from it; and
`KeepsDecisions`, that a run which has begun to land decides no differently for it: besides `--release` (section 6), a
withdrawn claim or a PR pushed to between two processes of a run makes accept decide all of it again, and what it has landed for itself
by then looks like somebody else's.

`CompletesAll` (`Completes`: a run that ends has landed all it recorded) adds a third, `LInv`, relative to those two. A run is
over as soon as its state file goes, and by then what it owes lies in four places that other processes, resets and people also write:
*the corpus* (`Stocked`, `Here`: what a report is about is staged or moved, and what a run publishes is there from its local phase on);
*the PRs* (`OpenAre`: one that is left open, or whose comment says so, has held material); *the registry* (`OwedAre`: whom the run credits
is in its branch from the commit, in the pushed branch from the push, and in origin/main from the merge, however often the branch is closed and
retried); *its producers* (`WholeAre`: every table of a registry has one and a branch forgets none, so that `empty`, nothing published and no table
whose second or later producer is new, does mean that everybody was credited before). The hypotheses are those of `CreditsAreTrue`, whose invariant it uses, and
`AllFinite`: a run is of finitely many PRs with finitely many files, without which the list of people that `credit` goes along does not exist.

`HeldStaysAll` (`HeldStays`: what is claimed stays off main but for its claimant's own delivery) needs only `IInv` and an
invariant of its own, `HInv`, and none of the hypotheses on overlapping runs or decisions made anew. A decision is taken from the claims of one
moment and acted on at another, by a process that may have restarted; what carries it across is that claims are only ever withdrawn
(`claims \subseteq world.claims`), so that a material whose first claim is still open had the same one when the decision was made
(`FirstStays`), and that every decision of a state file is therefore for the holder of the first claim while it is open (`OfHolders`,
`DecidesForHolder`). Who a PR is by is what the run found from the
registry's people, the claims and the PRs before it, not what the PR says: `NamedAre` is that this is the login of the description in some
spelling (`WhoIsFound`, for the recursive function `WhoIs`, by the least counterexample; `ListedPeople`, since the people are looked up in a
list, which only a finite set has). `CopiesHead` is that what is copied is the PR's head.
The hypotheses are each needed, and TLC has a counterexample without it: `~ Window`, where a push in the window adds a claimed
material; no `--release` in any process so far, since the state file keeps a decision an earlier one made with it; and `WellNamed`, that
every PR's description names its author and every claim has an issue number of its own, since for a PR without a login accept takes
the author of a claim that names no other Hub user (`claims.py:222`, `UndeniedClaim`). A delivery for a `confirm:` claim is held as any other (section 6). That the checkout is of a branch that exists
(`branch \in DOMAIN local`, git's own rule) is a hypothesis too: `TypeOK` says it and the runs check it, no theorem does.

**`PagesProofs`**, from `PagesAssumption` and, for `Offers`, `CellsAssumption`. A page passes through four places, and the invariant `PInv` has a part for
each. *Directories*: a job writes page, themes and index row in that order, so unless a file is torn a row is only there with
the page and the themes it is of; the converse holds of a job that ended, unless it was killed alone (`cut`), and for good of one
the state file calls done. That a job lists its whole share needs that its queue has it: `SplitIs` proves of
`materials[i::jobs]`, by the rank of a number in a finite set, that every material of the share is in it. *Working*:
from the reset to the commit the working tree lists what it shows and has every page of main at the reset.
*Commits*: the same of main, the branch and the PR, and no page goes away from a base to its tree or to main. With that,
git's three-way merge takes a page with its rows or leaves both (`MergedIsSound`): a material the PR changes is one
it adds or replaces, never one it lost. Results: `PagesInvariant` and `MainIsListed` (`Listed`, which
leaves out what a job killed between page and index left on main).
`OffersAreBest` (`Offers`) says that `best_candidate`, which looks at cheap properties first and stops at the first
flawless position, still finds the best of the whole scan: `BestCandidateIs` goes along the scan position by position
(by the least counterexample), with what the FEN alone tells of a rank (`Floor`) as the reason why a skipped position cannot
be better. That annotating again changes nothing needs more: the second run scans for the board the first one wrote, and
the weaknesses of a position are not those of its mirror images (`legal_last_move` unplays pawn moves in one direction). It
holds because a table lists a board, for one side to move, in one orientation only, so that two cells of one material and depth with one `SameKey` have
one rank (`CellsAssumption`, `generator.cpp:134`; the depth tells who is to move, and the same board with the other side to move has another depth and a
rank of its own); TLC has a counterexample without it.

Only model-checked, because the prover has no means for it: liveness (`Terminates`, `Returns`, `DownloadEnds`,
`EventuallyShown`, `GetsThrough`, `Ships`), whose steps need ENABLED; `OracleExact`, `PassIsExact` and `HonestPasses`, which
need induction over the recursive `Paths`.

Only model-checked so far: `PlanKept` of `Accept`. It says that the registry ends exactly as planned, where
`CreditTrue` and `Completes` bound it from above and below; a proof has to carry the list itself, in `credit`'s order of people and
producers, through every commit, closed and retried docs PR and restart of the run.

## 8. Not modelled, and why

Chess move generation, SAN, themes and index arithmetic are pure functions over boards, too large to
enumerate and tested by the repository against reference counts. `SliceGame` stands for any game graph
they can produce. Rendering (web, site, booklets), argument parsing and bindings keep no state that
several actors share. File writing, closure generation, the server's statistics cache and mine pool, and
distribution are in the plan above. Hits and fills counters, progress output and memory guards are left
out: no property depends on them.

Of the contribution pipeline: the wording of comments, changelog and card; the statistics upload and the page
build that `accept` calls (a page lands by `AcceptShips`); `status`; parsing of claim forms and material names;
V1's naming rules, one flag of a head; `--keep-positions`. A push between accept's head check and its merge call (`Window`), which the code
accepts, is in the module behind a constant and off in the runs: with it `OnlyVerified` fails, and
`LandsVerifiedOnly` proves that this is the only way it can. Runs of `accept` never
overlap in time as processes, only as unfinished state files; nothing in the code prevents two processes,
and nothing in it is promised of them.

Hazards met and covered by no module: a table without its sidecar after a crash, a raw file renamed with an
unflushed end (`table_file.cpp:262`), temporary names without a process in them (`table_file.cpp:252`), and the
prune verdict over foreign sub-tables (`generator.cpp:544`), all for `TableStore` and `GenClosure`; a cached miss
(`tablebase.cpp:64`, `TableLookup`); workers whose cache shares add up to more than the caller allowed, and an
allocation that fails before a worker's try block (`tablebase.cpp:375`); an unverified file of the right size
after a restart (`storage.py:127`, documented); `stat()` on a file deleted since it was looked for
(`storage.py:137`: an internal error that two clients can meet); a PR closed by a run that ended before recording it, which the
rerun refuses until it is reopened (`accept.py:738`); a PR verified again between the copy on the Hub and the
move of its files to the local corpus (`accept.py:798`); a payload hash cached under the manifest's hash
but computed from an older local file (`verify.py:60`); the claims command run by hand, which never finds
the comment it posted under a user's name (`claims.py:291`); jobs that outlive a killed `pages` and share their
directories with the rerun's (`pages.py:130`), and their pages kept by `--resume` after a table of the same
day was replaced (`pages.py:123`); a material with solutions none of which is unique, whose page can never be
built (`build_problems.py:300`, a material of the `pages` instance).
