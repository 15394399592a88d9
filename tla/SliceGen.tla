------------------------------ MODULE SliceGen ------------------------------
(***************************************************************************)
(* The slice generator as it runs: worker threads initialise a chunk each, *)
(* then, in every pass, take tiles of cells from a shared cursor, look up  *)
(* the successors of each unresolved cell and write its value in place.    *)
(* Source: src/core/generator/{generator.cpp,parallel.h}.                  *)
(***************************************************************************)
EXTENDS SliceGame

CONSTANTS
  Threads,        \* opt_.threads
  TilesPerWorker  \* 4 in the code

ASSUME ThreadsAssumption ==
  /\ Threads \in Nat \ {0}
  /\ TilesPerWorker \in Nat \ {0}

VARIABLES
  game, stage, depth, dtm, cnt, maxDtm, misses,  \* as in Retrograde
  cursor,   \* next_cell
  resolved, \* cells assigned in this pass, as published by the workers
  error,    \* first_error of parallel_for is set
  pc,       \* where each worker is
  pos, hi,  \* the cell it is at and the end of its tile
  sum,      \* total: the count it found for that cell
  local     \* cells it assigned in this pass

workerVars == <<pc, pos, hi, sum, local>>
sliceVars  == <<game, stage, depth, dtm, cnt, maxDtm, misses>>
vars       == <<sliceVars, cursor, resolved, error, workerVars>>

\* Never more workers than cells.
NumWorkers == IF Threads <= PlaneSize THEN Threads ELSE PlaneSize
Workers    == 1 .. NumWorkers

DivUp(a, b) == (a + b - 1) \div b

\* parallel_for: worker w owns one contiguous chunk, empty past the last cell.
Chunk(w) == {c \in Cells : /\ (w - 1) * DivUp(PlaneSize, Threads) <= c
                           /\ c < w * DivUp(PlaneSize, Threads)}

TileCells == IF NumWorkers = 1 THEN PlaneSize
             ELSE DivUp(PlaneSize, TilesPerWorker * NumWorkers)

\* The tile that begins at cell b: its end, the next tile, whether b is past the plane.
TileEnd(b) == IF b + TileCells <= PlaneSize THEN b + TileCells ELSE PlaneSize

NextTileOverlapping(b) == b + TileCells - 1
NextTileClamped(b) == IF b + TileCells < PlaneSize THEN b + TileCells ELSE PlaneSize - 1
NextTile(b) == b + TileCells

NoTileDropsLast(b) == b + TileCells > PlaneSize
NoTile(b) == b >= PlaneSize

Init ==
  /\ game \in Games
  /\ stage = "load"
  /\ depth = 0
  /\ dtm = [s \in Sides |-> [c \in Cells |-> Unset]]
  /\ cnt = [s \in Sides |-> [c \in Cells |-> 0]]
  /\ maxDtm = -1
  /\ misses = 0
  /\ cursor = 0
  /\ resolved = 0
  /\ error = FALSE
  /\ pc = [w \in Workers |-> "init"]
  /\ pos = [w \in Workers |-> 0]
  /\ hi = [w \in Workers |-> 0]
  /\ sum = [w \in Workers |-> 0]
  /\ local = [w \in Workers |-> 0]

LoadSubTables ==
  /\ stage = "load"
  /\ stage' = IF game.loadable THEN "init" ELSE "failed"
  /\ UNCHANGED <<game, depth, dtm, cnt, maxDtm, misses, cursor, resolved, error, workerVars>>

\* A cell's first value depends on that cell alone, so a chunk is one step.
InitChunk(w) ==
  /\ stage = "init"
  /\ pc[w] = "init"
  /\ dtm' = [s \in Sides |-> [c \in Cells |->
               IF c \in Chunk(w) THEN InitDtm(game, s, c) ELSE dtm[s][c]]]
  /\ cnt' = [s \in Sides |-> [c \in Cells |->
               IF c \in Chunk(w) THEN InitCnt(game, s, c) ELSE cnt[s][c]]]
  /\ pc' = [pc EXCEPT ![w] = "done"]
  /\ UNCHANGED <<game, stage, depth, maxDtm, misses, cursor, resolved, error, pos, hi, sum, local>>

\* What scan_pass sets up before its workers start.
StartPass(d) ==
  /\ depth' = d
  /\ cursor' = 0
  /\ resolved' = 0
  /\ pc' = [w \in Workers |-> "claim"]
  /\ local' = [w \in Workers |-> 0]

InitJoin ==
  /\ stage = "init"
  /\ \A w \in Workers : pc[w] = "done"
  /\ maxDtm' = InitMax(dtm["black"])
  /\ stage' = "passes"
  /\ StartPass(1)
  /\ UNCHANGED <<game, dtm, cnt, misses, error, pos, hi, sum>>

Plane  == Mover(depth)
Others == Opp(Mover(depth))

\* next_cell.fetch_add(tile_cells)
Claim(w) ==
  /\ pc[w] = "claim"
  /\ cursor' = NextTile(cursor)
  /\ IF NoTile(cursor)
       THEN pc' = [pc EXCEPT ![w] = "publish"] /\ UNCHANGED <<pos, hi>>
       ELSE /\ pc' = [pc EXCEPT ![w] = "scan"]
            /\ pos' = [pos EXCEPT ![w] = cursor]
            /\ hi' = [hi EXCEPT ![w] = TileEnd(cursor)]
  /\ UNCHANGED <<sliceVars, resolved, error, sum, local>>

MovesAt(w) == game.moves[Plane][pos[w]]

UnresolvedOrWorse(w) == dtm[Plane][pos[w]] \notin {Invalid, 0}
Unresolved(w) == dtm[Plane][pos[w]] = Unset

EarnsDepth(w) == Found(MovesAt(w), dtm[Others], depth - 1)

LineTotalNotReset(w) == Cap(sum[w] + Total(MovesAt(w), dtm[Others], cnt[Others], depth - 1))
LineTotal(w) == Total(MovesAt(w), dtm[Others], cnt[Others], depth - 1)

\* On to the next cell of the tile, or back to the cursor.
Advance(w) ==
  /\ pos' = [pos EXCEPT ![w] = @ + 1]
  /\ pc' = [pc EXCEPT ![w] = IF pos[w] + 1 < hi[w] THEN "scan" ELSE "claim"]

\* Nothing to write: the cell has its value, or none of its moves earns depth.
SkipCell(w) ==
  /\ pc[w] = "scan"
  /\ Unresolved(w) => ~ Throws(MovesAt(w)) /\ ~ EarnsDepth(w)
  /\ Advance(w)
  /\ UNCHANGED <<sliceVars, cursor, resolved, error, hi, sum, local>>

\* The lookups of one unresolved cell, made while other workers write theirs.
Evaluate(w) ==
  /\ pc[w] = "scan"
  /\ Unresolved(w) /\ ~ Throws(MovesAt(w)) /\ EarnsDepth(w)
  /\ sum' = [sum EXCEPT ![w] = LineTotal(w)]
  /\ pc' = [pc EXCEPT ![w] = "store"]
  /\ UNCHANGED <<sliceVars, cursor, resolved, error, pos, hi, local>>

Store(w) ==
  /\ pc[w] = "store"
  /\ dtm' = [dtm EXCEPT ![Plane][pos[w]] = depth]
  /\ cnt' = [cnt EXCEPT ![Plane][pos[w]] = sum[w]]
  /\ local' = [local EXCEPT ![w] = @ + 1]
  /\ Advance(w)
  /\ UNCHANGED <<game, stage, depth, maxDtm, misses, cursor, resolved, error, hi, sum>>

\* A lookup throws: this worker ends, its tile unfinished and its count unpublished.
Throw(w) ==
  /\ pc[w] = "scan"
  /\ Unresolved(w) /\ Throws(MovesAt(w))
  /\ error' = TRUE
  /\ pc' = [pc EXCEPT ![w] = "done"]
  /\ UNCHANGED <<sliceVars, cursor, resolved, pos, hi, sum, local>>

PublishedLost(w) == local[w]
Published(w) == resolved + local[w]

Publish(w) ==
  /\ pc[w] = "publish"
  /\ resolved' = Published(w)
  /\ pc' = [pc EXCEPT ![w] = "done"]
  /\ UNCHANGED <<sliceVars, cursor, error, pos, hi, sum, local>>

\* Every worker has joined: rethrow its error, or count the pass and go on.
Join ==
  /\ stage = "passes"
  /\ \A w \in Workers : pc[w] = "done"
  /\ IF error
       THEN /\ stage' = "failed"
            /\ UNCHANGED <<depth, maxDtm, misses, cursor, resolved, pc, local>>
       ELSE /\ misses' = IF resolved > 0 THEN 0 ELSE misses + 1
            /\ maxDtm' = IF resolved > 0 THEN depth ELSE maxDtm
            /\ stage' = IF GoOn(depth + 1, misses') THEN "passes" ELSE "finalize"
            /\ StartPass(depth + 1)
  /\ UNCHANGED <<game, dtm, cnt, error, pos, hi, sum>>

Finalize ==
  /\ stage = "finalize"
  /\ dtm' = [s \in Sides |-> [c \in Cells |->
               IF dtm[s][c] = Unset THEN Unsolvable ELSE dtm[s][c]]]
  /\ stage' = "done"
  /\ UNCHANGED <<game, depth, cnt, maxDtm, misses, cursor, resolved, error, workerVars>>

Stopped == stage \in {"done", "failed"} /\ UNCHANGED vars

ScanStep(w) == Claim(w) \/ SkipCell(w) \/ Evaluate(w) \/ Store(w) \/ Throw(w) \/ Publish(w)

Coordinator == LoadSubTables \/ InitJoin \/ Join \/ Finalize

Next ==
  \/ Coordinator
  \/ \E w \in Workers : InitChunk(w) \/ (stage = "passes" /\ ScanStep(w))
  \/ Stopped

(* Threads of the operating system's scheduler: each runs until it ends. *)
Fairness ==
  /\ WF_vars(Coordinator)
  /\ \A w \in Workers : WF_vars(InitChunk(w)) /\ WF_vars(stage = "passes" /\ ScanStep(w))

Spec == Init /\ [][Next]_vars /\ Fairness
-----------------------------------------------------------------------------
TypeOK ==
  /\ game \in Game
  /\ stage \in {"load", "init", "passes", "finalize", "done", "failed"}
  /\ depth \in 0 .. DtmMax + 1
  /\ dtm \in [Sides -> [Cells -> 0 .. Unsolvable]]
  /\ cnt \in [Sides -> [Cells -> 0 .. CountSat]]
  /\ maxDtm \in -1 .. DtmMax
  /\ misses \in 0 .. 2
  /\ cursor \in Nat
  /\ resolved \in Nat
  /\ error \in BOOLEAN
  /\ pc \in [Workers -> {"init", "claim", "scan", "store", "publish", "done"}]
  /\ pos \in [Workers -> 0 .. PlaneSize]
  /\ hi \in [Workers -> 0 .. PlaneSize]
  /\ sum \in [Workers -> 0 .. CountSat]
  /\ local \in [Workers -> Nat]

(* No location one worker is about to write is read or written by another in
   the same pass: scan_pass's safety argument (generator.cpp:219-230), without
   which its unsynchronised byte accesses would be data races. *)
Accesses(w) ==
  {<<Plane, pos[w]>>} \cup
  (IF pc[w] = "scan"
     THEN {<<Others, MovesAt(w)[i].to>> : i \in DOMAIN MovesAt(w)} ELSE {})

NoDataRace ==
  stage = "passes" =>
    \A v, w \in Workers :
      (v # w /\ pc[v] = "store" /\ pc[w] \in {"scan", "store"})
        => <<Plane, pos[v]>> \notin Accesses(w)

(* Whatever the schedule has done so far, every value in the planes is earned:
   some move is worth one ply less, none is worth less than that, and the count
   is the saturated sum over exactly the moves that are worth it. *)
EarnedAt(s, c) ==
  LET moves == game.moves[s][c]
      e     == dtm[s][c]
  IN  /\ Mover(e) = s
      /\ Found(moves, dtm[Opp(s)], e - 1)
      /\ \A n \in 0 .. e - 2 : Mover(n + 1) = s => ~ Found(moves, dtm[Opp(s)], n)
      /\ cnt[s][c] = Total(moves, dtm[Opp(s)], cnt[Opp(s)], e - 1)

Earned ==
  stage \notin {"load", "init"} =>
    \A s \in Sides, c \in Cells : dtm[s][c] \in 1 .. DtmMax => EarnedAt(s, c)

(* No pass leaves a cell behind: once it is over, a cell without a value has
   no move worth the depths that were scanned, however the tiles were dealt. *)
NoneMissed ==
  stage \in {"passes", "finalize", "done"} =>
    \A n \in 1 .. depth - 1, c \in Cells :
      dtm[Mover(n)][c] \in {Unset, Unsolvable} =>
        ~ Found(game.moves[Mover(n)][c], dtm[Opp(Mover(n))], n - 1)

(* A cell is written at most once: no step replaces a value by another, except
   that Finalize turns the cells still unset into unsolvable ones. *)
WriteOnce ==
  [][\A s \in Sides, c \in Cells :
       (stage # "load" /\ dtm[s][c] # Unset)
         => dtm'[s][c] = dtm[s][c] /\ cnt'[s][c] = cnt[s][c]]_vars

(* The parallel passes implement the single-threaded ones (INTERNALS.md: the
   output is byte-identical): a pass takes effect when its workers join. *)
Joined(s, c) == stage \notin {"load", "init"} /\ dtm[s][c] # depth

Sequential == INSTANCE Retrograde WITH
  dtm <- [s \in Sides |-> [c \in Cells |-> IF Joined(s, c) THEN dtm[s][c] ELSE Unset]],
  cnt <- [s \in Sides |-> [c \in Cells |-> IF Joined(s, c) THEN cnt[s][c] ELSE 0]]

ImplementsSequential == Sequential!Spec

(* The run always ends, with a table or with an error. *)
Terminates == <>(stage \in {"done", "failed"})
=============================================================================
