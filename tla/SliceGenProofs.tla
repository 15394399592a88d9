--------------------------- MODULE SliceGenProofs ---------------------------
(***************************************************************************)
(* Machine-checked proofs about SliceGen, for every plane size, depth      *)
(* limit, number of threads, tile size and set of slices: the types, the   *)
(* absence of data races, and that every pass leaves both planes right     *)
(* (Earned, NoneMissed).                                                   *)
(*                                                                         *)
(* The argument: tiles are disjoint (Tiles), so an unset cell a worker is  *)
(* about to store stays unset (Pending); a pass writes only its own depth  *)
(* into its own side's plane (Levels), which no lookup at a lower depth    *)
(* can tell from an unset cell (StableTotals); and a cell below the cursor *)
(* was examined or still lies in somebody's tile (Covered).                *)
(*                                                                         *)
(* The second half proves the refinement: every step of the workers is a   *)
(* step of Retrograde, the single-threaded run, or a stutter of it         *)
(* (RunsSequentially). A pass takes effect at its join, so the invariant   *)
(* it adds, JInv, is about what the join relies on: the chunks dealt, the  *)
(* cells that throw, and that a worker's count says whether it assigned.   *)
(***************************************************************************)
EXTENDS SliceGen, TLAPS

Active(w) == pc[w] \in {"scan", "store"}

\* Where the stages and their counters can be.
Stages ==
  /\ stage \in {"load", "init"} =>
       \A s \in Sides, c \in Cells : dtm[s][c] \in {0, Unset, Invalid}
  /\ stage = "load" => \A s \in Sides, c \in Cells : dtm[s][c] = Unset
  /\ stage \in {"load", "init"} => misses = 0 /\ \A w \in Workers : pc[w] \in {"init", "done"}
  /\ stage = "passes" => depth \in 1 .. DtmMax /\ misses < 2
  /\ stage \in {"passes", "finalize"} => \A w \in Workers : pc[w] # "init"
  /\ stage \in {"finalize", "done"} => ~ error

\* Until the first pass a cell is unset or has the value init_pass gives it.
Initialised ==
  stage = "init" =>
    \A s \in Sides, c \in Cells :
      dtm[s][c] # Unset =>
        dtm[s][c] = InitDtm(game, s, c) /\ cnt[s][c] = InitCnt(game, s, c)

\* The tiles being scanned are disjoint and lie below the cursor.
Tiles ==
  stage = "passes" =>
    /\ \A w \in Workers : Active(w) => pos[w] < hi[w] /\ hi[w] <= cursor
    /\ \A v, w \in Workers :
         v # w /\ Active(v) /\ Active(w) => hi[v] <= pos[w] \/ hi[w] <= pos[v]

\* What a worker is about to store is still what it would find.
Pending ==
  stage = "passes" =>
    \A w \in Workers : pc[w] = "store" =>
      /\ Unresolved(w)
      /\ EarnsDepth(w)
      /\ sum[w] = LineTotal(w)

\* A value belongs to the side that moves at its depth, and to a pass that ran.
Levels ==
  /\ stage \notin {"load", "init"} =>
       \A s \in Sides, c \in Cells :
         dtm[s][c] \in 1 .. DtmMax => Mover(dtm[s][c]) = s /\ dtm[s][c] <= depth
  /\ stage \in {"passes", "finalize"} =>
       \A s \in Sides, c \in Cells : dtm[s][c] # Unsolvable

\* A cell the cursor has passed was examined or is in somebody's tile.
Covered ==
  stage = "passes" /\ ~ error =>
    /\ \A c \in Cells :
         (c < cursor /\ dtm[Plane][c] = Unset
            /\ Found(game.moves[Plane][c], dtm[Others], depth - 1))
           => \E w \in Workers : Active(w) /\ pos[w] <= c /\ c < hi[w]
    /\ \A w \in Workers : pc[w] \in {"publish", "done"} => cursor >= PlaneSize

IInv == /\ TypeOK /\ Stages /\ Initialised /\ Tiles /\ Pending /\ Levels /\ Covered
        /\ Earned /\ NoneMissed
-----------------------------------------------------------------------------
\* Sizes.

(* There is a worker, and a tile holds at least one cell. *)
LEMMA TileCellsPositive == NumWorkers \in Nat \ {0} /\ TileCells \in Nat \ {0}
  <1>1. NumWorkers \in Nat \ {0}
    BY SizeAssumption, ThreadsAssumption DEF NumWorkers
  <1>2. CASE NumWorkers = 1
    BY <1>2, SizeAssumption DEF TileCells
  <1>3. CASE NumWorkers # 1
    <2> DEFINE k == TilesPerWorker * NumWorkers
    <2>1. k \in Nat \ {0}
      BY <1>1, ThreadsAssumption
    <2>2. DivUp(PlaneSize, k) \in Nat \ {0}
      <3> HIDE DEF k
      <3>1. (PlaneSize + k - 1) \div k \in Int /\ (PlaneSize + k - 1) \div k >= 1
        BY <2>1, SizeAssumption
      <3> QED BY <3>1 DEF DivUp
    <2> QED BY <1>1, <1>3, <2>2 DEF TileCells
  <1> QED BY <1>1, <1>2, <1>3

(* The sides take turns: a pass reads the plane it does not write. *)
LEMMA MoverAlternates ==
  ASSUME NEW d \in Nat
  PROVE  /\ Mover(d) \in Sides
         /\ Opp(Mover(d)) \in Sides
         /\ Opp(Mover(d)) # Mover(d)
         /\ Mover(d + 1) # Mover(d)
         /\ \A s \in Sides : s # Mover(d) => s = Opp(Mover(d)) /\ Opp(s) = Mover(d)
  BY DEF Mover, Opp, Sides

-----------------------------------------------------------------------------
(* Two pairs of planes that a lookup at depth n cannot tell apart: cells that
   differ are deeper than n (or hold no depth at all) in both. *)
SameUpTo(n, dt, ct, dt2, ct2) ==
  \A c \in Cells : \/ dt[c] = dt2[c] /\ ct[c] = ct2[c]
                   \/ dt[c] > n /\ dt2[c] > n

(* The other side is a side. *)
LEMMA OppSide == \A s \in Sides : Opp(s) \in Sides
  BY DEF Opp, Sides

(* The moves of a cell are a sequence of moves. *)
LEMMA MovesTyped ==
  ASSUME TypeOK, NEW s \in Sides, NEW c \in Cells
  PROVE  game.moves[s][c] \in Seq(Move)
  <1>1. game \in Game
    BY DEF TypeOK
  <1>2. game.moves \in [Sides -> [Cells -> Seq(Move)]]
    BY <1>1 DEF Game
  <1> QED BY <1>2

(* A move looked up at a depth reads the same from two planes that agree up to it. *)
LEMMA StableEval ==
  ASSUME NEW n \in 0 .. DtmMax, NEW m \in Move,
         NEW dt \in [Cells -> 0 .. Unsolvable], NEW ct,
         NEW dt2 \in [Cells -> 0 .. Unsolvable], NEW ct2,
         SameUpTo(n, dt, ct, dt2, ct2)
  PROVE  /\ EvalsTo(m, dt, n) <=> EvalsTo(m, dt2, n)
         /\ EvalCount(m, dt, ct, n) = EvalCount(m, dt2, ct2, n)
  <1>1. CASE m.to = NoIndex
    BY <1>1 DEF EvalsTo, EvalCount, BaseDtm, BaseCount
  <1>2. CASE m.to # NoIndex
    <2>1. m.to \in Cells
      BY <1>2 DEF Move
    <2>2. /\ BaseDtm(m, dt) = n <=> BaseDtm(m, dt2) = n
          /\ BaseDtm(m, dt) >= n <=> BaseDtm(m, dt2) >= n
          /\ BaseDtm(m, dt) = n => BaseCount(m, ct) = BaseCount(m, ct2)
      BY <1>2, <2>1, SizeAssumption DEF SameUpTo, BaseDtm, BaseCount, Unsolvable
    <2> QED BY <2>2 DEF EvalsTo, EvalCount
  <1> QED BY <1>1, <1>2

\* The second half alone, as a predicate: matched as it stands, without rewriting.
SameCount(m, dt, ct, dt2, ct2, n) == EvalCount(m, dt, ct, n) = EvalCount(m, dt2, ct2, n)

(* The lines of a move count the same in two such planes. *)
LEMMA StableCount ==
  ASSUME NEW n \in 0 .. DtmMax, NEW m \in Move,
         NEW dt \in [Cells -> 0 .. Unsolvable], NEW ct,
         NEW dt2 \in [Cells -> 0 .. Unsolvable], NEW ct2,
         SameUpTo(n, dt, ct, dt2, ct2)
  PROVE  SameCount(m, dt, ct, dt2, ct2, n)
  <1>1. EvalCount(m, dt, ct, n) = EvalCount(m, dt2, ct2, n)
    BY StableEval
  <1> QED BY <1>1, Zenon DEF SameCount

(* A cell is found, and counted, the same from two planes that agree up to the depth. *)
LEMMA StableTotals ==
  ASSUME NEW n \in 0 .. DtmMax, NEW moves \in Seq(Move),
         NEW dt \in [Cells -> 0 .. Unsolvable], NEW ct,
         NEW dt2 \in [Cells -> 0 .. Unsolvable], NEW ct2,
         SameUpTo(n, dt, ct, dt2, ct2)
  PROVE  /\ Found(moves, dt, n) <=> Found(moves, dt2, n)
         /\ Total(moves, dt, ct, n) = Total(moves, dt2, ct2, n)
  <1>1. \A i \in DOMAIN moves :
          /\ EvalsTo(moves[i], dt, n) <=> EvalsTo(moves[i], dt2, n)
          /\ EvalCount(moves[i], dt, ct, n) = EvalCount(moves[i], dt2, ct2, n)
    <2> TAKE i \in DOMAIN moves
    <2>1. moves[i] \in Move
      OBVIOUS
    <2>2. SameUpTo(n, dt, ct, dt2, ct2)
      OBVIOUS
    <2>3. EvalsTo(moves[i], dt, n) <=> EvalsTo(moves[i], dt2, n)
      BY <2>1, <2>2, StableEval, Zenon
    <2>4. SameCount(moves[i], dt, ct, dt2, ct2, n)
      BY <2>1, <2>2, StableCount, Zenon
    <2>5. EvalCount(moves[i], dt, ct, n) = EvalCount(moves[i], dt2, ct2, n)
      BY <2>4, Zenon DEF SameCount
    <2> QED BY <2>3, <2>5
  <1>2. [i \in DOMAIN moves |->
           IF EvalsTo(moves[i], dt, n) THEN EvalCount(moves[i], dt, ct, n) ELSE 0]
        = [i \in DOMAIN moves |->
             IF EvalsTo(moves[i], dt2, n) THEN EvalCount(moves[i], dt2, ct2, n) ELSE 0]
    BY <1>1
  <1> QED BY <1>1, <1>2 DEF Found, Total

\* The same for the totals.
SameTotal(moves, dt, ct, dt2, ct2, n) == Total(moves, dt, ct, n) = Total(moves, dt2, ct2, n)

(* The lines of a cell count the same in two such planes. *)
LEMMA StableTotal ==
  ASSUME NEW n \in 0 .. DtmMax, NEW moves \in Seq(Move),
         NEW dt \in [Cells -> 0 .. Unsolvable], NEW ct,
         NEW dt2 \in [Cells -> 0 .. Unsolvable], NEW ct2,
         SameUpTo(n, dt, ct, dt2, ct2)
  PROVE  SameTotal(moves, dt, ct, dt2, ct2, n)
  <1>1. Total(moves, dt, ct, n) = Total(moves, dt2, ct2, n)
    BY StableTotals
  <1> QED BY <1>1 DEF SameTotal

(* A saturated count fits its width. *)
LEMMA CapType == \A n : Cap(n) \in 0 .. CountSat
  BY SizeAssumption DEF Cap

-----------------------------------------------------------------------------
\* The inductive invariant: types.

(* The first value of a cell is mate, unset or invalid, and its count fits. *)
LEMMA InitTypes ==
  ASSUME NEW g \in Game, NEW s \in Sides, NEW c \in Cells
  PROVE  /\ InitDtm(g, s, c) \in {0, Unset, Invalid}
         /\ InitDtm(g, s, c) \in 0 .. Unsolvable
         /\ InitCnt(g, s, c) \in 0 .. CountSat
  BY SizeAssumption DEF InitDtm, InitCnt, Unset, Invalid, Unsolvable

(* The special values and the depths fit the type of a plane. *)
LEMMA DepthTypes ==
  /\ {0, Unset, Invalid, Unsolvable} \subseteq 0 .. Unsolvable
  /\ 0 .. DtmMax + 1 \subseteq 0 .. Unsolvable
  /\ 0 \in 0 .. CountSat
  /\ 0 \in 0 .. PlaneSize
  BY SizeAssumption DEF Unset, Invalid, Unsolvable

(* A run starts in the invariant. *)
LEMMA InitInv == Init => IInv
  <1> SUFFICES ASSUME Init PROVE IInv
    OBVIOUS
  <1>1. TypeOK
    <2>1. game \in Game
      BY GamesAssumption DEF Init
    <2>2. maxDtm \in -1 .. DtmMax /\ depth \in 0 .. DtmMax + 1
      BY SizeAssumption DEF Init
    <2>3. dtm \in [Sides -> [Cells -> 0 .. Unsolvable]]
      BY DepthTypes DEF Init
    <2>4. cnt \in [Sides -> [Cells -> 0 .. CountSat]]
      BY DepthTypes DEF Init
    <2>5. /\ pos \in [Workers -> 0 .. PlaneSize]
          /\ hi \in [Workers -> 0 .. PlaneSize]
          /\ sum \in [Workers -> 0 .. CountSat]
      BY DepthTypes DEF Init
    <2>6. error \in BOOLEAN
      BY Zenon DEF Init
    <2>7. /\ pc \in [Workers -> {"init", "claim", "scan", "store", "publish", "done"}]
          /\ local \in [Workers -> Nat]
      BY DEF Init
    <2>8. misses \in 0 .. 2 /\ cursor \in Nat /\ resolved \in Nat
      BY DEF Init
    <2>9. stage \in {"load", "init", "passes", "finalize", "done", "failed"}
      BY DEF Init
    <2> QED BY <2>1, <2>2, <2>3, <2>4, <2>5, <2>6, <2>7, <2>8, <2>9 DEF TypeOK
  <1> QED
    BY <1>1 DEF Init, IInv, Stages, Initialised, Tiles, Pending, Levels, Covered, Earned, NoneMissed

(* The types are kept. *)
LEMMA TypeStep ==
  ASSUME TypeOK, Stages, Tiles, [Next]_vars
  PROVE  TypeOK'
  <1> USE DEF TypeOK
  <1>1. CASE LoadSubTables
    BY <1>1 DEF LoadSubTables, workerVars
  <1>2. CASE InitJoin
    <2>1. InitMax(dtm["black"]) \in -1 .. DtmMax /\ 1 \in 0 .. DtmMax + 1
      BY SizeAssumption DEF InitMax
    <2> QED BY <1>2, <2>1 DEF InitJoin, StartPass
  <1>3. CASE Join
    <2>1. CASE error
      BY <1>3, <2>1 DEF Join
    <2>2. CASE ~ error
      <3>1. depth \in 1 .. DtmMax /\ misses \in 0 .. 1
        BY <1>3 DEF Join, Stages
      <3>2. depth + 1 \in 0 .. DtmMax + 1 /\ depth \in -1 .. DtmMax /\ misses + 1 \in 0 .. 2
        BY <3>1, SizeAssumption
      <3> QED BY <1>3, <2>2, <3>2 DEF Join, StartPass
    <2> QED BY <2>1, <2>2
  <1>4. CASE Finalize
    <2>1. dtm' \in [Sides -> [Cells -> 0 .. Unsolvable]]
      BY <1>4, DepthTypes DEF Finalize
    <2> QED BY <1>4, <2>1 DEF Finalize, workerVars
  <1>5. ASSUME NEW w \in Workers, InitChunk(w)
        PROVE  TypeOK'
    <2>1. dtm' \in [Sides -> [Cells -> 0 .. Unsolvable]]
      BY <1>5, InitTypes DEF InitChunk
    <2>2. cnt' \in [Sides -> [Cells -> 0 .. CountSat]]
      BY <1>5, InitTypes DEF InitChunk
    <2> QED BY <1>5, <2>1, <2>2 DEF InitChunk
  <1>6. ASSUME NEW w \in Workers, stage = "passes", Claim(w)
        PROVE  TypeOK'
    <2>1. cursor' \in Nat
      BY <1>6, TileCellsPositive DEF Claim, NextTile
    <2>2. ~ NoTile(cursor) => TileEnd(cursor) \in 0 .. PlaneSize /\ cursor \in 0 .. PlaneSize
      BY TileCellsPositive, SizeAssumption DEF NoTile, TileEnd
    <2> QED BY <1>6, <2>1, <2>2 DEF Claim, sliceVars
  <1>7. ASSUME NEW w \in Workers, stage = "passes", SkipCell(w)
        PROVE  TypeOK'
    <2>1. pos[w] + 1 \in 0 .. PlaneSize
      BY <1>7, SizeAssumption DEF SkipCell, Tiles, Active
    <2> QED BY <1>7, <2>1 DEF SkipCell, Advance, sliceVars
  <1>8. ASSUME NEW w \in Workers, stage = "passes", Evaluate(w)
        PROVE  TypeOK'
    <2>1. LineTotal(w) \in 0 .. CountSat
      BY CapType DEF LineTotal, Total
    <2> QED BY <1>8, <2>1 DEF Evaluate, sliceVars
  <1>9. ASSUME NEW w \in Workers, stage = "passes", Store(w)
        PROVE  TypeOK'
    <2>1. pos[w] + 1 \in 0 .. PlaneSize
      BY <1>9, SizeAssumption DEF Store, Tiles, Active
    <2>2. depth \in 0 .. Unsolvable
      BY DepthTypes
    <2>3. dtm' \in [Sides -> [Cells -> 0 .. Unsolvable]]
      BY <1>9, <2>2 DEF Store
    <2>4. cnt' \in [Sides -> [Cells -> 0 .. CountSat]]
      BY <1>9 DEF Store
    <2> QED BY <1>9, <2>1, <2>3, <2>4 DEF Store, Advance
  <1>10. ASSUME NEW w \in Workers, stage = "passes", Throw(w)
         PROVE  TypeOK'
    BY <1>10 DEF Throw, sliceVars
  <1>11. ASSUME NEW w \in Workers, stage = "passes", Publish(w)
         PROVE  TypeOK'
    BY <1>11 DEF Publish, Published, sliceVars
  <1>12. CASE UNCHANGED vars
    BY <1>12 DEF vars, sliceVars, workerVars
  <1> QED
    BY <1>1, <1>2, <1>3, <1>4, <1>5, <1>6, <1>7, <1>8, <1>9, <1>10, <1>11, <1>12
    DEF Next, Coordinator, ScanStep, Stopped

-----------------------------------------------------------------------------
\* The inductive invariant: the schedule.

(* The stages follow each other, and each keeps its counters. *)
LEMMA StagesStep ==
  ASSUME TypeOK, Stages, [Next]_vars
  PROVE  Stages'
  <1>1. CASE LoadSubTables
    BY <1>1 DEF LoadSubTables, workerVars, Stages
  <1>2. CASE InitJoin
    BY <1>2, SizeAssumption DEF InitJoin, StartPass, Stages
  <1>3. CASE Join
    <2>1. CASE error
      BY <1>3, <2>1 DEF Join, Stages
    <2>2. CASE ~ error
      BY <1>3, <2>2 DEF Join, StartPass, GoOn, Stages, TypeOK
    <2> QED BY <2>1, <2>2
  <1>4. CASE Finalize
    BY <1>4 DEF Finalize, workerVars, Stages
  <1>5. ASSUME NEW w \in Workers, InitChunk(w)
        PROVE  Stages'
    <2>1. \A s \in Sides, c \in Cells : dtm'[s][c] \in {0, Unset, Invalid}
      BY <1>5, InitTypes DEF InitChunk, Stages, TypeOK
    <2>2. \A v \in Workers : pc'[v] \in {"init", "done"}
      BY <1>5 DEF InitChunk, Stages, TypeOK
    <2> QED BY <1>5, <2>1, <2>2 DEF InitChunk, Stages
  <1>6. ASSUME NEW w \in Workers, stage = "passes", ScanStep(w)
        PROVE  Stages'
    <2>1. UNCHANGED <<stage, depth, misses>>
      BY <1>6 DEF ScanStep, Claim, SkipCell, Evaluate, Store, Throw, Publish, sliceVars
    <2>2. \A v \in Workers : pc'[v] # "init"
      BY <1>6 DEF ScanStep, Claim, SkipCell, Evaluate, Store, Throw, Publish, Advance, Stages, TypeOK
    <2> QED BY <1>6, <2>1, <2>2 DEF Stages
  <1>7. CASE UNCHANGED vars
    BY <1>7 DEF vars, sliceVars, workerVars, Stages
  <1> QED
    BY <1>1, <1>2, <1>3, <1>4, <1>5, <1>6, <1>7 DEF Next, Coordinator, Stopped

(* While the chunks are dealt, a cell that is set has its first value and count. *)
LEMMA InitialisedStep ==
  ASSUME TypeOK, Stages, Initialised, [Next]_vars
  PROVE  Initialised'
  <1>1. CASE LoadSubTables
    BY <1>1 DEF LoadSubTables, Initialised, Stages
  <1>2. CASE InitJoin \/ Join \/ Finalize
    BY <1>2 DEF InitJoin, Join, Finalize, Initialised
  <1>3. ASSUME NEW w \in Workers, InitChunk(w)
        PROVE  Initialised'
    BY <1>3 DEF InitChunk, Initialised, TypeOK
  <1>4. ASSUME NEW w \in Workers, stage = "passes", ScanStep(w)
        PROVE  Initialised'
    BY <1>4 DEF ScanStep, Claim, SkipCell, Evaluate, Store, Throw, Publish, sliceVars, Initialised
  <1>5. CASE UNCHANGED vars
    BY <1>5 DEF vars, sliceVars, Initialised
  <1> QED
    BY <1>1, <1>2, <1>3, <1>4, <1>5 DEF Next, Coordinator, Stopped

(* The cursor moves on by a tile, so two workers never hold the same cell. *)
LEMMA TilesStep ==
  ASSUME TypeOK, Tiles, [Next]_vars
  PROVE  Tiles'
  <1>1. CASE LoadSubTables \/ InitJoin \/ Join \/ Finalize
    BY <1>1 DEF LoadSubTables, InitJoin, Join, Finalize, StartPass, Tiles, Active
  <1>2. ASSUME NEW w \in Workers, InitChunk(w)
        PROVE  Tiles'
    BY <1>2 DEF InitChunk, Tiles
  <1>3. ASSUME NEW w \in Workers, stage = "passes", Claim(w)
        PROVE  Tiles'
    <2>1. CASE NoTile(cursor)
      <3>1. /\ pos' = pos /\ hi' = hi /\ stage' = stage
            /\ pc' = [pc EXCEPT ![w] = "publish"]
        BY <1>3, <2>1 DEF Claim, sliceVars
      <3>2. cursor' \in Nat /\ cursor <= cursor'
        BY <1>3, TileCellsPositive DEF Claim, NextTile, TypeOK
      <3>3. \A v \in Workers : pc'[v] \in {"scan", "store"} => pc[v] \in {"scan", "store"}
        BY <3>1 DEF TypeOK
      <3>4. cursor \in Nat /\ hi \in [Workers -> 0 .. PlaneSize]
        BY DEF TypeOK
      <3> QED BY <1>3, <3>1, <3>2, <3>3, <3>4, SizeAssumption DEF Tiles, Active
    <2>2. CASE ~ NoTile(cursor)
      <3>1. cursor < TileEnd(cursor) /\ TileEnd(cursor) <= cursor' /\ cursor <= cursor'
        BY <1>3, <2>2, TileCellsPositive, SizeAssumption
        DEF Claim, NoTile, TileEnd, NextTile, TypeOK
      <3>2. /\ pos' = [pos EXCEPT ![w] = cursor]
            /\ hi' = [hi EXCEPT ![w] = TileEnd(cursor)]
            /\ pc' = [pc EXCEPT ![w] = "scan"]
            /\ stage' = stage
        BY <1>3, <2>2 DEF Claim, sliceVars
      <3>3. cursor' \in Nat /\ TileEnd(cursor) \in Nat
        BY <1>3, TileCellsPositive, SizeAssumption DEF Claim, TileEnd, NextTile, TypeOK
      <3> QED BY <1>3, <3>1, <3>2, <3>3 DEF Tiles, Active, TypeOK
    <2> QED BY <2>1, <2>2
  <1>4. ASSUME NEW w \in Workers, stage = "passes", SkipCell(w) \/ Store(w)
        PROVE  Tiles'
    <2>1. /\ pos' = [pos EXCEPT ![w] = @ + 1]
          /\ pc' = [pc EXCEPT ![w] = IF pos[w] + 1 < hi[w] THEN "scan" ELSE "claim"]
          /\ Active(w)
          /\ UNCHANGED <<stage, cursor, hi>>
      BY <1>4 DEF SkipCell, Store, Advance, Active, sliceVars
    <2> QED BY <1>4, <2>1 DEF Tiles, Active, TypeOK
  <1>5. ASSUME NEW w \in Workers, stage = "passes", Evaluate(w) \/ Throw(w) \/ Publish(w)
        PROVE  Tiles'
    <2>1. UNCHANGED <<stage, cursor, pos, hi>>
      BY <1>5 DEF Evaluate, Throw, Publish, sliceVars
    <2>2. \A v \in Workers : Active(v)' => Active(v)
      BY <1>5 DEF Evaluate, Throw, Publish, Active, TypeOK
    <2> QED BY <1>5, <2>1, <2>2 DEF Tiles
  <1>6. CASE UNCHANGED vars
    BY <1>6 DEF vars, sliceVars, workerVars, Tiles, Active
  <1> QED
    BY <1>1, <1>2, <1>3, <1>4, <1>5, <1>6 DEF Next, Coordinator, ScanStep, Stopped

\* A worker's write leaves alone what another worker is about to store.
LEMMA PendingStep ==
  ASSUME TypeOK, Stages, Tiles, Pending, [Next]_vars
  PROVE  Pending'
  <1>1. CASE LoadSubTables \/ InitJoin \/ Join \/ Finalize
    BY <1>1 DEF LoadSubTables, InitJoin, Join, Finalize, StartPass, Pending
  <1>2. ASSUME NEW w \in Workers, InitChunk(w)
        PROVE  Pending'
    BY <1>2 DEF InitChunk, Pending
  <1>3. ASSUME NEW w \in Workers, stage = "passes",
               Claim(w) \/ SkipCell(w) \/ Throw(w) \/ Publish(w)
        PROVE  Pending'
    <2>1. UNCHANGED sliceVars /\ sum' = sum
      BY <1>3 DEF Claim, SkipCell, Throw, Publish
    <2>2. \A v \in Workers : pc'[v] = "store" => pc[v] = "store" /\ pos'[v] = pos[v]
      BY <1>3 DEF Claim, SkipCell, Throw, Publish, Advance, TypeOK
    <2> QED
      BY <1>3, <2>1, <2>2
      DEF Pending, Unresolved, EarnsDepth, LineTotal, MovesAt, Plane, Others, sliceVars
  <1>4. ASSUME NEW w \in Workers, stage = "passes", Evaluate(w)
        PROVE  Pending'
    <2>1. UNCHANGED sliceVars /\ pos' = pos
      BY <1>4 DEF Evaluate
    <2>2. \A v \in Workers : v # w => pc'[v] = pc[v] /\ sum'[v] = sum[v]
      BY <1>4 DEF Evaluate, TypeOK
    <2>3. Unresolved(w) /\ EarnsDepth(w) /\ sum'[w] = LineTotal(w)
      BY <1>4 DEF Evaluate, TypeOK
    <2> QED
      BY <1>4, <2>1, <2>2, <2>3
      DEF Pending, Unresolved, EarnsDepth, LineTotal, MovesAt, Plane, Others, sliceVars
  <1>5. ASSUME NEW w \in Workers, stage = "passes", Store(w)
        PROVE  Pending'
    <2>1. /\ Plane \in Sides /\ Others \in Sides /\ Others # Plane
          /\ Plane' = Plane /\ Others' = Others
      BY <1>5, MoverAlternates DEF Plane, Others, Store, TypeOK
    <2>2. dtm'[Others] = dtm[Others] /\ cnt'[Others] = cnt[Others]
      BY <1>5, <2>1 DEF Store, TypeOK
    <2> SUFFICES ASSUME NEW v \in Workers, pc'[v] = "store"
                 PROVE  Unresolved(v)' /\ EarnsDepth(v)' /\ sum'[v] = LineTotal(v)'
      BY DEF Pending
    <2>3. v # w /\ pc[v] = "store" /\ pos'[v] = pos[v] /\ sum'[v] = sum[v]
      BY <1>5 DEF Store, Advance, TypeOK
    <2>4. pos[v] # pos[w]
      BY <1>5, <2>3 DEF Store, Tiles, Active, TypeOK
    <2>5. dtm'[Plane][pos[v]] = dtm[Plane][pos[v]]
      BY <1>5, <2>1, <2>4 DEF Store, TypeOK
    <2>6. MovesAt(v)' = MovesAt(v)
      BY <1>5, <2>1, <2>3 DEF MovesAt, Store
    <2>7. Unresolved(v) /\ EarnsDepth(v) /\ sum[v] = LineTotal(v)
      BY <1>5, <2>3 DEF Pending
    <2>8. Unresolved(v)'
      BY <2>1, <2>3, <2>5, <2>7 DEF Unresolved
    <2>9. EarnsDepth(v)'
      BY <1>5, <2>1, <2>2, <2>6, <2>7 DEF EarnsDepth, Store
    <2>10. LineTotal(v)' = LineTotal(v)
      BY <1>5, <2>1, <2>2, <2>6 DEF LineTotal, Store
    <2> QED BY <2>3, <2>7, <2>8, <2>9, <2>10
  <1>6. CASE UNCHANGED vars
    BY <1>6
    DEF vars, sliceVars, workerVars, Pending, Unresolved, EarnsDepth, LineTotal, MovesAt, Plane, Others
  <1> QED
    BY <1>1, <1>2, <1>3, <1>4, <1>5, <1>6 DEF Next, Coordinator, ScanStep, Stopped

-----------------------------------------------------------------------------
\* The inductive invariant: the planes.

\* What Store does to the planes, as the lookups of any lower depth see it.
LEMMA StoreIsInvisible ==
  ASSUME TypeOK, Stages, Tiles, Pending, stage = "passes",
         NEW w \in Workers, Store(w), NEW s \in Sides
  PROVE  \A n \in 0 .. depth - 1 : SameUpTo(n, dtm[s], cnt[s], dtm'[s], cnt'[s])
  <1>1. depth \in 1 .. DtmMax /\ Plane \in Sides
    BY MoverAlternates DEF Stages, Plane, TypeOK
  <1>2. dtm[Plane][pos[w]] = Unset
    BY DEF Pending, Store, Unresolved
  <1>3. \A c \in Cells : \/ dtm'[s][c] = dtm[s][c] /\ cnt'[s][c] = cnt[s][c]
                         \/ dtm[s][c] = Unset /\ dtm'[s][c] = depth
    BY <1>1, <1>2 DEF Store, TypeOK
  <1> QED BY <1>1, <1>3, SizeAssumption DEF SameUpTo, Unset

(* A pass writes its own depth, into its own plane, and at unset cells only. *)
LEMMA LevelsStep ==
  ASSUME TypeOK, Stages, Tiles, Levels, [Next]_vars
  PROVE  Levels'
  <1>1. CASE LoadSubTables
    BY <1>1, SizeAssumption DEF LoadSubTables, Levels, Stages, Unset, Invalid
  <1>2. CASE InitJoin
    BY <1>2, SizeAssumption DEF InitJoin, StartPass, Levels, Stages, Unset, Invalid, Unsolvable
  <1>3. CASE Join
    <2>1. depth' \in Nat /\ depth <= depth' /\ dtm' = dtm
      BY <1>3 DEF Join, StartPass, TypeOK
    <2> QED BY <1>3, <2>1 DEF Join, Levels, TypeOK
  <1>4. CASE Finalize
    BY <1>4, SizeAssumption DEF Finalize, Levels, Unsolvable, TypeOK
  <1>5. ASSUME NEW w \in Workers, InitChunk(w)
        PROVE  Levels'
    BY <1>5 DEF InitChunk, Levels
  <1>6. ASSUME NEW w \in Workers, stage = "passes", ScanStep(w), ~ Store(w)
        PROVE  Levels'
    BY <1>6 DEF ScanStep, Claim, SkipCell, Evaluate, Throw, Publish, sliceVars, Levels
  <1>7. ASSUME NEW w \in Workers, stage = "passes", Store(w)
        PROVE  Levels'
    <2>1. \A s \in Sides, c \in Cells :
            dtm'[s][c] = dtm[s][c] \/ (s = Mover(depth) /\ dtm'[s][c] = depth)
      BY <1>7, MoverAlternates DEF Store, Plane, TypeOK
    <2>2. depth # Unsolvable
      BY <1>7, SizeAssumption DEF Stages, Unsolvable
    <2> QED BY <1>7, <2>1, <2>2 DEF Store, Levels, TypeOK
  <1>8. CASE UNCHANGED vars
    BY <1>8 DEF vars, sliceVars, Levels
  <1> QED
    BY <1>1, <1>2, <1>3, <1>4, <1>5, <1>6, <1>7, <1>8 DEF Next, Coordinator, Stopped

\* A cell keeps what it has earned as long as lookups below its depth agree.
LEMMA EarnedKept ==
  ASSUME TypeOK, TypeOK', game' = game, NEW s \in Sides, NEW c \in Cells,
         dtm[s][c] \in 1 .. DtmMax, dtm'[s][c] = dtm[s][c], cnt'[s][c] = cnt[s][c],
         \A n \in 0 .. dtm[s][c] - 1 :
           SameUpTo(n, dtm[Opp(s)], cnt[Opp(s)], dtm'[Opp(s)], cnt'[Opp(s)]),
         EarnedAt(s, c)
  PROVE  EarnedAt(s, c)'
  <1> DEFINE moves == game.moves[s][c]
             e     == dtm[s][c]
             o     == Opp(s)
  <1>1. o \in Sides /\ moves \in Seq(Move)
    BY OppSide, MovesTyped
  <1>2. /\ dtm[o] \in [Cells -> 0 .. Unsolvable]
        /\ dtm'[o] \in [Cells -> 0 .. Unsolvable]
    BY <1>1 DEF TypeOK
  <1>3. ASSUME NEW n \in 0 .. e - 1
        PROVE  /\ Found(moves, dtm[o], n) <=> Found(moves, dtm'[o], n)
               /\ Total(moves, dtm[o], cnt[o], n) = Total(moves, dtm'[o], cnt'[o], n)
    <2>1. n \in 0 .. DtmMax /\ SameUpTo(n, dtm[o], cnt[o], dtm'[o], cnt'[o])
      BY <1>3, SizeAssumption
    <2> DEFINE dt  == dtm[o]
               ct  == cnt[o]
               dt2 == dtm'[o]
               ct2 == cnt'[o]
    <2>2. /\ n \in 0 .. DtmMax
          /\ moves \in Seq(Move)
          /\ dt \in [Cells -> 0 .. Unsolvable]
          /\ dt2 \in [Cells -> 0 .. Unsolvable]
          /\ SameUpTo(n, dt, ct, dt2, ct2)
      BY <1>1, <1>2, <2>1
    <2> HIDE DEF moves, o, dt, ct, dt2, ct2
    <2>3. Found(moves, dt, n) <=> Found(moves, dt2, n)
      BY <2>2, StableTotals, Zenon
    <2>4. SameTotal(moves, dt, ct, dt2, ct2, n)
      BY <2>2, StableTotal, Zenon
    <2> QED BY <2>3, <2>4 DEF dt, ct, dt2, ct2, SameTotal
  <1>4. e - 1 \in 0 .. e - 1 /\ \A n \in 0 .. e - 2 : n \in 0 .. e - 1
    BY SizeAssumption
  <1> QED BY <1>3, <1>4 DEF EarnedAt

\* Finalize only replaces one value above every depth by another.
LEMMA FinalizeIsInvisible ==
  ASSUME TypeOK, Finalize, NEW s \in Sides, NEW n \in 0 .. DtmMax
  PROVE  SameUpTo(n, dtm[s], cnt[s], dtm'[s], cnt'[s])
  BY SizeAssumption DEF Finalize, SameUpTo, TypeOK, Unset, Unsolvable

(* A value stays earned: the plane it was read from keeps the depths below. *)
LEMMA EarnedStep ==
  ASSUME IInv, TypeOK', [Next]_vars
  PROVE  Earned'
  <1> USE DEF IInv
  <1>1. CASE LoadSubTables
    BY <1>1, SizeAssumption DEF LoadSubTables, Earned, Stages, Unset, Invalid
  <1>2. CASE InitJoin
    BY <1>2, SizeAssumption DEF InitJoin, StartPass, Earned, Stages, Unset, Invalid
  <1>3. CASE Join
    BY <1>3 DEF Join, Earned, EarnedAt
  <1>4. CASE Finalize
    <2> SUFFICES ASSUME NEW s \in Sides, NEW c \in Cells, dtm'[s][c] \in 1 .. DtmMax
                 PROVE  EarnedAt(s, c)'
      BY DEF Earned
    <2>1. dtm'[s][c] = dtm[s][c] /\ cnt'[s][c] = cnt[s][c] /\ game' = game
      BY <1>4, SizeAssumption DEF Finalize, TypeOK, Unsolvable
    <2>2. EarnedAt(s, c)
      BY <1>4, <2>1 DEF Finalize, Earned
    <2>3. Opp(s) \in Sides
      BY OppSide
    <2>4. \A n \in 0 .. dtm[s][c] - 1 :
            SameUpTo(n, dtm[Opp(s)], cnt[Opp(s)], dtm'[Opp(s)], cnt'[Opp(s)])
      <3> TAKE n \in 0 .. dtm[s][c] - 1
      <3>1. n \in 0 .. DtmMax
        BY <2>1, SizeAssumption
      <3> QED BY <1>4, <2>3, <3>1, FinalizeIsInvisible
    <2> QED BY <2>1, <2>2, <2>4, EarnedKept
  <1>5. ASSUME NEW w \in Workers, InitChunk(w)
        PROVE  Earned'
    BY <1>5 DEF InitChunk, Earned
  <1>6. ASSUME NEW w \in Workers, stage = "passes", ScanStep(w), ~ Store(w)
        PROVE  Earned'
    <2>1. UNCHANGED sliceVars
      BY <1>6 DEF ScanStep, Claim, SkipCell, Evaluate, Throw, Publish
    <2> QED BY <2>1 DEF sliceVars, Earned, EarnedAt
  <1>7. ASSUME NEW w \in Workers, stage = "passes", Store(w)
        PROVE  Earned'
    <2> SUFFICES ASSUME NEW s \in Sides, NEW c \in Cells, dtm'[s][c] \in 1 .. DtmMax
                 PROVE  EarnedAt(s, c)'
      BY DEF Earned
    <2>1. /\ depth \in 1 .. DtmMax /\ Plane = Mover(depth) /\ Others = Opp(Mover(depth))
          /\ Plane \in Sides /\ Others \in Sides /\ Others # Plane /\ Opp(s) \in Sides
          /\ game' = game /\ stage' = stage /\ depth' = depth
      BY <1>7, MoverAlternates DEF Stages, Plane, Others, Store, TypeOK, Opp, Sides
    <2>2. dtm'[Others] = dtm[Others] /\ cnt'[Others] = cnt[Others]
      BY <1>7, <2>1 DEF Store, TypeOK
    <2>3. CASE s = Plane /\ c = pos[w]
      <3>1. dtm'[s][c] = depth /\ cnt'[s][c] = sum[w]
        BY <1>7, <2>1, <2>3 DEF Store, TypeOK
      <3>2. EarnsDepth(w) /\ sum[w] = LineTotal(w) /\ dtm[s][c] = Unset
        BY <1>7, <2>3 DEF Pending, Store, Unresolved
      <3>3. ASSUME NEW n \in 0 .. depth - 2, Mover(n + 1) = s
            PROVE  ~ Found(game.moves[s][c], dtm[Others], n)
        <4>1. n + 1 \in 1 .. depth - 1 /\ (n + 1) - 1 = n
          BY <2>1
        <4> QED BY <1>7, <2>1, <2>3, <3>2, <3>3, <4>1 DEF NoneMissed
      <3>4. Found(game.moves[s][c], dtm[Others], depth - 1)
        BY <2>3, <3>2 DEF EarnsDepth, MovesAt
      <3>5. sum[w] = Total(game.moves[s][c], dtm[Others], cnt[Others], depth - 1)
        BY <2>3, <3>2 DEF LineTotal, MovesAt
      <3>6. Opp(s) = Others /\ Mover(depth) = s
        BY <2>1, <2>3
      <3> QED BY <2>1, <2>2, <3>1, <3>3, <3>4, <3>5, <3>6 DEF EarnedAt
    <2>4. CASE ~ (s = Plane /\ c = pos[w])
      <3>1. dtm'[s][c] = dtm[s][c] /\ cnt'[s][c] = cnt[s][c]
        BY <1>7, <2>1, <2>4 DEF Store, TypeOK
      <3>2. EarnedAt(s, c) /\ dtm[s][c] <= depth
        BY <1>7, <3>1 DEF Earned, Levels
      <3>3. \A n \in 0 .. depth - 1 :
              SameUpTo(n, dtm[Opp(s)], cnt[Opp(s)], dtm'[Opp(s)], cnt'[Opp(s)])
        BY <1>7, <2>1, StoreIsInvisible
      <3>4. \A n \in 0 .. dtm[s][c] - 1 : n \in 0 .. depth - 1
        BY <2>1, <3>1, <3>2
      <3> QED BY <2>1, <3>1, <3>2, <3>3, <3>4, EarnedKept
    <2> QED BY <2>3, <2>4
  <1>8. CASE UNCHANGED vars
    BY <1>8 DEF vars, sliceVars, Earned, EarnedAt
  <1> QED
    BY <1>1, <1>2, <1>3, <1>4, <1>5, <1>6, <1>7, <1>8 DEF Next, Coordinator, Stopped

\* A cell without a value still has no move worth n when lookups at n agree.
LEMMA MissKept ==
  ASSUME TypeOK, TypeOK', game' = game, NEW s \in Sides, NEW c \in Cells,
         NEW n \in 0 .. DtmMax,
         SameUpTo(n, dtm[Opp(s)], cnt[Opp(s)], dtm'[Opp(s)], cnt'[Opp(s)]),
         ~ Found(game.moves[s][c], dtm[Opp(s)], n)
  PROVE  ~ Found(game'.moves[s][c], dtm'[Opp(s)], n)
  <1>1. Opp(s) \in Sides /\ game.moves[s][c] \in Seq(Move)
    BY OppSide, MovesTyped
  <1>2. /\ dtm[Opp(s)] \in [Cells -> 0 .. Unsolvable]
        /\ dtm'[Opp(s)] \in [Cells -> 0 .. Unsolvable]
    BY <1>1 DEF TypeOK
  <1>3. Found(game.moves[s][c], dtm[Opp(s)], n) <=> Found(game.moves[s][c], dtm'[Opp(s)], n)
    BY <1>1, <1>2, StableTotals, Zenon
  <1> QED BY <1>3

(* A join leaves nothing behind that the pass should have found. *)
LEMMA NoneMissedStep ==
  ASSUME IInv, TypeOK', [Next]_vars
  PROVE  NoneMissed'
  <1> USE DEF IInv
  <1>1. CASE LoadSubTables
    BY <1>1 DEF LoadSubTables, NoneMissed
  <1>2. CASE InitJoin
    BY <1>2 DEF InitJoin, StartPass, NoneMissed
  <1>3. CASE Join
    <2>1. CASE error
      BY <1>3, <2>1 DEF Join, NoneMissed
    <2>2. CASE ~ error
      <3>1. \A c \in Cells :
              dtm[Plane][c] = Unset => ~ Found(game.moves[Plane][c], dtm[Others], depth - 1)
        <4>1. cursor >= PlaneSize
          BY <1>3, <2>2, TileCellsPositive DEF Join, Covered, Workers
        <4>2. \A w \in Workers : ~ Active(w)
          BY <1>3 DEF Join, Active
        <4>3. \A c \in Cells : c < cursor
          BY <4>1, SizeAssumption DEF Cells, TypeOK
        <4> QED BY <1>3, <2>2, <4>2, <4>3 DEF Covered, Join
      <3>2. /\ depth \in 1 .. DtmMax /\ depth' = depth + 1
            /\ game' = game /\ dtm' = dtm /\ stage = "passes"
        BY <1>3, <2>2 DEF Join, StartPass, Stages
      <3>3. \A c \in Cells : dtm[Plane][c] # Unsolvable
        BY <3>2, MoverAlternates DEF Levels, Plane, TypeOK
      <3> SUFFICES ASSUME NEW n \in 1 .. depth, NEW c \in Cells,
                          dtm[Mover(n)][c] \in {Unset, Unsolvable}
                   PROVE  ~ Found(game.moves[Mover(n)][c], dtm[Opp(Mover(n))], n - 1)
        BY <3>2 DEF NoneMissed
      <3>4. CASE n = depth
        BY <3>1, <3>3, <3>4 DEF Plane, Others
      <3>5. CASE n # depth
        BY <3>2, <3>5 DEF NoneMissed
      <3> QED BY <3>4, <3>5
    <2> QED BY <2>1, <2>2
  <1>4. CASE Finalize
    <2> SUFFICES ASSUME NEW n \in 1 .. depth - 1, NEW c \in Cells,
                        dtm'[Mover(n)][c] \in {Unset, Unsolvable}
                 PROVE  ~ Found(game'.moves[Mover(n)][c], dtm'[Opp(Mover(n))], n - 1)
      BY <1>4 DEF NoneMissed, Finalize
    <2>1. /\ Mover(n) \in Sides /\ Opp(Mover(n)) \in Sides /\ n - 1 \in 0 .. DtmMax
          /\ game' = game
      <3>1. n \in Nat /\ n - 1 \in 0 .. DtmMax
        BY SizeAssumption DEF TypeOK
      <3> QED BY <1>4, <3>1, MoverAlternates DEF Finalize
    <2>2. dtm[Mover(n)][c] \in {Unset, Unsolvable}
      BY <1>4, <2>1 DEF Finalize, TypeOK
    <2>3. ~ Found(game.moves[Mover(n)][c], dtm[Opp(Mover(n))], n - 1)
      BY <1>4, <2>2 DEF NoneMissed, Finalize
    <2>4. SameUpTo(n - 1, dtm[Opp(Mover(n))], cnt[Opp(Mover(n))],
                   dtm'[Opp(Mover(n))], cnt'[Opp(Mover(n))])
      BY <1>4, <2>1, FinalizeIsInvisible
    <2> QED BY <2>1, <2>3, <2>4, MissKept
  <1>5. ASSUME NEW w \in Workers, InitChunk(w)
        PROVE  NoneMissed'
    BY <1>5 DEF InitChunk, NoneMissed
  <1>6. ASSUME NEW w \in Workers, stage = "passes", ScanStep(w), ~ Store(w)
        PROVE  NoneMissed'
    <2>1. UNCHANGED sliceVars
      BY <1>6 DEF ScanStep, Claim, SkipCell, Evaluate, Throw, Publish
    <2> QED BY <2>1 DEF sliceVars, NoneMissed
  <1>7. ASSUME NEW w \in Workers, stage = "passes", Store(w)
        PROVE  NoneMissed'
    <2> SUFFICES ASSUME NEW n \in 1 .. depth - 1, NEW c \in Cells,
                        dtm'[Mover(n)][c] \in {Unset, Unsolvable}
                 PROVE  ~ Found(game'.moves[Mover(n)][c], dtm'[Opp(Mover(n))], n - 1)
      BY <1>7 DEF NoneMissed, Store
    <2>1. /\ Mover(n) \in Sides /\ Opp(Mover(n)) \in Sides /\ n - 1 \in 0 .. DtmMax
          /\ n - 1 \in 0 .. depth - 1 /\ game' = game /\ depth \in 1 .. DtmMax
      <3>1. n \in Nat /\ n - 1 \in 0 .. DtmMax /\ n - 1 \in 0 .. depth - 1
        BY SizeAssumption DEF TypeOK
      <3> QED BY <1>7, <3>1, MoverAlternates DEF Store, Stages
    <2>2. dtm[Mover(n)][c] \in {Unset, Unsolvable}
      <3>1. depth \notin {Unset, Unsolvable}
        BY <2>1, SizeAssumption DEF Unset, Unsolvable
      <3>2. dtm'[Mover(n)][c] = dtm[Mover(n)][c] \/ dtm'[Mover(n)][c] = depth
        BY <1>7, <2>1 DEF Store, TypeOK
      <3> QED BY <3>1, <3>2
    <2>3. ~ Found(game.moves[Mover(n)][c], dtm[Opp(Mover(n))], n - 1)
      BY <1>7, <2>2 DEF NoneMissed
    <2>4. SameUpTo(n - 1, dtm[Opp(Mover(n))], cnt[Opp(Mover(n))],
                   dtm'[Opp(Mover(n))], cnt'[Opp(Mover(n))])
      BY <1>7, <2>1, StoreIsInvisible
    <2> QED BY <2>1, <2>3, <2>4, MissKept
  <1>8. CASE UNCHANGED vars
    BY <1>8 DEF vars, sliceVars, NoneMissed
  <1> QED
    BY <1>1, <1>2, <1>3, <1>4, <1>5, <1>6, <1>7, <1>8 DEF Next, Coordinator, Stopped

(* A cell leaves a tile only after it was examined. *)
LEMMA CoveredStep ==
  ASSUME IInv, [Next]_vars
  PROVE  Covered'
  <1> USE DEF IInv
  <1>1. CASE LoadSubTables \/ Finalize
    BY <1>1 DEF LoadSubTables, Finalize, Covered
  <1>2. CASE InitJoin \/ Join
    <2>1. stage' = "passes" /\ ~ error' =>
            cursor' = 0 /\ \A w \in Workers : pc'[w] = "claim"
      BY <1>2 DEF InitJoin, Join, StartPass
    <2> QED BY <2>1 DEF Covered, Cells
  <1>3. ASSUME NEW w \in Workers, InitChunk(w)
        PROVE  Covered'
    BY <1>3 DEF InitChunk, Covered
  <1>4. ASSUME NEW w \in Workers, stage = "passes", Claim(w)
        PROVE  Covered'
    <2> SUFFICES ASSUME ~ error
                 PROVE  Covered'
      BY <1>4 DEF Claim, Covered
    <2>1. UNCHANGED sliceVars /\ cursor' \in Nat /\ cursor < cursor'
      BY <1>4, TileCellsPositive DEF Claim, NextTile, TypeOK
    <2>2. Plane' = Plane /\ Others' = Others
      BY <2>1 DEF Plane, Others, sliceVars
    <2>3. \A v \in Workers : v # w =>
            (Active(v)' <=> Active(v)) /\ pos'[v] = pos[v] /\ hi'[v] = hi[v] /\ pc'[v] = pc[v]
      BY <1>4 DEF Claim, Active, TypeOK
    <2>4. ~ Active(w)
      BY <1>4 DEF Claim, Active
    <2>5. \A v \in Workers : pc'[v] \in {"publish", "done"} => cursor' >= PlaneSize
      <3> TAKE v \in Workers
      <3>1. CASE v = w
        BY <1>4, <2>1, <3>1, SizeAssumption DEF Claim, NoTile, TypeOK
      <3>2. CASE v # w
        BY <1>4, <2>1, <2>3, <3>2, SizeAssumption DEF Covered, TypeOK
      <3> QED BY <3>1, <3>2
    <2>6. ASSUME NEW c \in Cells, c < cursor', dtm[Plane][c] = Unset,
                 Found(game.moves[Plane][c], dtm[Others], depth - 1)
          PROVE  \E v \in Workers : Active(v)' /\ pos'[v] <= c /\ c < hi'[v]
      <3>1. CASE c < cursor
        BY <1>4, <2>3, <2>4, <2>6, <3>1 DEF Covered
      <3>2. CASE ~ (c < cursor)
        <4>1. ~ NoTile(cursor) /\ c < TileEnd(cursor) /\ cursor <= c
          BY <1>4, <2>6, <3>2, SizeAssumption DEF NoTile, TileEnd, NextTile, Claim, Cells, TypeOK
        <4>2. Active(w)' /\ pos'[w] = cursor /\ hi'[w] = TileEnd(cursor)
          BY <1>4, <4>1 DEF Claim, Active, TypeOK
        <4> QED BY <4>1, <4>2
      <3> QED BY <3>1, <3>2
    <2> QED BY <2>1, <2>2, <2>5, <2>6 DEF Covered, sliceVars
  <1>5. ASSUME NEW w \in Workers, stage = "passes", SkipCell(w) \/ Store(w)
        PROVE  Covered'
    <2> SUFFICES ASSUME ~ error
                 PROVE  Covered'
      BY <1>5 DEF SkipCell, Store, sliceVars, Covered
    <2>1. /\ pos' = [pos EXCEPT ![w] = @ + 1]
          /\ pc' = [pc EXCEPT ![w] = IF pos[w] + 1 < hi[w] THEN "scan" ELSE "claim"]
          /\ Active(w)
          /\ UNCHANGED <<game, stage, depth, cursor, hi, error>>
      BY <1>5 DEF SkipCell, Store, Advance, Active, sliceVars
    <2>2. /\ Plane' = Plane /\ Others' = Others
          /\ Plane \in Sides /\ Others \in Sides /\ Others # Plane
      BY <2>1, MoverAlternates DEF Plane, Others, TypeOK
    <2>3. dtm'[Others] = dtm[Others]
      BY <1>5, <2>2 DEF SkipCell, Store, sliceVars, TypeOK
    <2>4. depth # Unset
      BY <1>5, SizeAssumption DEF Stages, Unset
    <2>5. \A c \in Cells : dtm'[Plane][c] = Unset => dtm[Plane][c] = Unset
      BY <1>5, <2>2, <2>4 DEF SkipCell, Store, sliceVars, TypeOK
    <2>6. /\ dtm'[Plane][pos[w]] = Unset
          /\ Found(game.moves[Plane][pos[w]], dtm[Others], depth - 1)
          => FALSE
      <3>1. CASE SkipCell(w)
        BY <1>5, <3>1 DEF SkipCell, sliceVars, Unresolved, EarnsDepth, MovesAt
      <3>2. CASE Store(w)
        <4>1. pos[w] \in Cells
          BY <1>5, <2>1, SizeAssumption DEF Tiles, Cells, TypeOK
        <4> QED BY <3>2, <4>1, <2>2, <2>4 DEF Store, TypeOK
      <3> QED BY <1>5, <3>1, <3>2
    <2>7. ASSUME NEW c \in Cells, c < cursor, dtm'[Plane][c] = Unset,
                 Found(game.moves[Plane][c], dtm[Others], depth - 1)
          PROVE  \E v \in Workers : Active(v)' /\ pos'[v] <= c /\ c < hi'[v]
      <3>1. PICK v \in Workers : Active(v) /\ pos[v] <= c /\ c < hi[v]
        BY <1>5, <2>5, <2>7 DEF Covered
      <3>2. CASE v # w
        BY <2>1, <3>1, <3>2 DEF Active, TypeOK
      <3>3. CASE v = w
        <4>1. c # pos[w]
          BY <2>6, <2>7
        <4>2. pos[w] + 1 <= c /\ pos[w] + 1 < hi[w]
          BY <3>1, <3>3, <4>1 DEF Cells, TypeOK
        <4> QED BY <2>1, <3>1, <3>3, <4>2 DEF Active, TypeOK
      <3> QED BY <3>2, <3>3
    <2>8. \A v \in Workers : pc'[v] \in {"publish", "done"} => cursor >= PlaneSize
      BY <1>5, <2>1 DEF Covered, TypeOK
    <2> QED BY <2>1, <2>2, <2>3, <2>7, <2>8 DEF Covered
  <1>6. ASSUME NEW w \in Workers, stage = "passes", Evaluate(w) \/ Publish(w)
        PROVE  Covered'
    <2>1. UNCHANGED sliceVars /\ UNCHANGED <<cursor, error, pos, hi>>
      BY <1>6 DEF Evaluate, Publish
    <2>2. \A v \in Workers :
            /\ Active(v) => Active(v)'
            /\ pc'[v] \in {"publish", "done"} => pc[v] \in {"publish", "done"}
      BY <1>6 DEF Evaluate, Publish, Active, TypeOK
    <2> QED BY <2>1, <2>2 DEF Covered, sliceVars, Plane, Others
  <1>7. ASSUME NEW w \in Workers, stage = "passes", Throw(w)
        PROVE  Covered'
    BY <1>7 DEF Throw, Covered
  <1>8. CASE UNCHANGED vars
    BY <1>8 DEF vars, sliceVars, workerVars, Covered, Plane, Others, Active
  <1> QED
    BY <1>1, <1>2, <1>3, <1>4, <1>5, <1>6, <1>7, <1>8
    DEF Next, Coordinator, ScanStep, Stopped

-----------------------------------------------------------------------------
\* The theorems.

(* Every step keeps the invariant. *)
LEMMA InvStep == IInv /\ [Next]_vars => IInv'
  <1> SUFFICES ASSUME IInv, [Next]_vars
               PROVE  IInv'
    OBVIOUS
  <1>1. TypeOK'
    BY TypeStep DEF IInv
  <1>2. Stages' /\ Initialised' /\ Tiles' /\ Pending' /\ Levels'
    BY StagesStep, InitialisedStep, TilesStep, PendingStep, LevelsStep DEF IInv
  <1>3. Covered' /\ Earned' /\ NoneMissed'
    BY <1>1, CoveredStep, EarnedStep, NoneMissedStep
  <1> QED BY <1>1, <1>2, <1>3 DEF IInv

(* Every reachable state satisfies it. *)
LEMMA Invariance == Spec => []IInv
  BY InitInv, InvStep, PTL DEF Spec

(* The generator's variables keep their types: no depth leaves the byte's
   range, no worker its tile or its plane. *)
THEOREM TypeCorrect == Spec => []TypeOK
  BY Invariance, PTL DEF IInv

(* A worker's store never hits a byte another worker is reading or about to
   write in the same pass, for any plane, number of threads and tile size: what
   scan_pass's safety argument claims. *)
THEOREM RaceFree == Spec => []NoDataRace
  <1>1. IInv => NoDataRace
    <2> SUFFICES ASSUME IInv, stage = "passes", NEW v \in Workers, NEW w \in Workers,
                        v # w, pc[v] = "store", pc[w] \in {"scan", "store"}
                 PROVE  <<Plane, pos[v]>> \notin Accesses(w)
      BY DEF NoDataRace
    <2>1. pos[v] # pos[w]
      BY DEF IInv, Tiles, Active, TypeOK
    <2>2. Plane # Others
      BY MoverAlternates DEF IInv, TypeOK, Plane, Others
    <2> QED BY <2>1, <2>2 DEF Accesses
  <1> QED BY <1>1, Invariance, PTL

(* Every value in the planes is justified by the values of its successors,
   whatever the schedule of the workers. *)
THEOREM ValuesEarned == Spec => []Earned
  BY Invariance, PTL DEF IInv

(* After a pass no cell is left unset that a move of depth d - 1 should have
   given depth d: the tiles cover the plane and no cell is skipped. *)
THEOREM PassesComplete == Spec => []NoneMissed
  BY Invariance, PTL DEF IInv

(* No step replaces a value by another one: a cell that has its value keeps it
   and its count for good. *)
THEOREM WrittenOnce == Spec => WriteOnce
  <1>1. ASSUME IInv, [Next]_vars, stage # "load", NEW s \in Sides, NEW c \in Cells,
               dtm[s][c] # Unset
        PROVE  dtm'[s][c] = dtm[s][c] /\ cnt'[s][c] = cnt[s][c]
    <2> USE <1>1 DEF IInv
    <2>1. CASE LoadSubTables \/ InitJoin \/ Join \/ UNCHANGED vars
      BY <2>1 DEF LoadSubTables, InitJoin, Join, vars, sliceVars
    <2>2. CASE Finalize
      BY <2>2 DEF Finalize, TypeOK
    <2>3. ASSUME NEW w \in Workers, InitChunk(w)
          PROVE  dtm'[s][c] = dtm[s][c] /\ cnt'[s][c] = cnt[s][c]
      BY <2>3 DEF InitChunk, Initialised, TypeOK
    <2>4. ASSUME NEW w \in Workers, stage = "passes", ScanStep(w), ~ Store(w)
          PROVE  dtm'[s][c] = dtm[s][c] /\ cnt'[s][c] = cnt[s][c]
      BY <2>4 DEF ScanStep, Claim, SkipCell, Evaluate, Throw, Publish, sliceVars
    <2>5. ASSUME NEW w \in Workers, stage = "passes", Store(w)
          PROVE  dtm'[s][c] = dtm[s][c] /\ cnt'[s][c] = cnt[s][c]
      <3>1. dtm[Plane][pos[w]] = Unset
        BY <2>5 DEF Pending, Store, Unresolved
      <3> QED BY <2>5, <3>1 DEF Store, TypeOK
    <2> QED
      BY <2>1, <2>2, <2>3, <2>4, <2>5 DEF Next, Coordinator, Stopped
  <1>2. IInv /\ [Next]_vars =>
          [\A s \in Sides, c \in Cells :
             (stage # "load" /\ dtm[s][c] # Unset)
               => dtm'[s][c] = dtm[s][c] /\ cnt'[s][c] = cnt[s][c]]_vars
    BY <1>1
  <1> QED BY <1>2, Invariance, PTL DEF Spec, WriteOnce
-----------------------------------------------------------------------------
\* The refinement of Retrograde: what the join of a pass rests on.

\* The chunks of the workers that are done have their first values, and nothing has thrown.
Dealt ==
  /\ stage \in {"load", "init"} => ~ error
  /\ stage = "load" => \A w \in Workers : pc[w] = "init"
  /\ stage = "init" =>
       \A w \in Workers : pc[w] = "done" =>
         \A s \in Sides, c \in Chunk(w) :
           dtm[s][c] = InitDtm(game, s, c) /\ cnt[s][c] = InitCnt(game, s, c)

Blank == \A s \in Sides, c \in Cells : dtm[s][c] = Unset => cnt[s][c] = 0

\* A cell whose lookups throw gets no value, and its worker has not passed it.
Unfit(c) == dtm[Plane][c] = Unset /\ Throws(game.moves[Plane][c])
InTile(c) == \E w \in Workers : Active(w) /\ pos[w] <= c /\ c < hi[w]
Faulty ==
  stage = "passes" =>
    /\ error => \E c \in Cells : Unfit(c)
    /\ \A w \in Workers : pc[w] = "store" => ~ Throws(MovesAt(w))
    /\ \A c \in Cells : dtm[Plane][c] = depth => ~ Throws(game.moves[Plane][c])
    /\ ~ error => \A c \in Cells : c < cursor /\ Unfit(c) => InTile(c)

\* Something is counted just when a cell was assigned in this pass.
Assigned == \E c \in Cells : dtm[Plane][c] = depth
Counting ==
  stage = "passes" =>
    /\ resolved > 0 \/ (\E w \in Workers : local[w] > 0) => Assigned
    /\ Assigned /\ ~ error => resolved > 0 \/ \E w \in Workers : pc[w] # "done" /\ local[w] > 0

\* The passes end after one at least, and beyond every depth they gave.
Over ==
  stage = "finalize" =>
    /\ depth # 0
    /\ \A s \in Sides, c \in Cells : dtm[s][c] \in 1 .. DtmMax => dtm[s][c] < depth

JInv == Dealt /\ Blank /\ Faulty /\ Counting /\ Over
-----------------------------------------------------------------------------
\* Those facts are inductive over IInv.

(* Dividing rounds up: enough parts of that size hold everything. *)
LEMMA Rounded ==
  ASSUME NEW a \in Nat \ {0}, NEW b \in Nat \ {0}
  PROVE  DivUp(a, b) \in Nat \ {0} /\ a <= b * DivUp(a, b) /\ (a < b => DivUp(a, b) = 1)
  <1> DEFINE n == a + b - 1
             q == n \div b
             r == n % b
  <1>1. n \in Nat /\ q \in Nat /\ r \in Nat /\ r < b /\ n = b * q + r
    OBVIOUS
  <1>2. b * q \in Nat
    BY <1>1
  <1>3. DivUp(a, b) = q
    BY DEF DivUp
  <1>4. a < b => n = b * 1 + (a - 1) /\ a - 1 \in Nat /\ a - 1 < b
    OBVIOUS
  <1>5. n < b + b => q < 2
    <2> HIDE DEF q, r, n
    <2> SUFFICES ASSUME n < b + b, q >= 2 PROVE FALSE
      BY <1>1
    <2>1. b * q >= b * 2
      BY <1>1
    <2> QED BY <1>1, <2>1
  <1>6. q # 0
    <2> HIDE DEF q, r
    <2> SUFFICES ASSUME q = 0 PROVE FALSE
      OBVIOUS
    <2>1. b * q = 0
      OBVIOUS
    <2> QED BY <1>1, <2>1
  <1> HIDE DEF q, r
  <1> QED BY <1>1, <1>2, <1>3, <1>4, <1>5, <1>6

(* The workers' chunks cover the plane. *)
LEMMA ChunksCover == \A c \in Cells : \E w \in Workers : c \in Chunk(w)
  <1> SUFFICES ASSUME NEW c \in Cells PROVE \E w \in Workers : c \in Chunk(w)
    OBVIOUS
  <1> DEFINE b == DivUp(PlaneSize, Threads)
             q == c \div b
             r == c % b
  <1>0. PlaneSize \in Nat \ {0} /\ Threads \in Nat \ {0}
    BY SizeAssumption, ThreadsAssumption
  <1>1. b \in Nat \ {0} /\ PlaneSize <= Threads * b /\ (PlaneSize < Threads => b = 1)
    BY <1>0, Rounded
  <1> HIDE DEF b
  <1>2. c \in Nat /\ c < PlaneSize
    BY <1>0 DEF Cells
  <1>3. q \in Nat /\ r \in Nat /\ r < b /\ c = b * q + r
    BY <1>1, <1>2
  <1> HIDE DEF q, r
  <1>4. b * q \in Nat /\ q * b = b * q /\ (q + 1) * b = b * q + b
    BY <1>1, <1>3
  <1>5. q < NumWorkers
    <2>1. CASE PlaneSize < Threads
      BY <1>0, <1>1, <1>2, <1>3, <2>1 DEF NumWorkers
    <2>2. CASE ~ (PlaneSize < Threads)
      <3> SUFFICES ASSUME q >= Threads PROVE FALSE
        BY <1>0, <1>3, <2>2 DEF NumWorkers
      <3>1. b * q >= b * Threads /\ b * Threads = Threads * b
        BY <1>0, <1>1, <1>3
      <3> QED BY <1>0, <1>1, <1>2, <1>3, <1>4, <3>1
    <2> QED BY <2>1, <2>2
  <1>6. NumWorkers \in Nat \ {0}
    BY TileCellsPositive
  <1>7. q + 1 \in Workers /\ (q + 1) - 1 = q
    BY <1>3, <1>5, <1>6 DEF Workers
  <1>8. q * b <= c /\ c < (q + 1) * b
    BY <1>1, <1>2, <1>3, <1>4
  <1>9. c \in Chunk(q + 1)
    BY <1>7, <1>8 DEF Chunk, b
  <1> QED BY <1>7, <1>9

(* Chunks lie in the plane. *)
LEMMA ChunkIn == ASSUME NEW w PROVE Chunk(w) \subseteq Cells
  BY DEF Chunk

(* A worker fills its chunk once and no other touches it, so the first values stay until the join. *)
LEMMA DealtStep ==
  ASSUME IInv, Dealt, [Next]_vars
  PROVE  Dealt'
  <1> USE DEF IInv, TypeOK
  <1>1. CASE LoadSubTables
    BY <1>1 DEF LoadSubTables, workerVars, Dealt
  <1>2. CASE InitJoin \/ Join \/ Finalize
    BY <1>2 DEF InitJoin, Join, Finalize, Dealt
  <1>3. ASSUME NEW v \in Workers, InitChunk(v)
        PROVE  Dealt'
    <2>1. stage = "init" /\ stage' = "init" /\ game' = game /\ error' = error
      BY <1>3 DEF InitChunk
    <2>2. ASSUME NEW w \in Workers, pc'[w] = "done", NEW s \in Sides, NEW c \in Chunk(w)
          PROVE  dtm'[s][c] = InitDtm(game, s, c) /\ cnt'[s][c] = InitCnt(game, s, c)
      <3>1. c \in Cells
        BY ChunkIn
      <3>2. CASE c \in Chunk(v)
        BY <1>3, <3>1, <3>2 DEF InitChunk
      <3>3. CASE c \notin Chunk(v)
        <4>1. w # v /\ pc[w] = "done"
          BY <1>3, <2>2, <3>3 DEF InitChunk
        <4>2. dtm[s][c] = InitDtm(game, s, c) /\ cnt[s][c] = InitCnt(game, s, c)
          BY <2>1, <4>1 DEF Dealt
        <4> QED BY <1>3, <3>1, <3>3, <4>2 DEF InitChunk
      <3> QED BY <3>2, <3>3
    <2>3. \A w : Chunk(w)' = Chunk(w)
      BY DEF Chunk
    <2> QED BY <2>1, <2>2, <2>3 DEF Dealt
  <1>4. ASSUME NEW w \in Workers, stage = "passes", ScanStep(w)
        PROVE  Dealt'
    BY <1>4 DEF ScanStep, Claim, SkipCell, Evaluate, Store, Throw, Publish, sliceVars, Dealt
  <1>5. CASE UNCHANGED vars
    BY <1>5 DEF vars, sliceVars, workerVars, Dealt, Chunk
  <1> QED BY <1>1, <1>2, <1>3, <1>4, <1>5 DEF Next, Coordinator, Stopped

(* A count is written only together with the value it belongs to. *)
LEMMA BlankStep ==
  ASSUME IInv, Blank, [Next]_vars
  PROVE  Blank'
  <1> USE DEF IInv, TypeOK
  <1>1. CASE LoadSubTables \/ InitJoin \/ Join \/ UNCHANGED vars
    BY <1>1 DEF LoadSubTables, InitJoin, Join, vars, sliceVars, Blank
  <1>2. CASE Finalize
    <2>1. Unset # Unsolvable
      BY SizeAssumption DEF Unset, Unsolvable
    <2> QED BY <1>2, <2>1 DEF Finalize, Blank
  <1>3. ASSUME NEW w \in Workers, InitChunk(w)
        PROVE  Blank'
    <2>1. Unset # 0
      BY SizeAssumption DEF Unset
    <2> QED BY <1>3, <2>1 DEF InitChunk, Blank, InitCnt
  <1>4. ASSUME NEW w \in Workers, stage = "passes", Store(w)
        PROVE  Blank'
    <2>1. depth # Unset
      BY <1>4, SizeAssumption DEF Stages, Unset
    <2> QED BY <1>4, <2>1 DEF Store, Blank
  <1>5. ASSUME NEW w \in Workers, stage = "passes", ScanStep(w), ~ Store(w)
        PROVE  Blank'
    BY <1>5 DEF ScanStep, Claim, SkipCell, Evaluate, Throw, Publish, sliceVars, Blank
  <1> QED BY <1>1, <1>2, <1>3, <1>4, <1>5 DEF Next, Coordinator, Stopped

(* The passes end at a join, which moves the depth on from the one it assigned last. *)
LEMMA OverStep ==
  ASSUME IInv, Over, [Next]_vars
  PROVE  Over'
  <1> USE DEF IInv, TypeOK
  <1>1. CASE Join
    <2> SUFFICES ASSUME stage' = "finalize" PROVE Over'
      BY DEF Over
    <2>1. depth' = depth + 1 /\ dtm' = dtm /\ stage = "passes"
      BY <1>1 DEF Join, StartPass
    <2>2. depth' # 0
      BY <2>1
    <2> QED BY <2>1, <2>2 DEF Over, Levels
  <1>2. CASE LoadSubTables \/ InitJoin \/ Finalize
    BY <1>2 DEF LoadSubTables, InitJoin, Finalize, Over
  <1>3. ASSUME NEW w \in Workers, InitChunk(w) \/ (stage = "passes" /\ ScanStep(w))
        PROVE  Over'
    BY <1>3 DEF InitChunk, ScanStep, Claim, SkipCell, Evaluate, Store, Throw, Publish, sliceVars, Over
  <1>4. CASE UNCHANGED vars
    BY <1>4 DEF vars, sliceVars, Over
  <1> QED BY <1>1, <1>2, <1>3, <1>4 DEF Next, Coordinator, Stopped

(* A cell whose lookups throw stays unset in the tile of a worker, until that worker records
   the error; so without an error nothing below the cursor threw, and an error has its cell. *)
LEMMA FaultyStep ==
  ASSUME IInv, Dealt, Faulty, [Next]_vars
  PROVE  Faulty'
  <1> USE DEF IInv, TypeOK
  <1>1. CASE LoadSubTables \/ Finalize
    BY <1>1 DEF LoadSubTables, Finalize, Faulty
  <1>2. CASE InitJoin \/ Join
    <2> SUFFICES ASSUME stage' = "passes" PROVE Faulty'
      BY DEF Faulty
    <2>1. /\ cursor' = 0 /\ (\A w \in Workers : pc'[w] = "claim") /\ ~ error'
          /\ depth' \in 1 .. DtmMax /\ dtm' = dtm
      <3>1. CASE InitJoin
        BY <3>1, SizeAssumption DEF InitJoin, StartPass, Stages, Dealt
      <3>2. CASE Join
        <4>1. ~ error
          BY <3>2 DEF Join
        <4> QED BY <3>2, <4>1, SizeAssumption DEF Join, StartPass, Stages, GoOn
      <3> QED BY <1>2, <3>1, <3>2
    <2>2. \A s \in Sides, c \in Cells : dtm'[s][c] # depth'
      <3>1. CASE InitJoin
        BY <2>1, <3>1, SizeAssumption DEF InitJoin, StartPass, Stages, Unset, Invalid
      <3>2. CASE Join
        <4>1. stage = "passes" /\ depth' = depth + 1
          BY <2>1, <3>2 DEF Join, StartPass
        <4> QED BY <2>1, <4>1 DEF Levels
      <3> QED BY <1>2, <3>1, <3>2
    <2>3. Plane' \in Sides
      BY <2>1, MoverAlternates DEF Plane
    <2>4. \A c \in Cells : dtm'[Plane'][c] # depth' /\ ~ (c < cursor')
      BY <2>1, <2>2, <2>3 DEF Cells
    <2> QED BY <2>1, <2>4 DEF Faulty
  <1>3. ASSUME NEW w \in Workers, InitChunk(w)
        PROVE  Faulty'
    BY <1>3 DEF InitChunk, Faulty
  <1>4. ASSUME NEW w \in Workers, stage = "passes", Claim(w)
        PROVE  Faulty'
    <2>1. UNCHANGED sliceVars /\ cursor' \in Nat /\ cursor < cursor' /\ error' = error
      BY <1>4, TileCellsPositive DEF Claim, NextTile
    <2>2. Plane' = Plane
      BY <2>1 DEF Plane, sliceVars
    <2>3. \A v \in Workers : v # w =>
            (Active(v)' <=> Active(v)) /\ pos'[v] = pos[v] /\ hi'[v] = hi[v] /\ pc'[v] = pc[v]
      BY <1>4 DEF Claim, Active
    <2>4. ~ Active(w) /\ pc'[w] # "store"
      BY <1>4 DEF Claim, Active
    <2>5. ASSUME NEW c \in Cells, c < cursor', Unfit(c), ~ error
          PROVE  InTile(c)'
      <3>1. CASE c < cursor
        BY <1>4, <2>3, <2>4, <2>5, <3>1 DEF Faulty, InTile
      <3>2. CASE ~ (c < cursor)
        <4>1. ~ NoTile(cursor) /\ c < TileEnd(cursor) /\ cursor <= c
          BY <1>4, <2>5, <3>2, SizeAssumption DEF NoTile, TileEnd, NextTile, Claim, Cells
        <4>2. Active(w)' /\ pos'[w] = cursor /\ hi'[w] = TileEnd(cursor)
          BY <1>4, <4>1 DEF Claim, Active
        <4> QED BY <4>1, <4>2 DEF InTile
      <3> QED BY <3>1, <3>2
    <2>6. \A v \in Workers : pc'[v] = "store" => ~ Throws(MovesAt(v))'
      BY <1>4, <2>1, <2>2, <2>3, <2>4 DEF Faulty, MovesAt, sliceVars, Throws
    <2> QED BY <1>4, <2>1, <2>2, <2>5, <2>6 DEF Faulty, Unfit, sliceVars
  <1>5. ASSUME NEW w \in Workers, stage = "passes", SkipCell(w) \/ Store(w)
        PROVE  Faulty'
    <2>1. /\ pos' = [pos EXCEPT ![w] = @ + 1]
          /\ pc' = [pc EXCEPT ![w] = IF pos[w] + 1 < hi[w] THEN "scan" ELSE "claim"]
          /\ Active(w)
          /\ UNCHANGED <<game, stage, depth, cursor, hi, error>>
      BY <1>5 DEF SkipCell, Store, Advance, Active, sliceVars
    <2>2. Plane' = Plane /\ Plane \in Sides
      BY <2>1, MoverAlternates DEF Plane
    <2>3. pos[w] \in Cells
      BY <1>5, <2>1, SizeAssumption DEF Tiles, Cells
    <2>4. depth # Unset
      BY <1>5, SizeAssumption DEF Stages, Unset
    <2>5. \A c \in Cells : dtm'[Plane][c] # dtm[Plane][c] =>
            c = pos[w] /\ dtm'[Plane][c] = depth /\ pc[w] = "store"
      BY <1>5, <2>2 DEF SkipCell, Store, sliceVars
    <2>6. pc[w] = "store" => ~ Throws(game.moves[Plane][pos[w]])
      BY <1>5 DEF Faulty, MovesAt
    <2>7. \A c \in Cells : c = pos[w] => ~ Unfit(c)'
      <3>1. CASE SkipCell(w)
        BY <1>5, <2>1, <2>2, <3>1 DEF SkipCell, sliceVars, Unresolved, MovesAt, Unfit
      <3>2. CASE Store(w)
        BY <1>5, <2>1, <2>2, <2>6, <3>2 DEF Store, Unfit
      <3> QED BY <1>5, <3>1, <3>2
    <2>8. \A c \in Cells : Unfit(c)' => Unfit(c)
      BY <2>1, <2>2, <2>4, <2>5 DEF Unfit
    <2>9. \A c \in Cells : Unfit(c) => Unfit(c)'
      BY <2>1, <2>2, <2>5, <2>6 DEF Unfit
    <2>10. ASSUME NEW c \in Cells, c < cursor, Unfit(c)', ~ error
           PROVE  InTile(c)'
      <3>1. PICK v \in Workers : Active(v) /\ pos[v] <= c /\ c < hi[v]
        BY <1>5, <2>8, <2>10 DEF Faulty, InTile
      <3>2. CASE v # w
        BY <2>1, <3>1, <3>2 DEF Active, InTile
      <3>3. CASE v = w
        <4>1. c # pos[w]
          BY <2>7, <2>10
        <4>2. pos[w] + 1 <= c /\ pos[w] + 1 < hi[w]
          BY <3>1, <3>3, <4>1 DEF Cells
        <4> QED BY <2>1, <3>1, <3>3, <4>2 DEF Active, InTile
      <3> QED BY <3>2, <3>3
    <2>11. \A c \in Cells : dtm'[Plane][c] = depth => ~ Throws(game.moves[Plane][c])
      BY <1>5, <2>5, <2>6 DEF Faulty
    <2>12. ASSUME NEW v \in Workers, pc'[v] = "store"
           PROVE  ~ Throws(MovesAt(v))'
      <3>1. v # w /\ pc[v] = "store" /\ pos'[v] = pos[v]
        BY <2>1, <2>12
      <3> QED BY <1>5, <2>1, <2>2, <3>1 DEF Faulty, MovesAt, Throws
    <2>13. error => \E c \in Cells : Unfit(c)'
      BY <1>5, <2>9 DEF Faulty
    <2> QED BY <2>1, <2>2, <2>10, <2>11, <2>12, <2>13 DEF Faulty
  <1>6. ASSUME NEW w \in Workers, stage = "passes", Evaluate(w) \/ Publish(w)
        PROVE  Faulty'
    <2>1. UNCHANGED sliceVars /\ UNCHANGED <<cursor, error, pos, hi>>
      BY <1>6 DEF Evaluate, Publish
    <2>2. \A v \in Workers : Active(v) => Active(v)'
      BY <1>6 DEF Evaluate, Publish, Active
    <2>3. \A v \in Workers : MovesAt(v)' = MovesAt(v)
      BY <2>1 DEF MovesAt, Plane, sliceVars
    <2>4. \A v \in Workers : pc'[v] = "store" => ~ Throws(MovesAt(v))
      BY <1>6 DEF Evaluate, Publish, Faulty
    <2>5. \A c : (Unfit(c)' <=> Unfit(c)) /\ (InTile(c) => InTile(c)')
      BY <2>1, <2>2 DEF Unfit, InTile, Plane, sliceVars
    <2>6. \A v \in Workers : pc'[v] = "store" => ~ Throws(MovesAt(v))'
      BY <2>3, <2>4 DEF Throws
    <2> QED BY <1>6, <2>1, <2>5, <2>6 DEF Faulty, sliceVars, Plane
  <1>7. ASSUME NEW w \in Workers, stage = "passes", Throw(w)
        PROVE  Faulty'
    <2>1. UNCHANGED sliceVars /\ UNCHANGED <<pos, hi>> /\ error'
      BY <1>7 DEF Throw
    <2>2. \A v \in Workers : pc'[v] = "store" => pc[v] = "store"
      BY <1>7 DEF Throw
    <2>3. \A v \in Workers : MovesAt(v)' = MovesAt(v)
      BY <2>1 DEF MovesAt, Plane, sliceVars
    <2>4. pos[w] \in Cells
      BY <1>7, SizeAssumption DEF Throw, Tiles, Active, Cells
    <2>5. Unfit(pos[w])'
      BY <1>7, <2>1 DEF Throw, Unfit, Unresolved, MovesAt, Plane, sliceVars
    <2>6. \A v \in Workers : pc'[v] = "store" => ~ Throws(MovesAt(v))'
      BY <1>7, <2>2, <2>3 DEF Throws, Faulty
    <2> QED BY <1>7, <2>1, <2>4, <2>5, <2>6 DEF Faulty, sliceVars, Plane
  <1>8. CASE UNCHANGED vars
    BY <1>8 DEF vars, sliceVars, workerVars, Faulty, Unfit, InTile, Plane, Active, MovesAt
  <1> QED
    BY <1>1, <1>2, <1>3, <1>4, <1>5, <1>6, <1>7, <1>8
    DEF Next, Coordinator, ScanStep, Stopped

(* A worker counts a cell in the step that assigns it and hands its count on before it is done. *)
LEMMA CountingStep ==
  ASSUME IInv, Counting, [Next]_vars
  PROVE  Counting'
  <1> USE DEF IInv, TypeOK
  <1>1. CASE LoadSubTables \/ Finalize
    BY <1>1 DEF LoadSubTables, Finalize, Counting
  <1>2. CASE InitJoin \/ Join
    <2> SUFFICES ASSUME stage' = "passes" PROVE Counting'
      BY DEF Counting
    <2>1. resolved' = 0 /\ (\A w \in Workers : local'[w] = 0) /\ depth' \in 1 .. DtmMax /\ dtm' = dtm
      <3>1. CASE InitJoin
        BY <3>1, SizeAssumption DEF InitJoin, StartPass
      <3>2. CASE Join
        <4>1. ~ error
          BY <3>2 DEF Join
        <4> QED BY <3>2, <4>1, SizeAssumption DEF Join, StartPass, Stages, GoOn
      <3> QED BY <1>2, <3>1, <3>2
    <2>2. \A s \in Sides, c \in Cells : dtm'[s][c] # depth'
      <3>1. CASE InitJoin
        BY <2>1, <3>1, SizeAssumption DEF InitJoin, StartPass, Stages, Unset, Invalid
      <3>2. CASE Join
        <4>1. stage = "passes" /\ depth' = depth + 1
          BY <2>1, <3>2 DEF Join, StartPass
        <4> QED BY <2>1, <4>1 DEF Levels
      <3> QED BY <1>2, <3>1, <3>2
    <2>3. \A d \in Nat : Mover(d) \in Sides
      BY MoverAlternates
    <2>4. ~ Assigned'
      BY <2>1, <2>2, <2>3 DEF Assigned, Plane
    <2> QED BY <2>1, <2>4 DEF Counting
  <1>3. ASSUME NEW w \in Workers, InitChunk(w)
        PROVE  Counting'
    BY <1>3 DEF InitChunk, Counting
  <1>4. ASSUME NEW w \in Workers, stage = "passes",
               Claim(w) \/ SkipCell(w) \/ Evaluate(w) \/ Throw(w)
        PROVE  Counting'
    <2>1. UNCHANGED sliceVars /\ UNCHANGED <<resolved, local>>
      BY <1>4 DEF Claim, SkipCell, Evaluate, Throw
    <2>2. Assigned' <=> Assigned
      BY <2>1 DEF Assigned, Plane, sliceVars
    <2>3. ~ error' => ~ error /\ \A v \in Workers : pc[v] # "done" => pc'[v] # "done"
      BY <1>4 DEF Claim, SkipCell, Evaluate, Throw, Advance
    <2> QED BY <1>4, <2>1, <2>2, <2>3 DEF Counting
  <1>5. ASSUME NEW w \in Workers, stage = "passes", Store(w)
        PROVE  Counting'
    <2>1. Plane' = Plane /\ Plane \in Sides /\ depth' = depth
      BY <1>5, MoverAlternates DEF Plane, Store
    <2>2. pos[w] \in Cells
      BY <1>5, SizeAssumption DEF Store, Tiles, Active, Cells
    <2>3. Assigned'
      BY <1>5, <2>1, <2>2 DEF Assigned, Store
    <2>4. local'[w] > 0 /\ pc'[w] # "done"
      BY <1>5 DEF Store, Advance
    <2> QED BY <2>3, <2>4 DEF Counting
  <1>6. ASSUME NEW w \in Workers, stage = "passes", Publish(w)
        PROVE  Counting'
    <2>1. UNCHANGED sliceVars /\ local' = local /\ error' = error /\ resolved' = resolved + local[w]
      BY <1>6 DEF Publish, Published
    <2>2. Assigned' <=> Assigned
      BY <2>1 DEF Assigned, Plane, sliceVars
    <2>3. \A v \in Workers : v # w => pc'[v] = pc[v]
      BY <1>6 DEF Publish
    <2>4. resolved' > 0 <=> resolved > 0 \/ local[w] > 0
      BY <2>1
    <2> QED BY <1>6, <2>1, <2>2, <2>3, <2>4 DEF Counting
  <1>7. CASE UNCHANGED vars
    BY <1>7 DEF vars, sliceVars, workerVars, Counting, Assigned, Plane
  <1> QED
    BY <1>1, <1>2, <1>3, <1>4, <1>5, <1>6, <1>7
    DEF Next, Coordinator, ScanStep, Stopped

(* Every reachable state is one the joins can rely on. *)
LEMMA JoinInv == Spec => []JInv
  <1>1. Init => JInv
    <2>1. Init => Blank /\ Dealt
      BY DEF Init, Blank, Dealt
    <2> QED BY <2>1 DEF Init, JInv, Faulty, Counting, Over
  <1>2. IInv /\ JInv /\ [Next]_vars => JInv'
    BY DealtStep, BlankStep, FaultyStep, CountingStep, OverStep DEF JInv
  <1> QED BY <1>1, <1>2, Invariance, PTL DEF Spec

-----------------------------------------------------------------------------
\* The sequential run a parallel one shows.

(* The promise looks a depth up among the moves as the generator does. *)
LEMMA AsFound == \A moves, dt, n : Sequential!Found(moves, dt, n) <=> Found(moves, dt, n)
  BY DEF Sequential!Found, Found, Sequential!EvalsTo, EvalsTo, Sequential!BaseDtm, BaseDtm,
         Sequential!Via, Via, Sequential!NoIndex, NoIndex, Sequential!Unsolvable, Unsolvable

(* The promise adds the counts of a sequence up as the generator does. *)
LEMMA AsSummed == \A s : Sequential!SumSeq(s) = SumSeq(s)
  BY DEF Sequential!SumSeq, SumSeq, Sequential!FoldSeq, FoldSeq, Sequential!FoldFunction, FoldFunction,
         Sequential!FoldFunctionOnSet, FoldFunctionOnSet, Sequential!MapThenFoldSet, MapThenFoldSet

(* The promise counts the lines of one move as the generator does. *)
LEMMA AsCounted ==
  ASSUME NEW m, NEW dt, NEW ct, NEW n
  PROVE  Sequential!EvalCount(m, dt, ct, n) = EvalCount(m, dt, ct, n)
  <1> DEFINE eps == [i \in DOMAIN m.ep |-> IF Via(m.ep[i]) = n THEN m.ep[i].count ELSE 0]
  <1>1. eps = [i \in DOMAIN m.ep |-> IF Sequential!Via(m.ep[i]) = n THEN m.ep[i].count ELSE 0]
    BY DEF Via, Sequential!Via, Unsolvable, Sequential!Unsolvable
  <1>2. Sequential!SumSeq(eps) = SumSeq(eps)
    BY AsSummed
  <1> HIDE DEF eps
  <1>3. EvalCount(m, dt, ct, n) = Cap((IF BaseDtm(m, dt) = n THEN BaseCount(m, ct) ELSE 0) + SumSeq(eps))
    BY DEF EvalCount, eps
  <1>4. Sequential!EvalCount(m, dt, ct, n) =
          Sequential!Cap((IF Sequential!BaseDtm(m, dt) = n THEN Sequential!BaseCount(m, ct) ELSE 0)
                         + Sequential!SumSeq(eps))
    BY <1>1 DEF Sequential!EvalCount
  <1> QED  BY <1>2, <1>3, <1>4 DEF Cap, Sequential!Cap, BaseDtm, Sequential!BaseDtm, BaseCount, Sequential!BaseCount, NoIndex, Sequential!NoIndex

(* The promise counts the lines of a cell as the generator does. *)
LEMMA AsTotalled ==
  ASSUME NEW moves, NEW dt, NEW ct, NEW n
  PROVE  Sequential!Total(moves, dt, ct, n) = Total(moves, dt, ct, n)
  <1> DEFINE sums == [i \in DOMAIN moves |->
                        IF EvalsTo(moves[i], dt, n) THEN EvalCount(moves[i], dt, ct, n) ELSE 0]
  <1>1. sums = [i \in DOMAIN moves |->
                  IF Sequential!EvalsTo(moves[i], dt, n) THEN Sequential!EvalCount(moves[i], dt, ct, n) ELSE 0]
    <2>1. \A m : Sequential!EvalsTo(m, dt, n) <=> EvalsTo(m, dt, n)
      BY DEF Sequential!EvalsTo, EvalsTo, Sequential!BaseDtm, BaseDtm,
         Sequential!Via, Via, Sequential!NoIndex, NoIndex, Sequential!Unsolvable, Unsolvable
    <2> QED  BY <2>1, AsCounted
  <1> HIDE DEF sums
  <1>2. Sequential!SumSeq(sums) = SumSeq(sums)
    BY AsSummed
  <1>3. Total(moves, dt, ct, n) = Cap(SumSeq(sums))
    BY DEF Total, sums
  <1>4. Sequential!Total(moves, dt, ct, n) = Sequential!Cap(Sequential!SumSeq(sums))
    BY <1>1 DEF Sequential!Total
  <1> QED  BY <1>2, <1>3, <1>4 DEF Cap, Sequential!Cap

(* The promise has the same sides, cells and first values. *)
LEMMA AsNamed ==
  /\ Sequential!Sides = Sides /\ Sequential!Cells = Cells
  /\ Sequential!Unset = Unset /\ Sequential!Unsolvable = Unsolvable
  /\ \A s : Sequential!Opp(s) = Opp(s)
  /\ \A d : Sequential!Mover(d) = Mover(d)
  /\ \A d, m : Sequential!GoOn(d, m) = GoOn(d, m)
  /\ \A g, s, c : /\ Sequential!InitDtm(g, s, c) = InitDtm(g, s, c)
                  /\ Sequential!InitCnt(g, s, c) = InitCnt(g, s, c)
  /\ \A plane : Sequential!InitMax(plane) = InitMax(plane)
  /\ \A moves : Sequential!Throws(moves) = Throws(moves)
  BY DEF Sequential!Sides, Sides, Sequential!Cells, Cells, Sequential!Unset, Unset,
         Sequential!Unsolvable, Unsolvable, Sequential!Opp, Opp, Sequential!Mover, Mover,
         Sequential!GoOn, GoOn, Sequential!InitDtm, InitDtm, Sequential!InitCnt, InitCnt,
         Sequential!Invalid, Invalid, Sequential!InitMax, InitMax, Sequential!Throws, Throws

\* The planes as the last join left them.
Shown == [s \in Sides |-> [c \in Cells |-> IF Joined(s, c) THEN dtm[s][c] ELSE Unset]]
ShownCnt == [s \in Sides |-> [c \in Cells |-> IF Joined(s, c) THEN cnt[s][c] ELSE 0]]
shown == <<game, stage, depth, Shown, ShownCnt, maxDtm, misses>>

\* What the pass has to find, from what is shown.
NewlyShown == {c \in Cells : Shown[Plane][c] = Unset /\ Found(game.moves[Plane][c], Shown[Others], depth - 1)}

(* What is shown after the first values is what the promise has after them. *)
LEMMA ShowsInitPass ==
  ASSUME stage = "init",
         Shown' = [s \in Sides |-> [c \in Cells |-> InitDtm(game, s, c)]],
         ShownCnt' = [s \in Sides |-> [c \in Cells |-> InitCnt(game, s, c)]],
         maxDtm' = InitMax(Shown'["black"]), stage' = "passes", depth' = 1,
         UNCHANGED <<game, misses>>
  PROVE  Sequential!InitPass
  BY AsNamed DEF Sequential!InitPass, Shown, ShownCnt

(* A join that shows the cells newly found, with their counts, is a pass of the promise. *)
LEMMA ShowsScanPass ==
  ASSUME stage = "passes",
         \A c \in Cells : Shown[Plane][c] = Unset => ~ Throws(game.moves[Plane][c]),
         Shown' = [Shown EXCEPT ![Plane] = [c \in Cells |-> IF c \in NewlyShown THEN depth ELSE @[c]]],
         ShownCnt' = [ShownCnt EXCEPT ![Plane] = [c \in Cells |->
                        IF c \in NewlyShown
                          THEN Total(game.moves[Plane][c], Shown[Others], ShownCnt[Others], depth - 1)
                          ELSE @[c]]],
         misses' = IF NewlyShown = {} THEN misses + 1 ELSE 0,
         maxDtm' = IF NewlyShown = {} THEN maxDtm ELSE depth,
         depth' = depth + 1,
         stage' = IF GoOn(depth', misses') THEN "passes" ELSE "finalize",
         UNCHANGED game
  PROVE  Sequential!ScanPass
  <1>1. Sequential!Open(Plane) = {c \in Cells : Shown[Plane][c] = Unset}
    BY AsNamed DEF Sequential!Open, Shown
  <1>2. Sequential!Solved(Plane, depth) = NewlyShown
    BY <1>1, AsNamed, AsFound DEF Sequential!Solved, NewlyShown, Shown, Others, Plane
  <1>3. Sequential!Mover(depth) = Plane /\ Sequential!Opp(Plane) = Others
    BY AsNamed DEF Plane, Others
  <1> DEFINE Counts(c) == IF c \in NewlyShown
                            THEN Total(game.moves[Plane][c], Shown[Others], ShownCnt[Others], depth - 1)
                            ELSE ShownCnt[Plane][c]
             SeqCounts(c) == IF c \in NewlyShown
                               THEN Sequential!Total(game.moves[Plane][c], Shown[Others], ShownCnt[Others], depth - 1)
                               ELSE ShownCnt[Plane][c]
  <1>4. \A c : SeqCounts(c) = Counts(c)
    BY AsTotalled
  <1>5. ShownCnt' = [ShownCnt EXCEPT ![Plane] = [c \in Cells |-> Counts(c)]]
    OBVIOUS
  <1>6. ShownCnt' = [ShownCnt EXCEPT ![Plane] = [c \in Cells |-> SeqCounts(c)]]
    <2> HIDE DEF Counts, SeqCounts
    <2> QED BY <1>4, <1>5
  <1>7. Sequential!ScanPass <=>
          /\ stage = "passes"
          /\ \A c \in Sequential!Open(Plane) : ~ Throws(game.moves[Plane][c])
          /\ Shown' = [Shown EXCEPT ![Plane] = [c \in Cells |-> IF c \in NewlyShown THEN depth ELSE @[c]]]
          /\ ShownCnt' = [ShownCnt EXCEPT ![Plane] = [c \in Cells |-> SeqCounts(c)]]
          /\ misses' = (IF NewlyShown = {} THEN misses + 1 ELSE 0)
          /\ maxDtm' = (IF NewlyShown = {} THEN maxDtm ELSE depth)
          /\ depth' = depth + 1
          /\ stage' = (IF GoOn(depth', misses') THEN "passes" ELSE "finalize")
          /\ UNCHANGED game
    BY <1>2, <1>3, AsNamed DEF Sequential!ScanPass, Shown, ShownCnt
  <1> QED BY <1>1, <1>6, <1>7

(* A join with an error, shown at a cell whose lookups throw, is a failed pass of the promise. *)
LEMMA ShowsFailPass ==
  ASSUME stage = "passes", NEW c \in Cells, Shown[Plane][c] = Unset, Throws(game.moves[Plane][c]),
         stage' = "failed",
         UNCHANGED <<game, depth, Shown, ShownCnt, maxDtm, misses>>
  PROVE  Sequential!FailPass
  <1>1. Sequential!Open(Plane) = {k \in Cells : Shown[Plane][k] = Unset}
    BY AsNamed DEF Sequential!Open, Shown
  <1>3. Sequential!Mover(depth) = Plane
    BY AsNamed DEF Plane
  <1> QED BY <1>1, <1>3, AsNamed DEF Sequential!FailPass, Shown, ShownCnt

(* Finalizing what is shown is finalizing the promise. *)
LEMMA ShowsFinalize ==
  ASSUME stage = "finalize",
         Shown' = [s \in Sides |-> [c \in Cells |->
                     IF Shown[s][c] = Unset THEN Unsolvable ELSE Shown[s][c]]],
         stage' = "done",
         UNCHANGED <<game, depth, ShownCnt, maxDtm, misses>>
  PROVE  Sequential!Finalize
  BY AsNamed DEF Sequential!Finalize, Shown, ShownCnt

(* Loading the sub-tables is the step of the promise. *)
LEMMA ShowsLoad ==
  ASSUME stage = "load", stage' = IF game.loadable THEN "init" ELSE "failed",
         UNCHANGED <<game, depth, Shown, ShownCnt, maxDtm, misses>>
  PROVE  Sequential!LoadSubTables
  BY AsNamed DEF Sequential!LoadSubTables, Shown, ShownCnt

(* A step that changes nothing that is shown is a stutter of the promise. *)
LEMMA ShowsNothing == UNCHANGED shown <=> UNCHANGED Sequential!vars
  BY AsNamed DEF Sequential!vars, shown, Shown, ShownCnt

(* A run starts with nothing shown, as the promise does. *)
LEMMA ShowsInit == Init => Sequential!Init
  BY AsNamed DEF Init, Sequential!Init, Joined

(* What is shown depends on the planes, the stage and the depth alone. *)
LEMMA ShownFrame ==
  ASSUME UNCHANGED <<stage, depth, dtm, cnt>>
  PROVE  Shown' = Shown /\ ShownCnt' = ShownCnt
  BY DEF Shown, ShownCnt, Joined

(* Before the first pass nothing is shown. *)
LEMMA ShownBefore ==
  ASSUME stage \in {"load", "init"}
  PROVE  /\ Shown = [s \in Sides |-> [c \in Cells |-> Unset]]
         /\ ShownCnt = [s \in Sides |-> [c \in Cells |-> 0]]
  BY DEF Shown, ShownCnt, Joined

(* In a pass all is shown but what it assigned; the other side's plane it does not write. *)
LEMMA ShownIn ==
  ASSUME IInv, stage = "passes"
  PROVE  /\ Plane \in Sides /\ Others \in Sides /\ Others = Opp(Plane) /\ Others # Plane
         /\ \A s \in Sides : s = Plane \/ s = Others
         /\ \A c \in Cells : /\ Shown[Plane][c] = IF dtm[Plane][c] = depth THEN Unset ELSE dtm[Plane][c]
                             /\ ShownCnt[Plane][c] = IF dtm[Plane][c] = depth THEN 0 ELSE cnt[Plane][c]
         /\ Shown[Others] = dtm[Others] /\ ShownCnt[Others] = cnt[Others]
  <1> USE DEF IInv, TypeOK
  <1>1. /\ Plane \in Sides /\ Others \in Sides /\ Others = Opp(Plane) /\ Others # Plane
        /\ \A s \in Sides : s = Plane \/ s = Others
    BY MoverAlternates DEF Plane, Others
  <1>2. depth \in 1 .. DtmMax
    BY DEF Stages
  <1>3. \A c \in Cells : dtm[Others][c] # depth
    BY <1>1, <1>2 DEF Levels, Plane
  <1>4. \A s \in Sides, c \in Cells :
          /\ Shown[s][c] = IF dtm[s][c] = depth THEN Unset ELSE dtm[s][c]
          /\ ShownCnt[s][c] = IF dtm[s][c] = depth THEN 0 ELSE cnt[s][c]
    BY DEF Shown, ShownCnt, Joined
  <1>5. Shown[Others] = [c \in Cells |-> dtm[Others][c]]
    BY <1>1, <1>3 DEF Shown, Joined
  <1>6. ShownCnt[Others] = [c \in Cells |-> cnt[Others][c]]
    BY <1>1, <1>3 DEF ShownCnt, Joined
  <1>7. dtm[Others] \in [Cells -> 0 .. Unsolvable] /\ cnt[Others] \in [Cells -> 0 .. CountSat]
    BY <1>1
  <1> QED BY <1>1, <1>4, <1>5, <1>6, <1>7

(* After a join all is shown. *)
LEMMA ShownAfter ==
  ASSUME IInv, JInv, stage = "passes", depth' = depth + 1, dtm' = dtm, cnt' = cnt,
         stage' \in {"passes", "finalize"}
  PROVE  /\ Shown' = [s \in Sides |-> [c \in Cells |-> dtm[s][c]]]
         /\ ShownCnt' = [s \in Sides |-> [c \in Cells |-> cnt[s][c]]]
  <1> USE DEF IInv, TypeOK
  <1>1. depth \in 1 .. DtmMax
    BY DEF Stages
  <1>2. \A s \in Sides, c \in Cells : dtm[s][c] = depth + 1 => dtm[s][c] = Unset /\ cnt[s][c] = 0
    <2> SUFFICES ASSUME NEW s \in Sides, NEW c \in Cells, dtm[s][c] = depth + 1
                 PROVE  dtm[s][c] = Unset /\ cnt[s][c] = 0
      OBVIOUS
    <2>1. ~ (depth + 1 \in 1 .. DtmMax)
      BY <1>1 DEF Levels
    <2>2. depth + 1 = Unset
      BY <1>1, <2>1, SizeAssumption DEF Unset
    <2> QED BY <2>2 DEF JInv, Blank
  <1>3. \A s \in Sides, c \in Cells :
          /\ (IF Joined(s, c)' THEN dtm'[s][c] ELSE Unset) = dtm[s][c]
          /\ (IF Joined(s, c)' THEN cnt'[s][c] ELSE 0) = cnt[s][c]
    BY <1>2 DEF Joined
  <1> QED BY <1>3 DEF Shown, ShownCnt

(* When the workers have joined, a cell was assigned in this pass just when it had earned it. *)
LEMMA JoinedPass ==
  ASSUME IInv, JInv, stage = "passes", ~ error, \A w \in Workers : pc[w] = "done"
  PROVE  /\ NewlyShown = {c \in Cells : dtm[Plane][c] = depth}
         /\ \A c \in Cells : Shown[Plane][c] = Unset => ~ Throws(game.moves[Plane][c])
         /\ NewlyShown = {} <=> ~ (resolved > 0)
  <1> USE DEF IInv, TypeOK
  <1>1. /\ Plane \in Sides /\ Others = Opp(Plane) /\ depth \in 1 .. DtmMax
        /\ \A c \in Cells : Shown[Plane][c] = IF dtm[Plane][c] = depth THEN Unset ELSE dtm[Plane][c]
        /\ Shown[Others] = dtm[Others]
    BY ShownIn DEF Stages
  <1>2. cursor >= PlaneSize /\ \A w \in Workers : ~ Active(w)
    <2>1. 1 \in Workers
      BY TileCellsPositive DEF Workers
    <2> QED BY <2>1 DEF Covered, Active
  <1>3. \A c \in Cells : c < cursor
    BY <1>2, SizeAssumption DEF Cells
  <1>4. ASSUME NEW c \in Cells, dtm[Plane][c] = depth
        PROVE  Found(game.moves[Plane][c], dtm[Others], depth - 1)
    BY <1>1, <1>4 DEF Earned, EarnedAt
  <1>5. ASSUME NEW c \in Cells, dtm[Plane][c] = Unset
        PROVE  ~ Found(game.moves[Plane][c], dtm[Others], depth - 1)
    BY <1>2, <1>3, <1>5 DEF Covered
  <1>6. NewlyShown = {c \in Cells : dtm[Plane][c] = depth}
    BY <1>1, <1>4, <1>5 DEF NewlyShown
  <1>7. ASSUME NEW c \in Cells, Shown[Plane][c] = Unset
        PROVE  ~ Throws(game.moves[Plane][c])
    <2>1. CASE dtm[Plane][c] = depth
      BY <2>1 DEF JInv, Faulty
    <2>2. CASE dtm[Plane][c] # depth
      <3>1. dtm[Plane][c] = Unset
        BY <1>1, <1>7, <2>2
      <3> QED BY <1>2, <1>3, <3>1 DEF JInv, Faulty, Unfit, InTile
    <2> QED BY <2>1, <2>2
  <1>8. Assigned <=> resolved > 0
    BY DEF JInv, Counting
  <1> QED BY <1>6, <1>7, <1>8 DEF Assigned

(* A pass takes effect when its workers join. *)
LEMMA JoinShows ==
  ASSUME IInv, JInv, Join, ~ error
  PROVE  Sequential!ScanPass
  <1> USE DEF IInv, TypeOK
  <1>1. /\ stage = "passes" /\ (\A w \in Workers : pc[w] = "done")
        /\ depth' = depth + 1 /\ dtm' = dtm /\ cnt' = cnt /\ game' = game
        /\ misses' = (IF resolved > 0 THEN 0 ELSE misses + 1)
        /\ maxDtm' = (IF resolved > 0 THEN depth ELSE maxDtm)
        /\ stage' = (IF GoOn(depth', misses') THEN "passes" ELSE "finalize")
    BY DEF Join, StartPass
  <1>2. /\ NewlyShown = {c \in Cells : dtm[Plane][c] = depth}
        /\ \A c \in Cells : Shown[Plane][c] = Unset => ~ Throws(game.moves[Plane][c])
        /\ NewlyShown = {} <=> ~ (resolved > 0)
    BY <1>1, JoinedPass
  <1>3. /\ Shown' = [s \in Sides |-> [c \in Cells |-> dtm[s][c]]]
        /\ ShownCnt' = [s \in Sides |-> [c \in Cells |-> cnt[s][c]]]
    BY <1>1, ShownAfter
  <1>4. /\ Plane \in Sides /\ Others \in Sides /\ Others = Opp(Plane) /\ Others # Plane
        /\ \A s \in Sides : s = Plane \/ s = Others
        /\ \A c \in Cells : /\ Shown[Plane][c] = IF dtm[Plane][c] = depth THEN Unset ELSE dtm[Plane][c]
                            /\ ShownCnt[Plane][c] = IF dtm[Plane][c] = depth THEN 0 ELSE cnt[Plane][c]
        /\ Shown[Others] = dtm[Others] /\ ShownCnt[Others] = cnt[Others]
    BY <1>1, ShownIn
  <1>5. /\ Shown = [s \in Sides |-> Shown[s]] /\ ShownCnt = [s \in Sides |-> ShownCnt[s]]
        /\ Shown[Others] = [c \in Cells |-> dtm[Others][c]]
        /\ ShownCnt[Others] = [c \in Cells |-> cnt[Others][c]]
    <2>1. dtm[Others] \in [Cells -> 0 .. Unsolvable] /\ cnt[Others] \in [Cells -> 0 .. CountSat]
      BY <1>4
    <2>2. Shown = [s \in Sides |-> Shown[s]] /\ ShownCnt = [s \in Sides |-> ShownCnt[s]]
      BY DEF Shown, ShownCnt
    <2> QED BY <1>4, <2>1, <2>2
  <1> DEFINE Counted(c) == IF c \in NewlyShown
                             THEN Total(game.moves[Plane][c], Shown[Others], ShownCnt[Others], depth - 1)
                             ELSE ShownCnt[Plane][c]
  <1>6. \A c \in Cells : /\ dtm[Plane][c] = IF c \in NewlyShown THEN depth ELSE Shown[Plane][c]
                         /\ cnt[Plane][c] = Counted(c)
    <2>1. \A c \in Cells : c \in NewlyShown =>
            cnt[Plane][c] = Total(game.moves[Plane][c], dtm[Others], cnt[Others], depth - 1)
      BY <1>1, <1>2, <1>4 DEF Earned, EarnedAt, Stages
    <2> QED BY <1>2, <1>4, <2>1
  <1> HIDE DEF Counted
  <1>7. Shown' = [Shown EXCEPT ![Plane] = [c \in Cells |-> IF c \in NewlyShown THEN depth ELSE @[c]]]
    <2> DEFINE P == [c \in Cells |-> IF c \in NewlyShown THEN depth ELSE Shown[Plane][c]]
               R == [Shown EXCEPT ![Plane] = P]
    <2>1. P = [c \in Cells |-> dtm[Plane][c]]
      BY <1>6
    <2> HIDE DEF P
    <2>2. R = [s \in Sides |-> IF s = Plane THEN P ELSE Shown[s]]
      BY <1>5
    <2>3. Shown' = R
      BY <1>3, <1>4, <1>5, <2>1, <2>2
    <2> QED BY <2>3 DEF P
  <1>8. ShownCnt' = [ShownCnt EXCEPT ![Plane] = [c \in Cells |-> Counted(c)]]
    <2> DEFINE P == [c \in Cells |-> Counted(c)]
               R == [ShownCnt EXCEPT ![Plane] = P]
    <2>1. P = [c \in Cells |-> cnt[Plane][c]]
      BY <1>6
    <2> HIDE DEF P
    <2>2. R = [s \in Sides |-> IF s = Plane THEN P ELSE ShownCnt[s]]
      BY <1>5
    <2>3. ShownCnt' = R
      BY <1>3, <1>4, <1>5, <2>1, <2>2
    <2> QED BY <2>3 DEF P
  <1>9. ShownCnt' = [ShownCnt EXCEPT ![Plane] = [c \in Cells |->
                        IF c \in NewlyShown
                          THEN Total(game.moves[Plane][c], Shown[Others], ShownCnt[Others], depth - 1)
                          ELSE @[c]]]
    BY <1>8 DEF Counted
  <1> QED BY <1>1, <1>2, <1>7, <1>9, ShowsScanPass

(* A join that finds an error is a failed pass: the error has a cell that throws. *)
LEMMA FailShows ==
  ASSUME IInv, JInv, Join, error
  PROVE  Sequential!FailPass
  <1> USE DEF IInv, TypeOK
  <1>1. /\ stage = "passes" /\ stage' = "failed"
        /\ UNCHANGED <<game, depth, dtm, cnt, maxDtm, misses>>
    BY DEF Join
  <1>2. PICK c \in Cells : dtm[Plane][c] = Unset /\ Throws(game.moves[Plane][c])
    BY <1>1 DEF JInv, Faulty, Unfit
  <1>3. Shown[Plane][c] = Unset
    BY <1>1, <1>2, ShownIn
  <1>4. Shown' = Shown /\ ShownCnt' = ShownCnt
    BY <1>1 DEF Shown, ShownCnt, Joined
  <1> QED BY <1>1, <1>2, <1>3, <1>4, ShowsFailPass

(* Once all chunks are dealt, the join shows the first values of every cell at once. *)
LEMMA InitShows ==
  ASSUME IInv, JInv, InitJoin
  PROVE  Sequential!InitPass
  <1> USE DEF IInv, TypeOK
  <1>1. /\ stage = "init" /\ stage' = "passes" /\ depth' = 1 /\ maxDtm' = InitMax(dtm["black"])
        /\ UNCHANGED <<game, dtm, cnt, misses>> /\ \A w \in Workers : pc[w] = "done"
    BY DEF InitJoin, StartPass
  <1>2. \A s \in Sides, c \in Cells : dtm[s][c] = InitDtm(game, s, c) /\ cnt[s][c] = InitCnt(game, s, c)
    BY <1>1, ChunksCover DEF JInv, Dealt
  <1>3. \A s \in Sides, c \in Cells : dtm[s][c] # 1
    BY <1>1, SizeAssumption DEF Stages, Unset, Invalid
  <1>4. /\ Shown' = [s \in Sides |-> [c \in Cells |-> dtm[s][c]]]
        /\ ShownCnt' = [s \in Sides |-> [c \in Cells |-> cnt[s][c]]]
    <2>1. \A s \in Sides, c \in Cells : Joined(s, c)'
      BY <1>1, <1>3 DEF Joined
    <2> QED BY <1>1, <2>1 DEF Shown, ShownCnt
  <1>5. /\ Shown' = [s \in Sides |-> [c \in Cells |-> InitDtm(game, s, c)]]
        /\ ShownCnt' = [s \in Sides |-> [c \in Cells |-> InitCnt(game, s, c)]]
    BY <1>2, <1>4
  <1>6. Shown'["black"] = dtm["black"]
    <2>1. dtm["black"] \in [Cells -> 0 .. Unsolvable] /\ "black" \in Sides
      BY DEF Sides
    <2> QED BY <1>4, <2>1
  <1> QED BY <1>1, <1>5, <1>6, ShowsInitPass

(* When the passes are over everything is shown, and finalizing shows it finalized. *)
LEMMA FinalizeShows ==
  ASSUME IInv, JInv, Finalize
  PROVE  Sequential!Finalize
  <1> USE DEF IInv, TypeOK
  <1>1. /\ stage = "finalize" /\ stage' = "done" /\ UNCHANGED <<game, depth, cnt, maxDtm, misses>>
        /\ dtm' = [s \in Sides |-> [c \in Cells |->
                     IF dtm[s][c] = Unset THEN Unsolvable ELSE dtm[s][c]]]
    BY DEF Finalize
  <1>2. ASSUME NEW s \in Sides, NEW c \in Cells
        PROVE  /\ dtm[s][c] = depth => dtm[s][c] = Unset
               /\ dtm'[s][c] # depth
               /\ dtm[s][c] = Unset => cnt[s][c] = 0
    <2>1. depth \in Nat /\ depth <= Unset /\ 0 < depth
      <3>1. depth # 0
        BY <1>1 DEF JInv, Over
      <3> QED BY <3>1, SizeAssumption DEF Unset
    <2>2. dtm[s][c] = depth => dtm[s][c] = Unset
      BY <1>1, <2>1, SizeAssumption DEF JInv, Over, Unset
    <2> QED BY <1>1, <2>1, <2>2, SizeAssumption DEF JInv, Blank, Unset, Unsolvable
  <1>3. \A s \in Sides, c \in Cells :
          /\ (IF Joined(s, c) THEN dtm[s][c] ELSE Unset) = dtm[s][c]
          /\ (IF Joined(s, c) THEN cnt[s][c] ELSE 0) = cnt[s][c]
          /\ Joined(s, c)'
    BY <1>1, <1>2 DEF Joined
  <1>4. Shown = [s \in Sides |-> [c \in Cells |-> dtm[s][c]]]
    BY <1>3 DEF Shown
  <1>5. ShownCnt = [s \in Sides |-> [c \in Cells |-> cnt[s][c]]]
    BY <1>3 DEF ShownCnt
  <1>6. Shown' = [s \in Sides |-> [c \in Cells |-> dtm'[s][c]]]
    BY <1>3 DEF Shown
  <1>7. ShownCnt' = [s \in Sides |-> [c \in Cells |-> cnt[s][c]]]
    BY <1>1, <1>3 DEF ShownCnt
  <1>8. Shown' = [s \in Sides |-> [c \in Cells |-> IF Shown[s][c] = Unset THEN Unsolvable ELSE Shown[s][c]]]
    BY <1>1, <1>4, <1>6
  <1> QED BY <1>1, <1>5, <1>7, <1>8, ShowsFinalize

(* What a worker stores is not shown before it has joined. *)
LEMMA StoreShows ==
  ASSUME IInv, JInv, stage = "passes", NEW w \in Workers, Store(w)
  PROVE  UNCHANGED shown
  <1> USE DEF IInv, TypeOK
  <1>1. /\ UNCHANGED <<game, stage, depth, maxDtm, misses>> /\ depth \in 1 .. DtmMax
        /\ Plane \in Sides /\ pos[w] \in 0 .. PlaneSize
    BY MoverAlternates DEF Store, Stages, Plane
  <1>2. dtm[Plane][pos[w]] = Unset /\ pos[w] \in Cells
    BY SizeAssumption DEF Store, Pending, Unresolved, Tiles, Active, Cells
  <1>3. cnt[Plane][pos[w]] = 0
    BY <1>1, <1>2 DEF JInv, Blank
  <1>4. \A s \in Sides, c \in Cells :
          \/ dtm'[s][c] = dtm[s][c] /\ cnt'[s][c] = cnt[s][c]
          \/ dtm'[s][c] = depth /\ dtm[s][c] = Unset /\ cnt[s][c] = 0
    BY <1>1, <1>2, <1>3 DEF Store
  <1>5. \A s \in Sides, c \in Cells :
          /\ (IF Joined(s, c)' THEN dtm'[s][c] ELSE Unset) = (IF Joined(s, c) THEN dtm[s][c] ELSE Unset)
          /\ (IF Joined(s, c)' THEN cnt'[s][c] ELSE 0) = (IF Joined(s, c) THEN cnt[s][c] ELSE 0)
    BY <1>1, <1>4 DEF Joined
  <1>6. Shown' = Shown
    BY <1>5 DEF Shown
  <1>7. ShownCnt' = ShownCnt
    BY <1>5 DEF ShownCnt
  <1> QED BY <1>1, <1>6, <1>7 DEF shown

(* Each step of the workers is a step of the single-threaded run, or none of it. *)
LEMMA StepShows ==
  ASSUME IInv, JInv, [Next]_vars
  PROVE  Sequential!Next \/ UNCHANGED shown
  <1>1. CASE LoadSubTables
    <2>1. /\ stage = "load" /\ stage' = (IF game.loadable THEN "init" ELSE "failed")
          /\ UNCHANGED <<game, depth, dtm, cnt, maxDtm, misses>>
      BY <1>1 DEF LoadSubTables
    <2>2. \A s \in Sides, c \in Cells : dtm[s][c] = Unset /\ cnt[s][c] = 0
      BY <2>1 DEF IInv, Stages, JInv, Blank
    <2>3. /\ Shown' = [s \in Sides |-> [c \in Cells |-> Unset]]
          /\ ShownCnt' = [s \in Sides |-> [c \in Cells |-> 0]]
      BY <2>1, <2>2 DEF Shown, ShownCnt
    <2>4. Shown' = Shown /\ ShownCnt' = ShownCnt
      BY <2>1, <2>3, ShownBefore
    <2> QED BY <2>1, <2>4, ShowsLoad DEF Sequential!Next
  <1>2. CASE InitJoin
    BY <1>2, InitShows DEF Sequential!Next
  <1>3. CASE Join
    BY <1>3, JoinShows, FailShows DEF Sequential!Next
  <1>4. CASE Finalize
    BY <1>4, FinalizeShows DEF Sequential!Next
  <1>5. ASSUME NEW w \in Workers, InitChunk(w)
        PROVE  UNCHANGED shown
    <2>1. stage = "init" /\ stage' = "init" /\ UNCHANGED <<game, depth, maxDtm, misses>>
      BY <1>5 DEF InitChunk
    <2>2. Shown' = Shown /\ ShownCnt' = ShownCnt
      BY <2>1 DEF Shown, ShownCnt, Joined
    <2> QED BY <2>1, <2>2 DEF shown
  <1>6. ASSUME NEW w \in Workers, stage = "passes", ScanStep(w)
        PROVE  UNCHANGED shown
    <2>1. CASE Store(w)
      BY <1>6, <2>1, StoreShows
    <2>2. CASE ~ Store(w)
      <3>1. UNCHANGED sliceVars
        BY <1>6, <2>2 DEF ScanStep, Claim, SkipCell, Evaluate, Throw, Publish
      <3> QED BY <3>1, ShownFrame DEF sliceVars, shown
    <2> QED BY <2>1, <2>2
  <1>7. CASE UNCHANGED vars
    BY <1>7, ShownFrame DEF vars, sliceVars, shown
  <1> QED BY <1>1, <1>2, <1>3, <1>4, <1>5, <1>6, <1>7 DEF Next, Coordinator, Stopped

(* "The output is byte-identical" (docs/INTERNALS.md): whatever the schedule, the number of
   threads and the tiles, what the passes leave at each join is what the single-threaded run
   computes, step by step; what it promises beyond, that the run ends, stays with TLC. *)
THEOREM RunsSequentially == Spec => Sequential!Init /\ [][Sequential!Next]_(Sequential!vars)
  <1>1. IInv /\ JInv /\ [Next]_vars => [Sequential!Next]_(Sequential!vars)
    BY StepShows, ShowsNothing
  <1> QED BY <1>1, ShowsInit, Invariance, JoinInv, PTL DEF Spec
=============================================================================
