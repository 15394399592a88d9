----------------------------- MODULE Retrograde -----------------------------
(***************************************************************************)
(* What the slice generator promises: the single-threaded run.  A pass     *)
(* assigns its depth to every cell that earns it in one step, and reads    *)
(* only the planes as the pass before left them.                           *)
(* Source: SliceGen::run_all_passes in src/core/generator/generator.cpp.   *)
(***************************************************************************)
EXTENDS SliceGame

VARIABLES
  game,     \* the slice being generated
  stage,    \* "load", "init", "passes", "finalize", "done" or "failed"
  depth,    \* d: the pass to run next
  dtm, cnt, \* the two planes of each value, by side to move
  maxDtm,   \* max_dtm_
  misses    \* passes in a row that assigned nothing

vars == <<game, stage, depth, dtm, cnt, maxDtm, misses>>

Init ==
  /\ game \in Games
  /\ stage = "load"
  /\ depth = 0
  /\ dtm = [s \in Sides |-> [c \in Cells |-> Unset]]
  /\ cnt = [s \in Sides |-> [c \in Cells |-> 0]]
  /\ maxDtm = -1
  /\ misses = 0

\* A missing or mismatched sub-table stops the run before anything is computed.
LoadSubTables ==
  /\ stage = "load"
  /\ stage' = IF game.loadable THEN "init" ELSE "failed"
  /\ UNCHANGED <<game, depth, dtm, cnt, maxDtm, misses>>

InitPass ==
  /\ stage = "init"
  /\ dtm' = [s \in Sides |-> [c \in Cells |-> InitDtm(game, s, c)]]
  /\ cnt' = [s \in Sides |-> [c \in Cells |-> InitCnt(game, s, c)]]
  /\ maxDtm' = InitMax(dtm'["black"])
  /\ stage' = "passes"
  /\ depth' = 1
  /\ UNCHANGED <<game, misses>>

Open(s) == {c \in Cells : dtm[s][c] = Unset}

Solved(s, d) == {c \in Open(s) : Found(game.moves[s][c], dtm[Opp(s)], d - 1)}

ScanPass ==
  LET s   == Mover(depth)
      new == Solved(s, depth)
  IN  /\ stage = "passes"
      /\ \A c \in Open(s) : ~ Throws(game.moves[s][c])
      /\ dtm' = [dtm EXCEPT ![s] = [c \in Cells |-> IF c \in new THEN depth ELSE @[c]]]
      /\ cnt' = [cnt EXCEPT ![s] = [c \in Cells |->
                   IF c \in new
                     THEN Total(game.moves[s][c], dtm[Opp(s)], cnt[Opp(s)], depth - 1)
                     ELSE @[c]]]
      /\ misses' = IF new = {} THEN misses + 1 ELSE 0
      /\ maxDtm' = IF new = {} THEN maxDtm ELSE depth
      /\ depth' = depth + 1
      /\ stage' = IF GoOn(depth', misses') THEN "passes" ELSE "finalize"
      /\ UNCHANGED game

\* A successor that cannot be looked up ends the run with an error.
FailPass ==
  /\ stage = "passes"
  /\ \E c \in Open(Mover(depth)) : Throws(game.moves[Mover(depth)][c])
  /\ stage' = "failed"
  /\ UNCHANGED <<game, depth, dtm, cnt, maxDtm, misses>>

Finalize ==
  /\ stage = "finalize"
  /\ dtm' = [s \in Sides |-> [c \in Cells |->
               IF dtm[s][c] = Unset THEN Unsolvable ELSE dtm[s][c]]]
  /\ stage' = "done"
  /\ UNCHANGED <<game, depth, cnt, maxDtm, misses>>

Stopped == stage \in {"done", "failed"} /\ UNCHANGED vars

Next == LoadSubTables \/ InitPass \/ ScanPass \/ FailPass \/ Finalize \/ Stopped

Spec == Init /\ [][Next]_vars /\ WF_vars(Next)
-----------------------------------------------------------------------------
TypeOK ==
  /\ game \in Game
  /\ stage \in {"load", "init", "passes", "finalize", "done", "failed"}
  /\ depth \in 0 .. DtmMax + 1
  /\ dtm \in [Sides -> [Cells -> 0 .. Unsolvable]]
  /\ cnt \in [Sides -> [Cells -> 0 .. CountSat]]
  /\ maxDtm \in -1 .. DtmMax
  /\ misses \in 0 .. 2

(* The finished table is the oracle's: the length of the shortest cooperative
   line and the saturated number of such lines, for every cell the passes can
   reach.  A depth past two empty ones is not reached: its cells are reported
   unsolvable, and no other cell is. *)
OracleExact ==
  stage = "done" =>
    \A s \in Sides, c \in Cells :
      LET n == OracleDtm(game, s, c)
      IN  IF n <= DtmMax /\ ~ Reached(game, n)
            THEN dtm[s][c] = Unsolvable /\ cnt[s][c] = 0
            ELSE dtm[s][c] = n /\ cnt[s][c] = OracleCnt(game, s, c)
=============================================================================
